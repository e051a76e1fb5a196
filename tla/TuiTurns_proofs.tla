-------------------------- MODULE TuiTurns_proofs --------------------------
(***************************************************************************)
(* Theorems about the turns of the TUI, for every number of inputs,        *)
(* sessions and compactions and every channel capacity, and about what it  *)
(* shows of them, for every number of turns, items and slash commands.     *)
(*                                                                         *)
(* Of TuiTurns, the types, the compactions and the order of the inputs     *)
(* hold in both modes of the screen, and also for an operator who goes on  *)
(* while a cancelled run still ends.  That runs are alone, and what        *)
(* follows for the conversation, holds in the inline screen and with an    *)
(* operator who waits: otherwise it does not.  Transcript, in the second   *)
(* half, is the inline screen and such an operator from the start.         *)
(***************************************************************************)
EXTENDS TuiTurns, Transcript, TLAPS

-----------------------------------------------------------------------------
(***************************************************************************)
(* Type correctness.                                                       *)
(***************************************************************************)

\* What runAgent does to the Model and the runs.
LEMMA RunAgentType ==
  ASSUME TypeOK, NEW i \in Inputs, NEW p \in [Inputs -> Nat], RunAgent(i, p)
  PROVE  /\ running' \in BOOLEAN
         /\ agentCh' \in Inputs \cup {None} /\ cancel' \in Inputs \cup {None}
         /\ pc' \in [Inputs -> RunPhases] /\ done' \in [Inputs -> BOOLEAN]
         /\ pumps' \in [Inputs -> Nat]
  <1>1. /\ running' = TRUE /\ agentCh' = i /\ cancel' = i
        /\ pc' = [pc EXCEPT ![i] = "starting"]
        /\ pumps' = [p EXCEPT ![i] = @ + 1]
    BY DEF RunAgent
  <1>2. pc' \in [Inputs -> RunPhases]
    BY <1>1 DEF TypeOK, RunTypeOK, RunPhases
  <1>3. pumps' \in [Inputs -> Nat]
    BY <1>1
  <1>4. done' \in [Inputs -> BOOLEAN]
    <2>1. CASE cancel = None
      BY <2>1 DEF RunAgent, TypeOK, RunTypeOK
    <2>2. CASE cancel # None
      BY <2>2 DEF RunAgent, TypeOK, RunTypeOK
    <2> QED
      BY <2>1, <2>2
  <1> QED
    BY <1>1, <1>2, <1>3, <1>4

\* What dispatchQueuedInput does to them.
LEMMA DispatchType ==
  ASSUME TypeOK, NEW run \in BOOLEAN, NEW ch \in Inputs \cup {None},
         NEW p \in [Inputs -> Nat], DispatchQueued(run, ch, p)
  PROVE  /\ running' \in BOOLEAN /\ queued' \in Seq(Inputs)
         /\ agentCh' \in Inputs \cup {None} /\ cancel' \in Inputs \cup {None}
         /\ pc' \in [Inputs -> RunPhases] /\ done' \in [Inputs -> BOOLEAN]
         /\ pumps' \in [Inputs -> Nat]
  <1>1. CASE queued = <<>>
    BY <1>1 DEF DispatchQueued, TypeOK, ModelTypeOK, RunTypeOK
  <1>2. CASE queued # <<>>
    <2>1. Head(queued) \in Inputs /\ Tail(queued) \in Seq(Inputs)
      BY <1>2 DEF TypeOK, ModelTypeOK
    <2>2. RunAgent(Head(queued), p) /\ queued' = Tail(queued)
      BY <1>2 DEF DispatchQueued
    <2> QED
      BY <2>1, <2>2, RunAgentType
  <1> QED
    BY <1>1, <1>2

\* A new run of the loop, and the end of a turn.
LEMMA TypeLoop ==
  ASSUME TypeOK, \/ Submit \/ PlaybackEnds
                 \/ \E r \in Inputs : HandleEvent(r) \/ HandleDone(r)
  PROVE  TypeOK'
  <1> USE DEF TypeOK
  <1>1. CASE Submit
    <2>1. asked' \in Inputs /\ asked' \in 0..MaxInputs
      BY <1>1, TuiAssumption DEF Submit, Inputs, ModelTypeOK
    <2>2. ConvoTypeOK' /\ CompactTypeOK'
      BY <1>1 DEF Submit, ConvoTypeOK, CompactTypeOK, convoVars, compactVars
    <2>3. CASE Busy
      <3>1. /\ queued' = Append(queued, asked')
            /\ UNCHANGED <<running, agentCh, cancel, playback, done, pc, pumps>>
        BY <1>1, <2>3 DEF Submit
      <3>2. queued' \in Seq(Inputs)
        BY <2>1, <3>1 DEF ModelTypeOK
      <3>3. ModelTypeOK'
        BY <1>1, <2>1, <3>1, <3>2 DEF Submit, ModelTypeOK
      <3>4. RunTypeOK'
        BY <1>1, <3>1 DEF Submit, RunTypeOK
      <3> QED
        BY <2>2, <3>3, <3>4
    <2>4. CASE ~Busy
      <3>1. RunAgent(asked', pumps) /\ playback' = Finalized
        BY <1>1, <2>4 DEF Submit
      <3>2. playback' \in BOOLEAN
        BY <3>1, TuiAssumption DEF Finalized, ModelTypeOK
      <3>3. pumps \in [Inputs -> Nat]
        BY DEF RunTypeOK
      <3>4. /\ running' \in BOOLEAN
            /\ agentCh' \in Inputs \cup {None} /\ cancel' \in Inputs \cup {None}
            /\ pc' \in [Inputs -> RunPhases] /\ done' \in [Inputs -> BOOLEAN]
            /\ pumps' \in [Inputs -> Nat]
        BY <2>1, <3>1, <3>3, RunAgentType
      <3>5. ModelTypeOK'
        BY <1>1, <2>1, <2>4, <3>2, <3>4 DEF Submit, ModelTypeOK
      <3>6. RunTypeOK'
        BY <1>1, <2>4, <3>4 DEF Submit, RunTypeOK
      <3> QED
        BY <2>2, <3>5, <3>6
    <2> QED
      BY <2>3, <2>4
  <1>2. CASE PlaybackEnds
    <2>1. DispatchQueued(running, agentCh, pumps)
      BY <1>2 DEF PlaybackEnds
    <2>2. /\ running \in BOOLEAN /\ agentCh \in Inputs \cup {None}
          /\ pumps \in [Inputs -> Nat]
      BY DEF ModelTypeOK, RunTypeOK
    <2>3. /\ running' \in BOOLEAN /\ queued' \in Seq(Inputs)
          /\ agentCh' \in Inputs \cup {None} /\ cancel' \in Inputs \cup {None}
          /\ pc' \in [Inputs -> RunPhases] /\ done' \in [Inputs -> BOOLEAN]
          /\ pumps' \in [Inputs -> Nat]
      BY <2>1, <2>2, DispatchType
    <2>4. ModelTypeOK' /\ RunTypeOK'
      BY <1>2, <2>3 DEF PlaybackEnds, ModelTypeOK, RunTypeOK, counters
    <2>5. ConvoTypeOK' /\ CompactTypeOK'
      BY <1>2 DEF PlaybackEnds, ConvoTypeOK, CompactTypeOK, convoVars, compactVars, counters
    <2> QED
      BY <2>4, <2>5
  <1>3. ASSUME NEW r \in Inputs, HandleEvent(r)
        PROVE  TypeOK'
    <2>1. Tail(chan[r]) \in Seq({"event", "done"}) /\ Len(Tail(chan[r])) <= ChanCap
      BY <1>3, TuiAssumption DEF HandleEvent, RunTypeOK
    <2>2. Rearmed(r) \in [Inputs -> Nat]
      <3> DEFINE p == [pumps EXCEPT ![r] = @ - 1]
      <3>1. p \in [Inputs -> Nat]
        BY <1>3 DEF HandleEvent, RunTypeOK
      <3>2. agentCh # None => agentCh \in Inputs
        BY DEF ModelTypeOK
      <3>3. Rearmed(r) = IF agentCh = None THEN p ELSE [p EXCEPT ![agentCh] = @ + 1]
        BY DEF Rearmed
      <3> QED
        BY <3>1, <3>2, <3>3
    <2>3. RunTypeOK'
      BY <1>3, <2>1, <2>2 DEF HandleEvent, RunTypeOK
    <2>4. ModelTypeOK' /\ ConvoTypeOK' /\ CompactTypeOK'
      BY <1>3 DEF HandleEvent, ModelTypeOK, ConvoTypeOK, CompactTypeOK, modelVars,
                  convoVars, compactVars, counters
    <2> QED
      BY <2>3, <2>4
  <1>4. ASSUME NEW r \in Inputs, HandleDone(r)
        PROVE  TypeOK'
    <2> DEFINE p == [pumps EXCEPT ![r] = @ - 1]
    <2>1. p \in [Inputs -> Nat]
      BY <1>4 DEF HandleDone, RunTypeOK
    <2>2. /\ chan' \in [Inputs -> Seq({"event", "done"})]
          /\ \A s \in Inputs : Len(chan'[s]) <= ChanCap
      <3>1. CASE chan[r] # <<>> /\ chan' = [chan EXCEPT ![r] = Tail(@)]
        <4>1. Tail(chan[r]) \in Seq({"event", "done"}) /\ Len(Tail(chan[r])) <= ChanCap
          BY <3>1, TuiAssumption DEF RunTypeOK
        <4> QED
          BY <3>1, <4>1 DEF RunTypeOK
      <3>2. CASE UNCHANGED chan
        BY <3>2 DEF RunTypeOK
      <3> QED
        BY <1>4, <3>1, <3>2 DEF HandleDone
    <2>3. /\ playback' \in BOOLEAN
          /\ running' \in BOOLEAN /\ queued' \in Seq(Inputs)
          /\ agentCh' \in Inputs \cup {None} /\ cancel' \in Inputs \cup {None}
          /\ pc' \in [Inputs -> RunPhases] /\ done' \in [Inputs -> BOOLEAN]
          /\ pumps' \in [Inputs -> Nat]
      <3>1. CASE playback' = TRUE /\ running' = FALSE /\ agentCh' = None /\ pumps' = p
                 /\ UNCHANGED <<queued, cancel, done, pc>>
        BY <2>1, <3>1 DEF ModelTypeOK, RunTypeOK
      <3>2. CASE playback' = FALSE /\ DispatchQueued(FALSE, None, p)
        BY <2>1, <3>2, DispatchType
      <3> QED
        BY <1>4, <3>1, <3>2 DEF HandleDone
    <2>4. phase' \in [Compactions -> CompactPhases]
      BY <1>4 DEF HandleDone, MayAutoCompact, CompactTypeOK, CompactPhases
    <2>5. ModelTypeOK' /\ RunTypeOK'
      BY <1>4, <2>2, <2>3 DEF HandleDone, ModelTypeOK, RunTypeOK, counters
    <2>6. ConvoTypeOK' /\ CompactTypeOK'
      BY <1>4, <2>4 DEF HandleDone, ConvoTypeOK, CompactTypeOK, convoVars, counters
    <2> QED
      BY <2>5, <2>6
  <1> QED
    BY <1>1, <1>2, <1>3, <1>4

\* The other commands of the operator.
LEMMA TypeOperator ==
  ASSUME TypeOK, Interrupt \/ Clear \/ WriteStream \/ New \/ Resume \/ Compact
  PROVE  TypeOK'
  <1> USE DEF TypeOK
  <1>1. Finalized \in BOOLEAN
    BY TuiAssumption DEF Finalized, ModelTypeOK
  <1>2. CASE Interrupt \/ Clear \/ WriteStream
    <2>1. done' \in [Inputs -> BOOLEAN]
      BY <1>2 DEF Interrupt, Clear, WriteStream, runVars, RunTypeOK
    <2>2. <<>> \in Seq(Inputs)
      OBVIOUS
    <2>3. ModelTypeOK'
      BY <1>1, <1>2, <2>2 DEF Interrupt, Clear, WriteStream, ModelTypeOK, counters
    <2>4. ConvoTypeOK' /\ CompactTypeOK'
      BY <1>2 DEF Interrupt, Clear, WriteStream, ConvoTypeOK, CompactTypeOK,
                  convoVars, compactVars, counters
    <2>5. RunTypeOK'
      BY <1>2, <2>1 DEF Interrupt, Clear, WriteStream, runVars, RunTypeOK
    <2> QED
      BY <2>3, <2>4, <2>5
  <1>3. CASE New
    <2>1. ModelTypeOK' /\ RunTypeOK' /\ CompactTypeOK'
      <3>1. RunTypeOK'
        BY <1>3 DEF New, RunTypeOK, runVars
      <3>2. CompactTypeOK'
        BY <1>3 DEF New, CompactTypeOK, compactVars
      <3>3. commands' \in 0..MaxCommands
        BY <1>3, TuiAssumption DEF New, ModelTypeOK
      <3>4. ModelTypeOK'
        BY <1>3, <3>3 DEF New, ModelTypeOK
      <3> QED
        BY <3>1, <3>2, <3>4
    <2>2. ConvoTypeOK'
      BY <1>3, TuiAssumption DEF New, Bumped, ConvoTypeOK, Sessions
    <2> QED
      BY <2>1, <2>2
  <1>4. CASE Resume
    <2>1. ModelTypeOK' /\ RunTypeOK' /\ CompactTypeOK'
      BY <1>1, <1>4, TuiAssumption DEF Resume, ModelTypeOK, RunTypeOK, CompactTypeOK, runVars, compactVars
    <2>2. ConvoTypeOK'
      <3>1. PICK s \in 1..sessions : sess' = s /\ history' = disk[s]
        BY <1>4 DEF Resume
      <3>2. s \in Sessions
        BY <3>1, TuiAssumption DEF ConvoTypeOK, Sessions
      <3> QED
        BY <1>4, <3>1, <3>2 DEF Resume, Bumped, ConvoTypeOK
    <2> QED
      BY <2>1, <2>2
  <1>5. CASE Compact
    <2>1. ModelTypeOK' /\ RunTypeOK' /\ ConvoTypeOK'
      BY <1>1, <1>5, TuiAssumption DEF Compact, ModelTypeOK, RunTypeOK, ConvoTypeOK, runVars, convoVars
    <2>2. CompactTypeOK'
      BY <1>5 DEF Compact, CompactTypeOK, CompactPhases
    <2> QED
      BY <2>1, <2>2
  <1> QED
    BY <1>2, <1>3, <1>4, <1>5

\* A send leaves the channel within its capacity.
LEMMA EmitType ==
  ASSUME TypeOK, NEW r \in Inputs, NEW e \in {"event", "done"}, Emit(r, e)
  PROVE  /\ chan' \in [Inputs -> Seq({"event", "done"})]
         /\ \A s \in Inputs : Len(chan'[s]) <= ChanCap
  <1>1. CASE Room(r) /\ chan' = [chan EXCEPT ![r] = Append(@, e)]
    <2>1. /\ Append(chan[r], e) \in Seq({"event", "done"})
          /\ Len(Append(chan[r], e)) <= ChanCap
      BY <1>1, TuiAssumption DEF Room, TypeOK, RunTypeOK
    <2> QED
      BY <1>1, <2>1 DEF TypeOK, RunTypeOK
  <1>2. CASE UNCHANGED chan
    BY <1>2 DEF TypeOK, RunTypeOK
  <1> QED
    BY <1>1, <1>2 DEF Emit

\* The goroutine of a run.
LEMMA TypeRun ==
  ASSUME TypeOK, NEW r \in Inputs, RunStep(r)
  PROVE  TypeOK'
  <1>1. ModelTypeOK'
    BY DEF TypeOK, ModelTypeOK, RunStep, Snapshot, EmitEvent, Store, Save,
           Announce, Close, modelVars, counters
  <1>2. CompactTypeOK'
    BY DEF TypeOK, CompactTypeOK, RunStep, Snapshot, EmitEvent, Store, Save,
           Announce, Close, compactVars
  <1>3. ConvoTypeOK'
    <2>1. base[r] \cup {r} \subseteq Inputs
      BY DEF TypeOK, RunTypeOK
    <2> QED
      BY <2>1 DEF TypeOK, ConvoTypeOK, RunStep, Snapshot, EmitEvent, Store,
                  Save, Announce, Close, convoVars, counters
  <1>4. /\ chan' \in [Inputs -> Seq({"event", "done"})]
        /\ \A s \in Inputs : Len(chan'[s]) <= ChanCap
    <2>1. CASE UNCHANGED chan
      BY <2>1 DEF TypeOK, RunTypeOK
    <2>2. CASE EmitEvent(r) \/ Announce(r)
      BY <2>2, EmitType DEF EmitEvent, Announce
    <2>3. CASE Close(r)
      <3>1. Emit(r, "done")
        BY <2>3 DEF Close, Emit
      <3> QED
        BY <3>1, EmitType
    <2> QED
      BY <2>1, <2>2, <2>3 DEF RunStep, Snapshot, Store, Save
  <1>5. RunTypeOK'
    <2>1. pc' \in [Inputs -> RunPhases]
      BY DEF TypeOK, RunTypeOK, RunPhases, RunStep, Snapshot, EmitEvent, Store,
             Save, Announce, Close
    <2>2. base' \in [Inputs -> SUBSET Inputs] /\ sessOf' \in [Inputs -> Sessions \cup {0}]
      BY DEF TypeOK, RunTypeOK, ConvoTypeOK, RunStep, Snapshot, EmitEvent, Store,
             Save, Announce, Close
    <2>3. emitted' \in [Inputs -> 0..MaxEvents]
      <3>1. CASE EmitEvent(r)
        <4>1. emitted[r] + 1 \in 0..MaxEvents
          BY <3>1, TuiAssumption DEF TypeOK, RunTypeOK, EmitEvent
        <4> QED
          BY <3>1, <4>1 DEF TypeOK, RunTypeOK, EmitEvent
      <3>2. CASE Store(r)
        BY <3>2, TuiAssumption DEF TypeOK, RunTypeOK, Store
      <3> QED
        BY <3>1, <3>2 DEF TypeOK, RunTypeOK, RunStep, Snapshot, Save, Announce, Close
    <2>4. UNCHANGED <<done, pumps>>
      BY DEF RunStep, Snapshot, EmitEvent, Store, Save, Announce, Close
    <2> QED
      BY <1>4, <2>1, <2>2, <2>3, <2>4 DEF TypeOK, RunTypeOK
  <1> QED
    BY <1>1, <1>2, <1>3, <1>5 DEF TypeOK

\* The command of a compaction.
LEMMA TypeCompact ==
  ASSUME TypeOK, NEW c \in Compactions, CompactStep(c)
  PROVE  TypeOK'
  <1>1. RunTypeOK'
    BY DEF TypeOK, RunTypeOK, CompactStep, Take, SummaryFails, Install,
           SaveSummary, Report, runVars
  <1>2. ModelTypeOK'
    <2>1. Finalized \in BOOLEAN
      BY TuiAssumption DEF Finalized, TypeOK, ModelTypeOK
    <2> QED
      BY <2>1 DEF TypeOK, ModelTypeOK, CompactStep, Take, SummaryFails, Install,
                  SaveSummary, Report, modelVars, counters
  <1>3. ConvoTypeOK'
    BY DEF TypeOK, ConvoTypeOK, CompactTypeOK, CompactStep, Take, SummaryFails,
           Install, SaveSummary, Report, convoVars, counters
  <1>4. CompactTypeOK'
    <2>1. phase' \in [Compactions -> CompactPhases]
      BY DEF TypeOK, CompactTypeOK, CompactPhases, CompactStep, Take,
             SummaryFails, Install, SaveSummary, Report
    <2>2. /\ taken' \in [Compactions -> SUBSET Inputs]
          /\ startVer' \in [Compactions -> Nat]
          /\ target' \in [Compactions -> Sessions \cup {0}]
      BY DEF TypeOK, ConvoTypeOK, CompactTypeOK, CompactStep, Take,
             SummaryFails, Install, SaveSummary, Report
    <2> QED
      BY <2>1, <2>2 DEF CompactTypeOK
  <1> QED
    BY <1>1, <1>2, <1>3, <1>4 DEF TypeOK

\* The types are kept by every step.
LEMMA TypeStep == TypeOK /\ [Next]_vars => TypeOK'
  <1> SUFFICES ASSUME TypeOK, [Next]_vars
               PROVE  TypeOK'
    OBVIOUS
  <1>1. CASE UNCHANGED vars
    BY <1>1 DEF vars, modelVars, convoVars, runVars, compactVars, counters,
                TypeOK, ModelTypeOK, ConvoTypeOK, RunTypeOK, CompactTypeOK
  <1>2. CASE Next
    BY <1>2, TypeLoop, TypeOperator, TypeRun, TypeCompact DEF Next, Operator
  <1> QED
    BY <1>1, <1>2

\* The variables keep their types; in particular no channel of a run ever
\* holds more than its capacity, however its sends and the pumps interleave.
THEOREM TypeCorrect == Spec => []TypeOK
  <1>1. Init => TypeOK
    <2> SUFFICES ASSUME Init
                 PROVE  TypeOK
      OBVIOUS
    <2>1. <<>> \in Seq(Inputs) /\ <<>> \in Seq({"event", "done"}) /\ Len(<<>>) = 0
      OBVIOUS
    <2>2. ModelTypeOK
      <3>1. asked \in 0..MaxInputs /\ commands \in 0..MaxCommands
        BY TuiAssumption DEF Init
      <3> QED
        BY <2>1, <3>1 DEF Init, ModelTypeOK
    <2>3. ConvoTypeOK
      BY TuiAssumption DEF Init, ConvoTypeOK, Sessions
    <2>4. RunTypeOK
      BY <2>1, TuiAssumption DEF Init, RunTypeOK, RunPhases
    <2>5. CompactTypeOK
      BY DEF Init, CompactTypeOK, CompactPhases
    <2> QED
      BY <2>2, <2>3, <2>4, <2>5 DEF TypeOK
  <1> QED
    BY <1>1, TypeStep, PTL DEF Spec

-----------------------------------------------------------------------------
(***************************************************************************)
(* The version check of compaction.  A compaction at work that still finds *)
(* its version finds the history it took: no step changes the history      *)
(* without a new version, and versions only grow.                          *)
(***************************************************************************)

\* What its version says of one compaction.
FreshAt(c) ==
  phase[c] = "summarising" =>
    /\ startVer[c] <= version
    /\ startVer[c] = version => history = taken[c]

FreshInv == \A c \in Compactions : FreshAt(c)

\* A step that leaves the conversation alone, and a compaction at work too.
LEMMA FreshKept ==
  ASSUME NEW c \in Compactions, FreshAt(c), UNCHANGED <<version, history>>,
         phase'[c] = "summarising" =>
           phase[c] = "summarising" /\ taken'[c] = taken[c] /\ startVer'[c] = startVer[c]
  PROVE  FreshAt(c)'
  BY DEF FreshAt

\* A step that bumps the version makes every compaction at work stale.
LEMMA FreshBumped ==
  ASSUME TypeOK, NEW c \in Compactions, FreshAt(c), version' = version + 1,
         phase'[c] = "summarising" =>
           phase[c] = "summarising" /\ startVer'[c] = startVer[c]
  PROVE  FreshAt(c)'
  <1>1. version \in Nat /\ startVer[c] \in Nat
    BY DEF TypeOK, ConvoTypeOK, CompactTypeOK
  <1>2. phase'[c] = "summarising" => startVer'[c] < version'
    BY <1>1 DEF FreshAt
  <1> QED
    BY <1>1, <1>2 DEF FreshAt

\* The operator, the loop and the runs.
LEMMA FreshTurns ==
  ASSUME TypeOK, NEW c \in Compactions, FreshAt(c),
         \/ Operator \/ PlaybackEnds
         \/ \E r \in Inputs : HandleEvent(r) \/ HandleDone(r) \/ RunStep(r)
  PROVE  FreshAt(c)'
  <1>1. UNCHANGED <<taken, startVer>>
    BY DEF Operator, Submit, Interrupt, Clear, WriteStream, New, Resume, Compact,
           PlaybackEnds, HandleEvent, HandleDone, RunStep, Snapshot, EmitEvent,
           Store, Save, Announce, Close, compactVars
  <1>2. phase'[c] = "summarising" => phase[c] = "summarising"
    <2>1. \/ UNCHANGED phase
          \/ \E k \in Compactions : phase' = [phase EXCEPT ![k] = "called"]
      BY DEF Operator, Submit, Interrupt, Clear, WriteStream, New, Resume, Compact,
             PlaybackEnds, HandleEvent, HandleDone, MayAutoCompact, RunStep,
             Snapshot, EmitEvent, Store, Save, Announce, Close, compactVars
    <2> QED
      BY <2>1 DEF TypeOK, CompactTypeOK
  <1>3. version' = version + 1 \/ UNCHANGED <<version, history>>
    BY DEF Operator, Submit, Interrupt, Clear, WriteStream, New, Resume, Compact,
           Bumped, PlaybackEnds, HandleEvent, HandleDone, RunStep, Snapshot,
           EmitEvent, Store, Save, Announce, Close, convoVars
  <1> QED
    BY <1>1, <1>2, <1>3, FreshKept, FreshBumped

\* The compactions, of which one installs its summary over what it took.
LEMMA FreshCompact ==
  ASSUME TypeOK, FreshInv, NEW k \in Compactions, CompactStep(k),
         NEW c \in Compactions
  PROVE  FreshAt(c)'
  <1> USE DEF TypeOK, CompactTypeOK
  <1>1. FreshAt(c)
    BY DEF FreshInv
  <1>2. CASE Take(k)
    <2>1. CASE c = k
      <3>1. startVer'[c] = version /\ taken'[c] = history
        BY <1>2, <2>1 DEF Take
      <3>2. version' = version /\ history' = history /\ version \in Nat
        BY <1>2 DEF Take, convoVars, ConvoTypeOK
      <3> QED
        BY <3>1, <3>2 DEF FreshAt
    <2>2. CASE c # k
      BY <1>1, <1>2, <2>2, FreshKept DEF Take, convoVars
    <2> QED
      BY <2>1, <2>2
  <1>3. CASE Install(k)
    <2>1. phase'[c] = "summarising" => phase[c] = "summarising"
      BY <1>3 DEF Install
    <2>2. UNCHANGED <<taken, startVer>>
      BY <1>3 DEF Install
    <2>3. version' = version + 1 \/ UNCHANGED <<version, history>>
      BY <1>3 DEF Install
    <2> QED
      BY <1>1, <2>1, <2>2, <2>3, FreshKept, FreshBumped
  <1>4. CASE SummaryFails(k) \/ SaveSummary(k) \/ Report(k)
    <2>1. UNCHANGED <<version, history>>
      BY <1>4 DEF SummaryFails, SaveSummary, Report, convoVars
    <2>2. phase'[c] = "summarising" => c # k /\ phase[c] = "summarising"
      BY <1>4 DEF SummaryFails, SaveSummary, Report
    <2>3. c # k => taken'[c] = taken[c] /\ startVer'[c] = startVer[c]
      BY <1>4 DEF SummaryFails, SaveSummary, Report
    <2> QED
      BY <1>1, <2>1, <2>2, <2>3, FreshKept
  <1> QED
    BY <1>2, <1>3, <1>4 DEF CompactStep

LEMMA FreshStep == TypeOK /\ FreshInv /\ [Next]_vars => FreshInv'
  <1> SUFFICES ASSUME TypeOK, FreshInv, [Next]_vars, NEW c \in Compactions
               PROVE  FreshAt(c)'
    BY DEF FreshInv
  <1>1. FreshAt(c)
    BY DEF FreshInv
  <1>2. CASE UNCHANGED vars
    BY <1>1, <1>2, FreshKept DEF vars, convoVars, compactVars
  <1>3. CASE Next
    BY <1>1, <1>3, FreshTurns, FreshCompact DEF Next
  <1> QED
    BY <1>2, <1>3

\* A compaction replaces exactly the history it summarised, whatever turns,
\* /new, /resume and other compactions came while the summary was made.
THEOREM CompactionReplacesWhatItTook == Spec => CompactionIsFresh
  <1>1. Init => FreshInv
    BY DEF Init, FreshInv, FreshAt
  <1>2. TypeOK /\ FreshInv /\ [Next]_vars => FreshInv'
    BY FreshStep
  <1>3. TypeOK /\ FreshInv /\ [Next]_vars =>
          [\A c \in Compactions :
             phase[c] = "summarising" /\ phase'[c] = "saving" =>
               history = taken[c]]_phase
    <2> SUFFICES ASSUME TypeOK, FreshInv, [Next]_vars, NEW c \in Compactions,
                        phase[c] = "summarising", phase'[c] = "saving"
                 PROVE  history = taken[c]
      OBVIOUS
    <2>1. Install(c) /\ SameVersion(c)
      <3>1. \/ UNCHANGED phase
            \/ \E k \in Compactions : phase' = [phase EXCEPT ![k] = "called"]
            \/ \E k \in Compactions : CompactStep(k)
        BY DEF Next, Operator, Submit, Interrupt, Clear, WriteStream, New, Resume,
               Compact, PlaybackEnds, HandleEvent, HandleDone, MayAutoCompact,
               RunStep, Snapshot, EmitEvent, Store, Save, Announce, Close,
               compactVars, vars
      <3>2. PICK k \in Compactions : CompactStep(k)
        BY <3>1 DEF TypeOK, CompactTypeOK
      <3>3. k = c
        BY <3>2 DEF CompactStep, Take, SummaryFails, Install, SaveSummary, Report,
                    TypeOK, CompactTypeOK
      <3> QED
        BY <3>2, <3>3 DEF CompactStep, Take, SummaryFails, Install, SaveSummary,
                          Report, TypeOK, CompactTypeOK
    <2> QED
      BY <2>1 DEF FreshInv, FreshAt, SameVersion
  <1>4. Spec => []TypeOK
    BY TypeCorrect
  <1> QED
    BY <1>1, <1>2, <1>3, <1>4, PTL DEF Spec, CompactionIsFresh

-----------------------------------------------------------------------------
(***************************************************************************)
(* The order of inputs.  SubmittedOrder follows from where the inputs are: *)
(* those that were run lie before those in the queue, the queue is in      *)
(* order, and nothing is beyond the last one asked.                        *)
(***************************************************************************)

Started(i) == pc[i] # "none"

OrderInv ==
  /\ \A i \in Inputs : Started(i) => i <= asked
  /\ \A i \in Inputs : Started(i) => \A k \in DOMAIN queued : i < queued[k]
  /\ \A k \in DOMAIN queued : queued[k] <= asked
  /\ \A k, l \in DOMAIN queued : k < l => queued[k] < queued[l]

\* Most steps start no input.
StartsNone == \A i \in Inputs : Started(i)' <=> Started(i)

\* The queue is left, emptied, or loses its head to a run.
LEMMA DispatchOrder ==
  ASSUME TypeOK, OrderInv, UNCHANGED asked,
         NEW run, NEW ch, NEW p, DispatchQueued(run, ch, p)
  PROVE  /\ OrderInv'
         /\ \A i \in Inputs : ~Started(i) /\ Started(i)' =>
              \A j \in Inputs : j > i => ~Started(j)
  <1>1. CASE queued = <<>>
    <2>1. UNCHANGED <<queued, pc>>
      BY <1>1 DEF DispatchQueued
    <2> QED
      BY <2>1 DEF OrderInv, Started
  <1>2. CASE queued # <<>>
    <2> DEFINE n == Head(queued)
    <2>1. /\ queued' = Tail(queued) /\ pc' = [pc EXCEPT ![n] = "starting"]
      BY <1>2 DEF DispatchQueued, RunAgent
    <2>2. queued \in Seq(Inputs) /\ 1 \in DOMAIN queued /\ n = queued[1] /\ n \in Inputs
      BY <1>2 DEF TypeOK, ModelTypeOK
    <2>3. /\ DOMAIN queued' = 1..(Len(queued) - 1)
          /\ \A k \in DOMAIN queued' : k + 1 \in DOMAIN queued /\ queued'[k] = queued[k + 1]
      BY <2>1, <2>2
    <2>4. \A i \in Inputs : Started(i)' <=> Started(i) \/ i = n
      BY <2>1, <2>2 DEF Started, TypeOK, RunTypeOK
    <2>5. \A k \in DOMAIN queued' : n < queued'[k]
      <3> SUFFICES ASSUME NEW k \in DOMAIN queued'
                   PROVE  n < queued'[k]
        OBVIOUS
      <3>1. 1 < k + 1
        BY <2>3
      <3> QED
        BY <2>2, <2>3, <3>1 DEF OrderInv
    <2>6. \A k, l \in DOMAIN queued' : k < l => queued'[k] < queued'[l]
      <3> SUFFICES ASSUME NEW k \in DOMAIN queued', NEW l \in DOMAIN queued', k < l
                   PROVE  queued'[k] < queued'[l]
        OBVIOUS
      <3>1. k + 1 < l + 1
        BY <2>3
      <3> QED
        BY <2>3, <3>1 DEF OrderInv
    <2>7. OrderInv'
      <3>1. \A i \in Inputs : Started(i)' => i <= asked'
        BY <2>2, <2>4 DEF OrderInv
      <3>2. \A i \in Inputs : Started(i)' => \A k \in DOMAIN queued' : i < queued'[k]
        BY <2>3, <2>4, <2>5 DEF OrderInv
      <3>3. \A k \in DOMAIN queued' : queued'[k] <= asked'
        BY <2>3 DEF OrderInv
      <3> QED
        BY <2>6, <3>1, <3>2, <3>3 DEF OrderInv
    <2>8. \A j \in Inputs : j > n => ~Started(j)
      BY <2>2 DEF OrderInv, Inputs
    <2> QED
      BY <2>4, <2>7, <2>8
  <1> QED
    BY <1>1, <1>2

\* Every step keeps the order, and starts no input in front of one that was
\* started.
LEMMA OrderStep ==
  ASSUME TypeOK, OrderInv, [Next]_vars
  PROVE  /\ OrderInv'
         /\ \A i \in Inputs : ~Started(i) /\ Started(i)' =>
              \A j \in Inputs : j > i => ~Started(j)
  <1>1. ASSUME StartsNone, UNCHANGED asked, queued' = queued \/ queued' = <<>>
        PROVE  OrderInv'
    BY <1>1 DEF OrderInv, StartsNone
  <1>2. CASE Submit
    <2>1. asked' = asked + 1 /\ asked \in Nat /\ asked' \in Inputs
      BY <1>2, TuiAssumption DEF Submit, TypeOK, ModelTypeOK, Inputs
    <2>2. CASE Busy
      <3>1. queued' = Append(queued, asked') /\ UNCHANGED pc
        BY <1>2, <2>2 DEF Submit
      <3>2. /\ queued \in Seq(Inputs)
            /\ DOMAIN queued' = 1..(Len(queued) + 1)
            /\ \A k \in DOMAIN queued : queued'[k] = queued[k]
            /\ queued'[Len(queued) + 1] = asked'
            /\ Len(queued) \in Nat /\ DOMAIN queued = 1..Len(queued)
        BY <2>1, <3>1 DEF TypeOK, ModelTypeOK
      <3>3. \A k \in DOMAIN queued' : k \in DOMAIN queued \/ k = Len(queued) + 1
        BY <3>2
      <3>4. \A k \in DOMAIN queued : queued[k] \in Nat
        <4>1. \A k \in DOMAIN queued : queued[k] \in Inputs
          BY <3>2
        <4> QED
          BY <4>1 DEF Inputs
      <3>5. \A i \in Inputs : Started(i)' => i <= asked'
        BY <2>1, <3>1 DEF OrderInv, Started, Inputs
      <3>6. \A i \in Inputs : Started(i)' => \A k \in DOMAIN queued' : i < queued'[k]
        BY <2>1, <3>1, <3>2, <3>3 DEF OrderInv, Started, Inputs
      <3>7. \A k \in DOMAIN queued' : queued'[k] <= asked'
        BY <2>1, <3>2, <3>3, <3>4 DEF OrderInv
      <3>8. \A k, l \in DOMAIN queued' : k < l => queued'[k] < queued'[l]
        BY <2>1, <3>2, <3>3, <3>4 DEF OrderInv
      <3> QED
        BY <3>1, <3>5, <3>6, <3>7, <3>8 DEF OrderInv, Started
    <2>3. CASE ~Busy
      <3>1. queued = <<>> /\ queued' = <<>> /\ pc' = [pc EXCEPT ![asked'] = "starting"]
        BY <1>2, <2>3 DEF Submit, Busy, RunAgent
      <3>2. \A i \in Inputs : Started(i)' <=> Started(i) \/ i = asked'
        BY <2>1, <3>1 DEF Started, TypeOK, RunTypeOK
      <3>3. \A i \in Inputs : Started(i) => i < asked'
        BY <2>1 DEF OrderInv, Inputs
      <3>4. OrderInv'
        BY <2>1, <3>1, <3>2, <3>3 DEF OrderInv, Inputs
      <3>5. \A j \in Inputs : j > asked' => ~Started(j)
        BY <2>1, <3>3 DEF Inputs
      <3> QED
        BY <3>2, <3>4, <3>5
    <2> QED
      BY <2>2, <2>3
  <1>3. CASE PlaybackEnds
    BY <1>3, DispatchOrder DEF PlaybackEnds, counters
  <1>4. ASSUME NEW r \in Inputs, HandleDone(r)
        PROVE  /\ OrderInv'
               /\ \A i \in Inputs : ~Started(i) /\ Started(i)' =>
                    \A j \in Inputs : j > i => ~Started(j)
    <2>1. UNCHANGED asked
      BY <1>4 DEF HandleDone, counters
    <2>2. CASE UNCHANGED <<queued, pc>>
      BY <1>1, <2>1, <2>2 DEF StartsNone, Started
    <2>3. ASSUME NEW p, DispatchQueued(FALSE, None, p)
          PROVE  /\ OrderInv'
                 /\ \A i \in Inputs : ~Started(i) /\ Started(i)' =>
                      \A j \in Inputs : j > i => ~Started(j)
      BY <2>1, <2>3, DispatchOrder
    <2> QED
      BY <1>4, <2>2, <2>3 DEF HandleDone
  <1>5. ASSUME NEW r \in Inputs, RunStep(r)
        PROVE  StartsNone /\ UNCHANGED <<asked, queued>>
    BY <1>5 DEF RunStep, Snapshot, EmitEvent, Store, Save, Announce, Close,
                StartsNone, Started, modelVars, counters, TypeOK, RunTypeOK
  <1>6. CASE Interrupt \/ Clear \/ WriteStream \/ New \/ Resume \/ Compact
    <2>1. UNCHANGED <<asked, pc>> /\ (queued' = queued \/ queued' = <<>>)
      BY <1>6 DEF Interrupt, Clear, WriteStream, New, Resume, Compact, runVars, counters
    <2> QED
      BY <1>1, <2>1 DEF StartsNone, Started
  <1>7. CASE \/ \E r \in Inputs : HandleEvent(r)
             \/ \E c \in Compactions : CompactStep(c)
             \/ UNCHANGED vars
    <2>1. UNCHANGED <<asked, pc, queued>>
      BY <1>7 DEF HandleEvent, CompactStep, Take, SummaryFails, Install, SaveSummary,
                  Report, modelVars, runVars, counters, vars
    <2> QED
      BY <1>1, <2>1 DEF StartsNone, Started
  <1>8. ASSUME NEW r \in Inputs, RunStep(r)
        PROVE  /\ OrderInv'
               /\ \A i \in Inputs : ~Started(i) /\ Started(i)' =>
                    \A j \in Inputs : j > i => ~Started(j)
    BY <1>1, <1>5, <1>8 DEF StartsNone
  <1> QED
    BY <1>2, <1>3, <1>4, <1>6, <1>7, <1>8 DEF Next, Operator

\* Inputs are run in the order they were submitted, whether they went
\* through the queue or not, and whoever interrupted what.
THEOREM InputsRunInOrder == Spec => SubmittedOrder
  <1>1. Init => OrderInv
    BY DEF Init, OrderInv, Started
  <1>2. TypeOK /\ OrderInv /\ [Next]_vars => OrderInv'
    BY OrderStep
  <1>3. TypeOK /\ OrderInv /\ [Next]_vars =>
          [\A i \in Inputs : pc[i] = "none" /\ pc'[i] # "none" =>
             \A j \in Inputs : j > i => pc[j] = "none"]_pc
    BY OrderStep DEF Started
  <1>4. Spec => []TypeOK
    BY TypeCorrect
  <1> QED
    BY <1>1, <1>2, <1>3, <1>4, PTL DEF Spec, SubmittedOrder

-----------------------------------------------------------------------------
(***************************************************************************)
(* One turn at a time.  In the inline screen, and with an operator who     *)
(* lets a cancelled run end, the loop reads exactly the channel of the one *)
(* run that may still change the conversation.                             *)
(***************************************************************************)

Active == {"starting", "running", "storing", "announcing"}

AloneInv ==
  /\ \A r \in Inputs : pc[r] \in Active => agentCh = r
  /\ \A r \in Inputs : pumps[r] = IF agentCh = r THEN 1 ELSE 0
  /\ agentCh # None => (running /\ cancel = agentCh) \/ done[agentCh]
  /\ playback => agentCh = None
  /\ \A r \in Inputs : pc[r] \notin {"closing", "ended"} =>
       \A k \in DOMAIN chan[r] : chan[r][k] = "event"

NobodyActive == \A r \in Inputs : pc[r] \notin Active

\* A run that starts when nobody else is active is alone.
LEMMA StartsAlone ==
  ASSUME TypeOK, AloneInv, NobodyActive, NEW i \in Inputs, pc[i] = "none",
         NEW p, p = [r \in Inputs |-> 0], RunAgent(i, p),
         playback' = FALSE,
         \A r \in Inputs : chan'[r] = chan[r] \/ pc[r] = "closing" \/ pc[r] = "ended"
  PROVE  AloneInv'
  <1>1. /\ running' = TRUE /\ agentCh' = i /\ cancel' = i
        /\ pc' = [pc EXCEPT ![i] = "starting"]
        /\ pumps' = [p EXCEPT ![i] = @ + 1]
    BY DEF RunAgent
  <1>2. \A r \in Inputs : pc'[r] = IF r = i THEN "starting" ELSE pc[r]
    BY <1>1 DEF TypeOK, RunTypeOK
  <1>3. \A r \in Inputs : pumps'[r] = IF r = i THEN 1 ELSE 0
    BY <1>1
  <1>4. \A r \in Inputs : pc'[r] \notin {"closing", "ended"} =>
          \A k \in DOMAIN chan'[r] : chan'[r][k] = "event"
    BY <1>2 DEF AloneInv
  <1> QED
    BY <1>1, <1>2, <1>3, <1>4 DEF AloneInv, NobodyActive

\* The head of the queue was not started yet.
LEMMA HeadIsNew ==
  ASSUME TypeOK, OrderInv, queued # <<>>
  PROVE  Head(queued) \in Inputs /\ pc[Head(queued)] = "none"
  <1>1. queued \in Seq(Inputs) /\ 1 \in DOMAIN queued /\ Head(queued) = queued[1]
    BY DEF TypeOK, ModelTypeOK
  <1>2. Head(queued) \in Inputs
    BY <1>1
  <1>3. ~(Head(queued) < Head(queued))
    BY <1>2 DEF Inputs
  <1> QED
    BY <1>1, <1>2, <1>3 DEF OrderInv, Started

\* An operator who waits, and finds nothing running, finds nobody active.
LEMMA SettledIsQuiet ==
  ASSUME TypeOK, AloneInv, ~Overlap, Settled, ~running
  PROVE  agentCh = None /\ NobodyActive
  <1>1. agentCh = None
    <2> SUFFICES ASSUME agentCh # None PROVE FALSE
      OBVIOUS
    <2>1. agentCh \in Inputs /\ done[agentCh] /\ pumps[agentCh] = 1
      BY DEF AloneInv, TypeOK, ModelTypeOK
    <2> QED
      BY <2>1 DEF Settled
  <1> QED
    BY <1>1 DEF AloneInv, NobodyActive, None, Inputs

\* A run whose Done the loop handles is the one it reads, and not active.
LEMMA DoneIsQuiet ==
  ASSUME TypeOK, AloneInv, NEW r \in Inputs, HandleDone(r)
  PROVE  /\ NobodyActive /\ agentCh = r
         /\ [pumps EXCEPT ![r] = @ - 1] = [s \in Inputs |-> 0]
         /\ pc[r] \in {"closing", "ended"}
         /\ \A s \in Inputs \ {r} : chan'[s] = chan[s]
  <1>1. pumps[r] > 0 /\ pumps \in [Inputs -> Nat] /\ chan \in [Inputs -> Seq({"event", "done"})]
    BY DEF HandleDone, TypeOK, RunTypeOK
  <1>2. agentCh = r
    BY <1>1 DEF AloneInv
  <1>3. [pumps EXCEPT ![r] = @ - 1] = [s \in Inputs |-> 0]
    <2>1. pumps[r] = 1 /\ \A s \in Inputs : s # r => pumps[s] = 0
      BY <1>2 DEF AloneInv
    <2>2. pumps[r] - 1 = 0
      BY <2>1
    <2> QED
      BY <1>1, <2>1, <2>2
  <1>4. pc[r] \in {"closing", "ended"}
    <2>1. CASE chan[r] # <<>> /\ Head(chan[r]) = "done"
      <3>1. 1 \in DOMAIN chan[r] /\ chan[r][1] = "done"
        BY <1>1, <2>1
      <3> QED
        BY <3>1 DEF AloneInv
    <2>2. CASE pc[r] = "ended"
      BY <2>2
    <2> QED
      BY <2>1, <2>2 DEF HandleDone
  <1>5. \A s \in Inputs \ {r} : chan'[s] = chan[s]
    BY <1>1 DEF HandleDone
  <1> QED
    BY <1>2, <1>3, <1>4, <1>5 DEF AloneInv, NobodyActive, Active

\* The same of a reply that has typed out.
LEMMA PlaybackIsQuiet ==
  ASSUME TypeOK, AloneInv, PlaybackEnds
  PROVE  NobodyActive /\ agentCh = None /\ pumps = [s \in Inputs |-> 0]
  <1>1. agentCh = None
    BY DEF PlaybackEnds, AloneInv
  <1> QED
    BY <1>1 DEF AloneInv, NobodyActive, TypeOK, RunTypeOK, None, Inputs

\* The end of a turn: nothing happens, or the next input is run.
LEMMA DispatchAlone ==
  ASSUME TypeOK, OrderInv, AloneInv, NobodyActive, playback' = FALSE,
         \A r \in Inputs : chan'[r] = chan[r] \/ pc[r] = "closing" \/ pc[r] = "ended",
         NEW run \in BOOLEAN, NEW p, p = [r \in Inputs |-> 0],
         DispatchQueued(run, None, p)
  PROVE  AloneInv'
  <1>1. CASE queued = <<>>
    <2>1. /\ agentCh' = None /\ pumps' = p /\ UNCHANGED <<cancel, done, pc>>
      BY <1>1 DEF DispatchQueued
    <2> QED
      BY <2>1 DEF AloneInv, NobodyActive, None, Inputs
  <1>2. CASE queued # <<>>
    BY <1>2, HeadIsNew, StartsAlone DEF DispatchQueued
  <1> QED
    BY <1>1, <1>2

\* The goroutine of a run says Done only when it is through with the
\* conversation.
LEMMA RunAlone ==
  ASSUME TypeOK, AloneInv, NEW r \in Inputs, RunStep(r)
  PROVE  AloneInv'
  <1>1. UNCHANGED <<running, agentCh, cancel, playback, done, pumps>>
    BY DEF RunStep, Snapshot, EmitEvent, Store, Save, Announce, Close, modelVars
  <1>2. pc[r] \in Active \cup {"closing"}
    BY DEF RunStep, Snapshot, EmitEvent, Store, Save, Announce, Close, Active
  <1>3. /\ \A s \in Inputs \ {r} : pc'[s] = pc[s]
        /\ pc'[r] \in Active => pc[r] \in Active
        /\ pc'[r] # "none"
    BY DEF RunStep, Snapshot, EmitEvent, Store, Save, Announce, Close, Active, TypeOK, RunTypeOK
  <1>4. \A s \in Inputs : pc'[s] \notin {"closing", "ended"} =>
          \A k \in DOMAIN chan'[s] : chan'[s][k] = "event"
    <2> SUFFICES ASSUME NEW s \in Inputs, pc'[s] \notin {"closing", "ended"},
                        NEW k \in DOMAIN chan'[s]
                 PROVE  chan'[s][k] = "event"
      OBVIOUS
    <2>1. pc[s] \notin {"closing", "ended"}
      <3>1. pc[r] = "closing" => Close(r)
        BY DEF RunStep, Snapshot, EmitEvent, Store, Save, Announce
      <3>2. Close(r) => pc'[r] = "ended"
        BY DEF Close, TypeOK, RunTypeOK
      <3>3. pc[r] # "ended"
        BY <1>2 DEF Active
      <3> QED
        BY <1>3, <3>1, <3>2, <3>3
    <2>2. CASE chan'[s] = chan[s]
      BY <2>1, <2>2 DEF AloneInv
    <2>3. CASE chan'[s] = Append(chan[s], "event")
      <3>1. chan[s] \in Seq({"event", "done"})
        BY DEF TypeOK, RunTypeOK
      <3>2. (k \in DOMAIN chan[s] /\ chan'[s][k] = chan[s][k]) \/ chan'[s][k] = "event"
        BY <2>3, <3>1
      <3> QED
        BY <2>1, <3>2 DEF AloneInv
    <2>4. chan'[s] = chan[s] \/ chan'[s] = Append(chan[s], "event")
      <3>1. CASE Snapshot(r) \/ Store(r) \/ Save(r)
        BY <3>1 DEF Snapshot, Store, Save
      <3>2. CASE EmitEvent(r)
        BY <3>2 DEF EmitEvent, Emit, TypeOK, RunTypeOK
      <3>3. CASE Announce(r) \/ Close(r)
        <4>1. s # r
          BY <3>3 DEF Announce, Close, TypeOK, RunTypeOK
        <4> QED
          BY <3>3, <4>1 DEF Announce, Close, Emit, TypeOK, RunTypeOK
      <3> QED
        BY <3>1, <3>2, <3>3 DEF RunStep
    <2> QED
      BY <2>2, <2>3, <2>4
  <1> QED
    BY <1>1, <1>3, <1>4 DEF AloneInv

LEMMA AloneStep ==
  ASSUME ~Overlap, ~Fullscreen, TypeOK, OrderInv, AloneInv, [Next]_vars
  PROVE  AloneInv'
  <1>1. CASE Submit
    <2>1. CASE Busy
      BY <1>1, <2>1 DEF Submit, AloneInv
    <2>2. CASE ~Busy
      <3>1. RunAgent(asked', pumps) /\ playback' = FALSE /\ UNCHANGED chan
        BY <1>1, <2>2 DEF Submit, Finalized
      <3>2. agentCh = None /\ NobodyActive
        BY <1>1, <2>2, SettledIsQuiet DEF Submit, Busy
      <3>3. asked' \in Inputs /\ pc[asked'] = "none"
        <4>1. asked' = asked + 1 /\ asked \in Nat /\ asked' \in Inputs
          BY <1>1, TuiAssumption DEF Submit, TypeOK, ModelTypeOK, Inputs
        <4> QED
          BY <4>1 DEF OrderInv, Started
      <3>4. pumps = [r \in Inputs |-> 0]
        BY <3>2 DEF AloneInv, TypeOK, RunTypeOK, None, Inputs
      <3> QED
        BY <3>1, <3>2, <3>3, <3>4, StartsAlone
    <2> QED
      BY <2>1, <2>2
  <1>2. CASE PlaybackEnds
    <2>1. DispatchQueued(running, None, pumps) /\ playback' = FALSE /\ UNCHANGED chan
      BY <1>2, PlaybackIsQuiet DEF PlaybackEnds
    <2>2. running \in BOOLEAN
      BY DEF TypeOK, ModelTypeOK
    <2> QED
      BY <1>2, <2>1, <2>2, PlaybackIsQuiet, DispatchAlone
  <1>3. ASSUME NEW r \in Inputs, HandleDone(r) PROVE AloneInv'
    <2> DEFINE p == [pumps EXCEPT ![r] = @ - 1]
    <2>1. /\ NobodyActive /\ p = [s \in Inputs |-> 0]
          /\ \A s \in Inputs : chan'[s] = chan[s] \/ pc[s] = "closing" \/ pc[s] = "ended"
      BY <1>3, DoneIsQuiet
    <2>2. CASE /\ playback' = TRUE /\ running' = FALSE /\ agentCh' = None /\ pumps' = p
               /\ UNCHANGED <<queued, cancel, done, pc>>
      <3>1. \A s \in Inputs : pc'[s] \notin {"closing", "ended"} =>
              \A k \in DOMAIN chan'[s] : chan'[s][k] = "event"
        BY <2>1, <2>2 DEF AloneInv
      <3>2. \A s \in Inputs : s # None
        BY TuiAssumption DEF None, Inputs
      <3>3. \A s \in Inputs : pumps'[s] = 0
        BY <2>1, <2>2
      <3>4. \A s \in Inputs : pc'[s] \notin Active
        BY <2>1, <2>2 DEF NobodyActive
      <3> QED
        BY <2>2, <3>1, <3>2, <3>3, <3>4 DEF AloneInv
    <2>3. CASE playback' = FALSE /\ DispatchQueued(FALSE, None, p)
      BY <2>1, <2>3, DispatchAlone
    <2> QED
      BY <1>3, <2>2, <2>3 DEF HandleDone
  <1>4. ASSUME NEW r \in Inputs, HandleEvent(r) PROVE AloneInv'
    <2>1. /\ chan' = [chan EXCEPT ![r] = Tail(@)] /\ chan[r] # <<>>
          /\ UNCHANGED <<running, agentCh, cancel, playback, done, pc>>
          /\ chan[r] \in Seq({"event", "done"})
      BY <1>4 DEF HandleEvent, modelVars, TypeOK, RunTypeOK
    <2>2. agentCh = r /\ pumps[r] = 1
      BY <1>4 DEF HandleEvent, AloneInv
    <2>3. pumps' = pumps
      <3>1. pumps \in [Inputs -> Nat] /\ r # None
        BY DEF TypeOK, RunTypeOK, None, Inputs
      <3>2. pumps' = [[pumps EXCEPT ![r] = @ - 1] EXCEPT ![r] = @ + 1]
        BY <1>4, <2>2, <3>1 DEF HandleEvent, Rearmed
      <3> QED
        BY <2>2, <3>1, <3>2
    <2>4. \A s \in Inputs : \A k \in DOMAIN chan'[s] :
            \E l \in DOMAIN chan[s] : chan'[s][k] = chan[s][l]
      <3> SUFFICES ASSUME NEW s \in Inputs, NEW k \in DOMAIN chan'[s]
                   PROVE  \E l \in DOMAIN chan[s] : chan'[s][k] = chan[s][l]
        OBVIOUS
      <3>1. CASE s = r
        <4>1. chan'[s] = Tail(chan[r])
          BY <2>1, <3>1 DEF TypeOK, RunTypeOK
        <4>2. /\ Len(Tail(chan[r])) = Len(chan[r]) - 1 /\ Len(chan[r]) \in Nat
              /\ DOMAIN Tail(chan[r]) = 1..(Len(chan[r]) - 1)
              /\ DOMAIN chan[r] = 1..Len(chan[r])
              /\ \A j \in 1..(Len(chan[r]) - 1) : Tail(chan[r])[j] = chan[r][j + 1]
          BY <2>1
        <4>3. k \in 1..(Len(chan[r]) - 1) /\ k + 1 \in 1..Len(chan[r])
          BY <4>1, <4>2
        <4> QED
          BY <3>1, <4>1, <4>2, <4>3
      <3>2. CASE s # r
        BY <2>1, <3>2 DEF TypeOK, RunTypeOK
      <3> QED
        BY <3>1, <3>2
    <2> QED
      BY <2>1, <2>3, <2>4 DEF AloneInv
  <1>5. CASE Interrupt
    <2>1. /\ UNCHANGED <<agentCh, pc, pumps, chan>> /\ playback' = FALSE
          /\ agentCh # None => done'[agentCh]
      BY <1>5 DEF Interrupt, AloneInv, TypeOK, ModelTypeOK, RunTypeOK
    <2> QED
      BY <2>1 DEF AloneInv
  <1>6. CASE \/ Clear \/ WriteStream \/ New \/ Resume \/ Compact
             \/ (\E c \in Compactions : CompactStep(c)) \/ UNCHANGED vars
    <2>1. UNCHANGED <<running, agentCh, cancel, runVars>> /\ (playback' = playback \/ playback' = FALSE)
      BY <1>6 DEF Clear, WriteStream, New, Resume, Compact, CompactStep, Take, SummaryFails,
                  Install, SaveSummary, Report, Finalized, modelVars, vars
    <2> QED
      BY <2>1 DEF AloneInv, runVars
  <1> QED
    BY <1>1, <1>2, <1>3, <1>4, <1>5, <1>6, RunAlone DEF Next, Operator

\* A follow-up is dispatched only when no run is in flight: in the inline
\* screen, and with an operator who lets a cancelled run end, no turn is cut
\* off by the next one (app.go:1342 to 1344).
THEOREM TurnsAreSpared == ~Overlap /\ ~Fullscreen => (Spec => DispatchSparesTurn)
  <1> SUFFICES ASSUME ~Overlap, ~Fullscreen PROVE Spec => DispatchSparesTurn
    OBVIOUS
  <1>1. Init => OrderInv /\ AloneInv
    <2> SUFFICES ASSUME Init PROVE OrderInv /\ AloneInv
      OBVIOUS
    <2>1. OrderInv
      BY DEF Init, OrderInv, Started
    <2>2. AloneInv
      BY DEF Init, AloneInv, Active, None, Inputs
    <2> QED
      BY <2>1, <2>2
  <1>2. TypeOK /\ OrderInv /\ AloneInv /\ [Next]_vars => OrderInv' /\ AloneInv'
    BY OrderStep, AloneStep
  <1>3. TypeOK /\ OrderInv /\ AloneInv /\ [Next]_vars =>
          [\A i \in Inputs : pc[i] = "none" /\ pc'[i] # "none" =>
             \A j \in Inputs : pc[j] \in {"none", "closing", "ended"} \/ done[j]]_pc
    <2> SUFFICES ASSUME TypeOK, OrderInv, AloneInv, Next \/ UNCHANGED vars,
                        NEW i \in Inputs, pc[i] = "none", pc'[i] # "none"
                 PROVE  NobodyActive
      BY DEF NobodyActive, Active, TypeOK, RunTypeOK, RunPhases
    <2>1. \/ Submit /\ ~Busy
          \/ PlaybackEnds
          \/ \E r \in Inputs : HandleDone(r)
      <3>1. ~(\/ Interrupt \/ Clear \/ WriteStream \/ New \/ Resume \/ Compact
              \/ (\E r \in Inputs : HandleEvent(r))
              \/ (\E c \in Compactions : CompactStep(c)) \/ UNCHANGED vars
              \/ (Submit /\ Busy))
        BY DEF Interrupt, Clear, WriteStream, New, Resume, Compact, HandleEvent,
               CompactStep, Take, SummaryFails, Install, SaveSummary, Report, Submit,
               runVars, vars
      <3>2. ~(\E r \in Inputs : RunStep(r))
        BY DEF RunStep, Snapshot, EmitEvent, Store, Save, Announce, Close, TypeOK, RunTypeOK
      <3> QED
        BY <3>1, <3>2 DEF Next, Operator
    <2>2. CASE Submit /\ ~Busy
      BY <2>2, SettledIsQuiet DEF Submit, Busy
    <2> QED
      BY <2>1, <2>2, PlaybackIsQuiet, DoneIsQuiet
  <1>4. Spec => []TypeOK
    BY TypeCorrect
  <1> QED
    BY <1>1, <1>2, <1>3, <1>4, PTL DEF Spec, DispatchSparesTurn

-----------------------------------------------------------------------------
(***************************************************************************)
(* What a conversation holds.  The one run that is on is answering the     *)
(* history as it is, in its own session, so that what it stores adds to    *)
(* that history and belongs to that session.                               *)
(***************************************************************************)

Begun(t) == pc[t] \notin {"none", "starting"}

AllBegun ==
  /\ \A t \in history : Begun(t)
  /\ \A s \in Sessions : \A t \in disk[s] : Begun(t)
  /\ \A r \in Inputs : \A t \in base[r] : Begun(t)
  /\ \A c \in Compactions : \A t \in taken[c] : Begun(t)

HoldsOwn(turns, s) == \A t \in turns : sessOf[t] = s

ConvoInv ==
  /\ \A r \in Inputs : pc[r] = "running" => base[r] = history /\ sessOf[r] = sess
  /\ \A r \in Inputs : pc[r] = "storing" => HoldsOwn(base[r], sessOf[r])
  /\ \A c \in Compactions : phase[c] = "saving" => HoldsOwn(taken[c], target[c])
  /\ HoldsOwn(history, sess)
  /\ \A s \in Sessions : HoldsOwn(disk[s], s)

\* A turn that began stays begun, and keeps its session.
LEMMA BegunStays ==
  ASSUME TypeOK, OrderInv, [Next]_vars, NEW t \in Inputs, Begun(t)
  PROVE  Begun(t)' /\ sessOf'[t] = sessOf[t]
  <1> USE DEF TypeOK, RunTypeOK
  <1>1. ASSUME NEW i \in Inputs, NEW p, RunAgent(i, p), pc[i] = "none"
        PROVE  Begun(t)'
    BY <1>1 DEF RunAgent, Begun
  <1>2. ASSUME NEW run, NEW ch, NEW p, DispatchQueued(run, ch, p)
        PROVE  Begun(t)'
    <2>1. CASE queued = <<>>
      BY <1>2, <2>1 DEF DispatchQueued, Begun
    <2>2. CASE queued # <<>>
      BY <1>1, <1>2, <2>2, HeadIsNew DEF DispatchQueued
    <2> QED
      BY <2>1, <2>2
  <1>3. CASE Submit
    <2>1. asked' = asked + 1 /\ asked \in Nat /\ asked' \in Inputs
      BY <1>3, TuiAssumption DEF Submit, ModelTypeOK, Inputs
    <2>2. pc[asked'] = "none"
      BY <2>1 DEF OrderInv, Started
    <2>3. Begun(t)'
      BY <1>1, <1>3, <2>1, <2>2 DEF Submit, Begun
    <2> QED
      BY <1>3, <2>3 DEF Submit
  <1>4. CASE PlaybackEnds
    BY <1>2, <1>4 DEF PlaybackEnds
  <1>5. ASSUME NEW r \in Inputs, HandleDone(r) PROVE Begun(t)' /\ sessOf'[t] = sessOf[t]
    BY <1>2, <1>5 DEF HandleDone, Begun
  <1>6. ASSUME NEW r \in Inputs, RunStep(r) PROVE Begun(t)' /\ sessOf'[t] = sessOf[t]
    BY <1>6 DEF RunStep, Snapshot, EmitEvent, Store, Save, Announce, Close, Begun
  <1>7. CASE \/ Interrupt \/ Clear \/ WriteStream \/ New \/ Resume \/ Compact
             \/ (\E r \in Inputs : HandleEvent(r))
             \/ (\E c \in Compactions : CompactStep(c)) \/ UNCHANGED vars
    <2>1. UNCHANGED <<pc, sessOf>>
      BY <1>7 DEF Interrupt, Clear, WriteStream, New, Resume, Compact, HandleEvent,
                  CompactStep, Take, SummaryFails, Install, SaveSummary, Report,
                  runVars, vars
    <2> QED
      BY <2>1 DEF Begun
  <1> QED
    BY <1>3, <1>4, <1>5, <1>6, <1>7 DEF Next, Operator

LEMMA BegunStep ==
  ASSUME TypeOK, OrderInv, AllBegun, [Next]_vars
  PROVE  AllBegun'
  <1> DEFINE Old == {t \in Inputs : Begun(t)}
  <1>1. \A t \in Old : Begun(t)'
    BY BegunStays
  <1>2. /\ history \subseteq Old
        /\ \A s \in Sessions : disk[s] \subseteq Old
        /\ \A r \in Inputs : base[r] \subseteq Old
        /\ \A c \in Compactions : taken[c] \subseteq Old
    BY DEF AllBegun, TypeOK, ConvoTypeOK, RunTypeOK, CompactTypeOK
  <1>3. ASSUME /\ history' \subseteq Old
               /\ \A s \in Sessions : disk'[s] \subseteq Old
               /\ \A r \in Inputs : base'[r] \subseteq Old
               /\ \A c \in Compactions : taken'[c] \subseteq Old
        PROVE  AllBegun'
    <2>1. \A t \in Old : pc'[t] \notin {"none", "starting"}
      BY <1>1 DEF Begun
    <2> HIDE DEF Old
    <2> QED
      BY <1>3, <2>1 DEF AllBegun, Begun
  <1>4. CASE \/ Submit \/ PlaybackEnds \/ Interrupt \/ Clear \/ WriteStream \/ Compact
             \/ (\E r \in Inputs : HandleEvent(r) \/ HandleDone(r) \/ EmitEvent(r)
                                    \/ Announce(r) \/ Close(r))
             \/ (\E c \in Compactions : SummaryFails(c)) \/ UNCHANGED vars
    <2>1. UNCHANGED <<history, disk, base, taken>>
      BY <1>4 DEF Submit, PlaybackEnds, Interrupt, Clear, WriteStream, Compact, HandleEvent,
                  HandleDone, EmitEvent, Announce, Close, SummaryFails, convoVars,
                  runVars, compactVars, vars
    <2> QED
      BY <1>2, <1>3, <2>1
  <1>5. CASE New \/ Resume
    <2>1. /\ UNCHANGED <<disk, base, taken>>
          /\ history' = {} \/ \E s \in Sessions : history' = disk[s]
      <3>1. 1..sessions \subseteq Sessions
        BY TuiAssumption DEF TypeOK, ConvoTypeOK, Sessions
      <3> QED
        BY <1>5, <3>1 DEF New, Resume, runVars, compactVars
    <2> QED
      BY <1>2, <1>3, <2>1
  <1>6. ASSUME NEW r \in Inputs, Snapshot(r) \/ Store(r) \/ Save(r) PROVE AllBegun'
    <2>1. pc[r] \in {"running", "storing"} => r \in Old
      BY DEF Begun
    <2>2. /\ UNCHANGED taken
          /\ history' \in {history, base[r] \cup {r}}
          /\ history' # history => r \in Old
      BY <1>6, <2>1 DEF Snapshot, Store, Save, convoVars, compactVars
    <2>3. \A s \in Inputs : base'[s] \in {base[s], history, {}}
      BY <1>6 DEF Snapshot, Store, Save, TypeOK, RunTypeOK
    <2>4. \A s \in Sessions : disk'[s] = disk[s] \/ (r \in Old /\ disk'[s] = base[r] \cup {r})
      BY <1>6, <2>1 DEF Snapshot, Store, Save, TypeOK, ConvoTypeOK
    <2> HIDE DEF Old
    <2> QED
      BY <1>2, <1>3, <2>2, <2>3, <2>4
  <1>7. ASSUME NEW c \in Compactions, Take(c) \/ Install(c) \/ SaveSummary(c) \/ Report(c)
        PROVE  AllBegun'
    <2>1. /\ UNCHANGED base
          /\ history' \in {history, taken[c]}
          /\ \A s \in Sessions : disk'[s] \in {disk[s], taken[c]}
          /\ \A k \in Compactions : taken'[k] \in {taken[k], history, {}}
      BY <1>7 DEF Take, Install, SaveSummary, Report, convoVars, runVars, TypeOK,
                  ConvoTypeOK, CompactTypeOK
    <2> HIDE DEF Old
    <2> QED
      BY <1>2, <1>3, <2>1
  <1> QED
    BY <1>4, <1>5, <1>6, <1>7 DEF Next, Operator, RunStep, CompactStep

\* A step that neither changes the conversation nor moves a run or a
\* compaction into a phase that counts keeps the invariant.
LEMMA ConvoKept ==
  ASSUME TypeOK, OrderInv, AllBegun, ConvoInv, [Next]_vars,
         UNCHANGED <<history, sess, disk>>,
         \A r \in Inputs : pc'[r] \in {"running", "storing"} =>
           pc'[r] = pc[r] /\ base'[r] = base[r],
         \A c \in Compactions : phase'[c] = "saving" =>
           /\ phase[c] = "saving" /\ taken'[c] = taken[c] /\ target'[c] = target[c]
  PROVE  ConvoInv'
  <1>1. \A t \in Inputs : Begun(t) => sessOf'[t] = sessOf[t]
    BY BegunStays
  <1>2. /\ history \subseteq Inputs /\ \A s \in Sessions : disk[s] \subseteq Inputs
        /\ \A r \in Inputs : base[r] \subseteq Inputs
        /\ \A c \in Compactions : taken[c] \subseteq Inputs
    BY DEF TypeOK, ConvoTypeOK, RunTypeOK, CompactTypeOK
  <1>3. ASSUME NEW r \in Inputs, pc'[r] \in {"running", "storing"}
        PROVE  sessOf'[r] = sessOf[r]
    BY <1>1, <1>3 DEF Begun
  <1>4. ASSUME NEW r \in Inputs, pc'[r] = "running"
        PROVE  base'[r] = history' /\ sessOf'[r] = sess'
    BY <1>3, <1>4 DEF ConvoInv
  <1>5. ASSUME NEW r \in Inputs, pc'[r] = "storing", NEW t \in base'[r]
        PROVE  sessOf'[t] = sessOf'[r]
    BY <1>1, <1>2, <1>3, <1>5 DEF ConvoInv, HoldsOwn, AllBegun
  <1>6. ASSUME NEW c \in Compactions, phase'[c] = "saving", NEW t \in taken'[c]
        PROVE  sessOf'[t] = target'[c]
    BY <1>1, <1>2, <1>6 DEF ConvoInv, HoldsOwn, AllBegun
  <1>7. \A t \in history' : sessOf'[t] = sess'
    BY <1>1, <1>2 DEF ConvoInv, HoldsOwn, AllBegun
  <1>8. \A s \in Sessions : \A t \in disk'[s] : sessOf'[t] = s
    BY <1>1, <1>2 DEF ConvoInv, HoldsOwn, AllBegun
  <1> QED
    BY <1>4, <1>5, <1>6, <1>7, <1>8 DEF ConvoInv, HoldsOwn

\* While a run is active nobody else is, and the operator is not let in.
LEMMA ActiveExcludes ==
  ASSUME TypeOK, AloneInv, NEW r \in Inputs, pc[r] \in Active
  PROVE  /\ \A s \in Inputs : pc[s] \in Active => s = r
         /\ ~Overlap => ~(Settled /\ Idle)
  <1>1. \A s \in Inputs : pc[s] \in Active => s = r
    BY DEF AloneInv
  <1>2. ASSUME ~Overlap, Settled, Idle PROVE FALSE
    BY <1>2, SettledIsQuiet DEF Idle, NobodyActive
  <1> QED
    BY <1>1, <1>2

\* What a run and a compaction do to the conversation.
LEMMA ConvoSteps ==
  ASSUME TypeOK, OrderInv, AloneInv, FreshInv, AllBegun, ConvoInv,
         \/ \E r \in Inputs : Snapshot(r) \/ Store(r) \/ Save(r)
         \/ \E c \in Compactions : Install(c) \/ SaveSummary(c)
  PROVE  ConvoInv'
  <1>0. Next
    BY DEF Next, RunStep, CompactStep
  <1>1. \A t \in Inputs : Begun(t) => sessOf'[t] = sessOf[t]
    BY <1>0, BegunStays
  \* Whoever held turns of one session still does.
  <1>2. ASSUME NEW turns \in SUBSET Inputs, NEW s, HoldsOwn(turns, s),
               \A t \in turns : Begun(t)
        PROVE  \A t \in turns : sessOf'[t] = s
    BY <1>1, <1>2 DEF HoldsOwn
  <1>3. /\ \A t \in history : sessOf'[t] = sess
        /\ \A s \in Sessions : \A t \in disk[s] : sessOf'[t] = s
        /\ \A c \in Compactions : phase[c] = "saving" => \A t \in taken[c] : sessOf'[t] = target[c]
    BY <1>2 DEF ConvoInv, AllBegun, TypeOK, ConvoTypeOK, CompactTypeOK
  <1>4. ASSUME NEW r \in Inputs, Snapshot(r) PROVE ConvoInv'
    <2>1. /\ UNCHANGED <<history, sess, disk, phase, taken, target>>
          /\ pc' = [pc EXCEPT ![r] = "running"]
          /\ base' = [base EXCEPT ![r] = history] /\ sessOf' = [sessOf EXCEPT ![r] = sess]
          /\ pc[r] = "starting"
      BY <1>4 DEF Snapshot, convoVars, compactVars
    <2>2. \A s \in Inputs : s # r => pc[s] \notin {"running", "storing"}
      BY <2>1, ActiveExcludes DEF Active
    <2>3. \A s \in Inputs : /\ pc'[s] = "running" => base'[s] = history' /\ sessOf'[s] = sess'
                            /\ pc'[s] # "storing"
      BY <2>1, <2>2 DEF TypeOK, RunTypeOK
    <2> QED
      BY <1>3, <2>1, <2>3 DEF ConvoInv, HoldsOwn
  <1>5. ASSUME NEW r \in Inputs, Store(r) PROVE ConvoInv'
    <2>1. /\ pc[r] = "running" /\ base[r] = history /\ sessOf[r] = sess
          /\ UNCHANGED <<sess, disk, sessOf, phase, taken, target>>
      BY <1>5 DEF Store, ConvoInv, compactVars
    <2>2. \A s \in Inputs : s # r => pc[s] \notin {"running", "storing"}
      BY <2>1, ActiveExcludes DEF Active
    <2>3. CASE history' = base[r] \cup {r} /\ pc' = [pc EXCEPT ![r] = "storing"] /\ UNCHANGED base
      <3>1. \A s \in Inputs : pc'[s] # "running" /\ (pc'[s] = "storing" => s = r)
        BY <2>2, <2>3 DEF TypeOK, RunTypeOK
      <3>2. HoldsOwn(history, sess)
        BY DEF ConvoInv
      <3> QED
        BY <1>3, <2>1, <2>3, <3>1, <3>2 DEF ConvoInv, HoldsOwn
    <2>4. CASE pc' = [pc EXCEPT ![r] = "announcing"] /\ UNCHANGED history
      <3>1. \A s \in Inputs : pc'[s] \notin {"running", "storing"}
        BY <2>2, <2>4 DEF TypeOK, RunTypeOK
      <3> QED
        BY <1>3, <2>1, <2>4, <3>1 DEF ConvoInv, HoldsOwn
    <2> QED
      BY <1>5, <2>3, <2>4 DEF Store
  <1>6. ASSUME NEW r \in Inputs, Save(r) PROVE ConvoInv'
    <2>1. /\ pc[r] = "storing" /\ pc' = [pc EXCEPT ![r] = "announcing"]
          /\ UNCHANGED <<history, sess, sessOf, phase, taken, target>>
          /\ disk' = disk \/ disk' = [disk EXCEPT ![sessOf[r]] = base[r] \cup {r}]
      BY <1>6 DEF Save, convoVars, compactVars
    <2>2. \A s \in Inputs : s # r => pc[s] \notin {"running", "storing"}
      BY <2>1, ActiveExcludes DEF Active
    <2>3. \A s \in Inputs : pc'[s] \notin {"running", "storing"}
      BY <2>1, <2>2 DEF TypeOK, RunTypeOK
    <2>4. \A t \in base[r] \cup {r} : sessOf'[t] = sessOf[r]
      BY <2>1 DEF ConvoInv, HoldsOwn
    <2>5. \A s \in Sessions : \A t \in disk'[s] : sessOf'[t] = s
      BY <1>3, <2>1, <2>4 DEF TypeOK, ConvoTypeOK
    <2> QED
      BY <1>3, <2>1, <2>3, <2>5 DEF ConvoInv, HoldsOwn
  <1>7. ASSUME NEW c \in Compactions, Install(c) PROVE ConvoInv'
    <2>1. /\ UNCHANGED <<sess, disk, pc, base, sessOf, taken>>
          /\ phase[c] = "summarising" /\ sess \in Sessions
      BY <1>7 DEF Install, runVars, TypeOK, ConvoTypeOK
    <2>2. CASE SameVersion(c) /\ history' = taken[c] /\ target' = [target EXCEPT ![c] = sess]
               /\ phase' = [phase EXCEPT ![c] = "saving"]
      <3>1. history = taken[c]
        BY <2>1, <2>2 DEF FreshInv, FreshAt, SameVersion
      <3>2. \A k \in Compactions : phase'[k] = "saving" => \A t \in taken'[k] : sessOf'[t] = target'[k]
        BY <1>3, <2>1, <2>2, <3>1 DEF TypeOK, CompactTypeOK
      <3> QED
        BY <1>3, <2>1, <2>2, <3>1, <3>2 DEF ConvoInv, HoldsOwn
    <2>3. CASE phase' = [phase EXCEPT ![c] = "reporting"] /\ UNCHANGED <<history, target>>
      <3>1. \A k \in Compactions : phase'[k] = "saving" => phase[k] = "saving"
        BY <2>3 DEF TypeOK, CompactTypeOK
      <3> QED
        BY <1>3, <2>1, <2>3, <3>1 DEF ConvoInv, HoldsOwn
    <2> QED
      BY <1>7, <2>2, <2>3 DEF Install
  <1>8. ASSUME NEW c \in Compactions, SaveSummary(c) PROVE ConvoInv'
    <2>1. /\ UNCHANGED <<history, sess, pc, base, sessOf, taken, target>>
          /\ phase[c] = "saving" /\ phase' = [phase EXCEPT ![c] = "reporting"]
          /\ disk' = disk \/ disk' = [disk EXCEPT ![target[c]] = taken[c]]
      BY <1>8 DEF SaveSummary, convoVars, runVars
    <2>2. \A k \in Compactions : phase'[k] = "saving" => phase[k] = "saving"
      BY <2>1 DEF TypeOK, CompactTypeOK
    <2>3. \A s \in Sessions : \A t \in disk'[s] : sessOf'[t] = s
      BY <1>3, <2>1 DEF TypeOK, ConvoTypeOK
    <2> QED
      BY <1>3, <2>1, <2>2, <2>3 DEF ConvoInv, HoldsOwn
  <1> QED
    BY <1>4, <1>5, <1>6, <1>7, <1>8

\* /new and /resume come when no run is active.
LEMMA ConvoCommands ==
  ASSUME ~Overlap, TypeOK, AloneInv, ConvoInv, New \/ Resume
  PROVE  ConvoInv'
  <1>1. NobodyActive
    BY SettledIsQuiet DEF New, Resume, Idle
  <1>2. UNCHANGED <<disk, pc, base, sessOf, phase, taken, target>>
    BY DEF New, Resume, runVars, compactVars
  <1>3. \A r \in Inputs : pc'[r] \notin {"running", "storing"}
    BY <1>1, <1>2 DEF NobodyActive, Active
  <1>4. history' = {} \/ \E s \in Sessions : sess' = s /\ history' = disk[s]
    <2>1. 1..sessions \subseteq Sessions
      BY TuiAssumption DEF TypeOK, ConvoTypeOK, Sessions
    <2> QED
      BY <2>1 DEF New, Resume
  <1> QED
    BY <1>2, <1>3, <1>4 DEF ConvoInv, HoldsOwn

LEMMA ConvoStep ==
  ASSUME ~Overlap, TypeOK, OrderInv, AloneInv, FreshInv, AllBegun, ConvoInv, [Next]_vars
  PROVE  ConvoInv'
  <1>1. ASSUME NEW i, NEW p, RunAgent(i, p)
        PROVE  \A r \in Inputs : pc'[r] \in {"running", "storing"} => pc'[r] = pc[r]
    BY <1>1 DEF RunAgent, TypeOK, RunTypeOK
  <1>2. ASSUME NEW run, NEW ch, NEW p, DispatchQueued(run, ch, p)
        PROVE  \A r \in Inputs : pc'[r] \in {"running", "storing"} => pc'[r] = pc[r]
    BY <1>1, <1>2 DEF DispatchQueued
  <1>3. CASE Submit \/ PlaybackEnds \/ \E r \in Inputs : HandleDone(r)
    <2>1. /\ UNCHANGED <<history, sess, disk, base, taken, target>>
          /\ UNCHANGED phase \/ \E c \in Compactions : phase' = [phase EXCEPT ![c] = "called"]
      BY <1>3 DEF Submit, PlaybackEnds, HandleDone, MayAutoCompact, convoVars, compactVars
    <2>2. \A r \in Inputs : pc'[r] \in {"running", "storing"} => pc'[r] = pc[r]
      BY <1>1, <1>2, <1>3 DEF Submit, PlaybackEnds, HandleDone
    <2>3. \A c \in Compactions : phase'[c] = "saving" => phase[c] = "saving"
      BY <2>1 DEF TypeOK, CompactTypeOK
    <2> QED
      BY <2>1, <2>2, <2>3, ConvoKept
  <1>4. CASE \/ Interrupt \/ Clear \/ WriteStream \/ Compact
             \/ (\E r \in Inputs : HandleEvent(r) \/ EmitEvent(r) \/ Announce(r) \/ Close(r))
             \/ (\E c \in Compactions : Take(c) \/ SummaryFails(c) \/ Report(c))
             \/ UNCHANGED vars
    <2>1. UNCHANGED <<history, sess, disk, base>>
      BY <1>4 DEF Interrupt, Clear, WriteStream, Compact, HandleEvent, EmitEvent, Announce,
                  Close, Take, SummaryFails, Report, convoVars, runVars, vars
    <2>2. \A r \in Inputs : pc'[r] \in {"running", "storing"} => pc'[r] = pc[r]
      BY <1>4 DEF Interrupt, Clear, WriteStream, Compact, HandleEvent, EmitEvent, Announce,
                  Close, Take, SummaryFails, Report, runVars, vars, TypeOK, RunTypeOK
    <2>3. \A c \in Compactions : phase'[c] = "saving" =>
            phase[c] = "saving" /\ taken'[c] = taken[c] /\ target'[c] = target[c]
      BY <1>4 DEF Interrupt, Clear, WriteStream, Compact, HandleEvent, EmitEvent, Announce,
                  Close, Take, SummaryFails, Report, compactVars, vars, TypeOK, CompactTypeOK
    <2> QED
      BY <2>1, <2>2, <2>3, ConvoKept
  <1> QED
    BY <1>3, <1>4, ConvoSteps, ConvoCommands DEF Next, Operator, RunStep, CompactStep

\* What both theorems below rest on.
WholeInv ==
  /\ OrderInv /\ AloneInv /\ FreshInv /\ AllBegun /\ ConvoInv
  /\ sess <= sessions

LEMMA WholeInitially == Init => WholeInv
  <1> SUFFICES ASSUME Init PROVE WholeInv
    OBVIOUS
  <1>1. OrderInv /\ FreshInv
    BY DEF Init, OrderInv, Started, FreshInv, FreshAt
  <1>2. AloneInv
    BY DEF Init, AloneInv, Active, None, Inputs
  <1>3. AllBegun /\ ConvoInv /\ sess <= sessions
    BY DEF Init, AllBegun, ConvoInv, HoldsOwn
  <1> QED
    BY <1>1, <1>2, <1>3 DEF WholeInv

LEMMA SessionsGrow ==
  ASSUME TypeOK, sess <= sessions, [Next]_vars
  PROVE  sess' <= sessions'
  <1>1. CASE New
    BY <1>1, TuiAssumption DEF New, TypeOK, ConvoTypeOK, Sessions
  <1>2. CASE Resume
    BY <1>2, TuiAssumption DEF Resume, TypeOK, ConvoTypeOK, Sessions
  <1>3. UNCHANGED <<sess, sessions>> \/ New \/ Resume
    BY DEF Next, Operator, Submit, Interrupt, Clear, WriteStream, Compact, PlaybackEnds,
           HandleEvent, HandleDone, RunStep, Snapshot, EmitEvent, Store, Save, Announce, Close,
           CompactStep, Take, SummaryFails, Install, SaveSummary, Report, convoVars, counters, vars
  <1> QED
    BY <1>1, <1>2, <1>3

LEMMA WholeStep ==
  ASSUME ~Overlap, ~Fullscreen, TypeOK, WholeInv, [Next]_vars
  PROVE  WholeInv'
  BY OrderStep, AloneStep, FreshStep, BegunStep, ConvoStep, SessionsGrow DEF WholeInv

\* A session holds only turns that were begun in it, in memory and on disk,
\* whatever runs and compactions are under way and whichever saves fail: in
\* the inline screen, and with an operator who lets a cancelled run end
\* (run.go:224 to 227).
THEOREM SessionsKeepTheirTurns == ~Overlap /\ ~Fullscreen => (Spec => []SessionKeepsItsTurns)
  <1> SUFFICES ASSUME ~Overlap, ~Fullscreen PROVE Spec => []SessionKeepsItsTurns
    OBVIOUS
  <1>1. TypeOK /\ WholeInv /\ [Next]_vars => WholeInv'
    BY WholeStep
  <1>2. WholeInv => SessionKeepsItsTurns
    BY DEF WholeInv, ConvoInv, HoldsOwn, SessionKeepsItsTurns
  <1>3. Spec => []TypeOK
    BY TypeCorrect
  <1> QED
    BY <1>1, <1>2, <1>3, WholeInitially, PTL DEF Spec

\* No turn vanishes from the conversation but by /new and /resume: no run and
\* no compaction stores over a turn it does not know, in the same use.
THEOREM TurnsStay == ~Overlap /\ ~Fullscreen => (Spec => NoTurnVanishes)
  <1> SUFFICES ASSUME ~Overlap, ~Fullscreen PROVE Spec => NoTurnVanishes
    OBVIOUS
  <1>1. TypeOK /\ WholeInv /\ [Next]_vars => WholeInv'
    BY WholeStep
  <1>2. TypeOK /\ WholeInv /\ [Next]_vars =>
          [\/ history \subseteq history'
           \/ sess' # sess
           \/ history' = disk[sess]]_history
    <2> SUFFICES ASSUME TypeOK, WholeInv, [Next]_vars, history' # history
                 PROVE  history \subseteq history' \/ sess' # sess \/ history' = disk[sess]
      OBVIOUS
    <2>1. \/ New \/ Resume
          \/ \E r \in Inputs : Store(r)
          \/ \E c \in Compactions : Install(c)
      BY DEF Next, Operator, Submit, Interrupt, Clear, WriteStream, Compact, PlaybackEnds,
             HandleEvent, HandleDone, RunStep, Snapshot, EmitEvent, Save, Announce, Close,
             CompactStep, Take, SummaryFails, SaveSummary, Report, convoVars, vars
    <2>2. CASE New
      <3>1. sess \in Int /\ sessions \in Int /\ sess <= sessions /\ sess' = sessions + 1
        BY <2>2, TuiAssumption DEF New, WholeInv, TypeOK, ConvoTypeOK, Sessions
      <3> QED
        BY <3>1
    <2>3. CASE Resume
      BY <2>3 DEF Resume
    <2>4. ASSUME NEW r \in Inputs, Store(r) PROVE history \subseteq history'
      BY <2>4 DEF Store, WholeInv, ConvoInv
    <2>5. ASSUME NEW c \in Compactions, Install(c) PROVE history \subseteq history'
      BY <2>5 DEF Install, SameVersion, WholeInv, FreshInv, FreshAt
    <2> QED
      BY <2>1, <2>2, <2>3, <2>4, <2>5
  <1>3. Spec => []TypeOK
    BY TypeCorrect
  <1> QED
    BY <1>1, <1>2, <1>3, WholeInitially, PTL DEF Spec, NoTurnVanishes

-----------------------------------------------------------------------------
(***************************************************************************)
(* What the screen shows (Transcript).  Three pieces hold all that was     *)
(* asked and answered: what is shown, what is in the buffer of the         *)
(* typewriter, and the chips of the questions above the prompt.  Which of  *)
(* buffer and chips reaches the screen first depends on what comes next, a *)
(* question, an event of the run or a tick, so that the invariant asks of  *)
(* the pieces that either order is right; it says whose the buffer is, and *)
(* that whoever is queued is behind all that has been written.             *)
(***************************************************************************)

Buf == playbackBuf
Chips == Echoes(pendingUserEcho)

\* What the past allows: turns that waited, that were wiped, of which something
\* was dropped, or that were split.
Marks == [waited |-> waited, wiped |-> wiped, dropped |-> dropped, split |-> split]

\* e may stand before f.
Fine(e, f, marks) ==
  /\ IsReply(e) /\ IsReply(f) => e.of <= f.of
  /\ IsReply(e) /\ f.what = "echo" => e.of # f.of
  /\ e.what = "echo" /\ IsReply(f) => e.of <= f.of \/ e.of \in marks.waited
  /\ e = f /\ e = Echo(e.of) => e.of \in marks.wiped
  /\ e.what \in Parts /\ f.what \in Parts /\ e.of = f.of => e.n < f.n \/ e.of \in marks.dropped
  /\ e = f /\ e = Bullet(e.of) => e.of \in marks.dropped \cup marks.split

AllFine(s, marks) == \A i, j \in DOMAIN s : i < j => Fine(s[i], s[j], marks)
Across(s, r, marks) == \A e \in ToSet(s), f \in ToSet(r) : Fine(e, f, marks)

\* The prose of t has its bullet before it.
Led(s, t) ==
  \A i \in DOMAIN s : s[i].what = "prose" /\ s[i].of = t =>
    \E j \in DOMAIN s : j < i /\ s[j] = Bullet(t)

\* The screen x, the buffer b and the chips c fit, whichever of b and c goes
\* first: chips are printed before the buffer, or typed items before the chips.
Fit(x, b, c, marks) ==
  /\ AllFine(x, marks) /\ AllFine(b, marks) /\ AllFine(c, marks)
  /\ Across(x, b, marks) /\ Across(x, c, marks) /\ Across(b, c, marks) /\ Across(c, b, marks)

PiecesFit == Fit(Shown, Buf, Chips, Marks)

Asked == 1..submitted
OfReply == Parts \cup {"error", "bullet"}

\* Nothing is lost.
NothingLost ==
  /\ \A t \in Asked \ wiped : Echo(t) \in ToSet(Shown) \cup ToSet(Chips)
  /\ \A t \in Asked \ dropped, k \in Nat \ {0} : k <= sent[t] =>
       \E e \in ToSet(Shown) \cup ToSet(Buf) : e.what \in Parts /\ e.of = t /\ e.n = k
  /\ \A e \in ToSet(Shown) \cup ToSet(Buf) : e.what \in Parts => e.n \in 1..sent[e.of]

\* Whose the items are.
OfTurns ==
  /\ \A e \in ToSet(Shown) \cup ToSet(Buf) :
       /\ e.of <= submitted
       /\ e.what = "echo" => e.of \in Asked
       /\ e.what \in OfReply => /\ e.of \in Asked
                                /\ current # NoTurn => e.of <= current
                                /\ \A u \in ToSet(queuedInputs) : e.of < u
  /\ \A e \in ToSet(Buf) : /\ e.what \in {"prose", "bullet"}
                           /\ current # NoTurn => e.what = "prose" /\ e.of = current
  /\ \A t \in ToSet(pendingUserEcho) : t \in Asked

\* The queue is in order, and behind whatever did not wait.
QueueInOrder ==
  /\ \A u \in ToSet(queuedInputs) : u \in Asked /\ current < u /\ sent[u] = 0
  /\ \A i, j \in DOMAIN queuedInputs : i < j => queuedInputs[i] < queuedInputs[j]
  /\ \A t \in Turns : t > submitted => sent[t] = 0
  /\ \A t \in Asked \ waited : /\ current # NoTurn => t <= current
                               /\ \A u \in ToSet(queuedInputs) : t < u

\* Who has the buffer: the run, or the typewriter.
BufferHeld ==
  /\ playbackActive => current = NoTurn /\ ticks > 0 /\ Buf # <<>>
  /\ current = NoTurn /\ ~playbackActive => Buf = <<>>
  /\ toolOpen => Buf = <<>>

Bulleted ==
  /\ \A t \in Asked \ (dropped \cup split) :
       IF playbackActive THEN Led(Shown \o Buf, t) ELSE Led(Shown, t)
  /\ current # NoTurn /\ current \notin dropped \cup split =>
       (assistantTurnStarted <=> Bullet(current) \in ToSet(Shown))

TranscriptInv ==
  /\ TranscriptTypeOK
  /\ PiecesFit /\ NothingLost /\ OfTurns /\ QueueInOrder /\ BufferHeld /\ Bulleted

-----------------------------------------------------------------------------
(* Sequences of items.                                                     *)

LEMMA CatAt ==
  ASSUME NEW S, NEW x \in Seq(S), NEW y \in Seq(S)
  PROVE  /\ x \o y \in Seq(S) /\ Len(x \o y) = Len(x) + Len(y)
         /\ Len(x) \in Nat /\ Len(y) \in Nat
         /\ DOMAIN x = 1..Len(x) /\ DOMAIN y = 1..Len(y) /\ DOMAIN (x \o y) = 1..Len(x) + Len(y)
         /\ \A i \in 1..Len(x) : (x \o y)[i] = x[i]
         /\ \A i \in 1..Len(y) : (x \o y)[Len(x) + i] = y[i]
         /\ \A i \in 1..Len(x) + Len(y) :
              i <= Len(x) \/ (i - Len(x) \in 1..Len(y) /\ (x \o y)[i] = y[i - Len(x)])
  <1>1. /\ x \o y \in Seq(S) /\ Len(x \o y) = Len(x) + Len(y)
        /\ Len(x) \in Nat /\ Len(y) \in Nat
        /\ DOMAIN x = 1..Len(x) /\ DOMAIN y = 1..Len(y)
    OBVIOUS
  <1>2. DOMAIN (x \o y) = 1..Len(x) + Len(y)
    BY <1>1
  <1>3. \A i \in 1..Len(x) : (x \o y)[i] = x[i]
    BY <1>1
  <1>4. \A i \in 1..Len(y) : (x \o y)[Len(x) + i] = y[i]
    BY <1>1
  <1>5. \A i \in 1..Len(x) + Len(y) :
          i <= Len(x) \/ (i - Len(x) \in 1..Len(y) /\ (x \o y)[i] = y[i - Len(x)])
    BY <1>1
  <1> QED
    BY <1>1, <1>2, <1>3, <1>4, <1>5

LEMMA SameSeq ==
  ASSUME NEW S, NEW x \in Seq(S), NEW y \in Seq(S), Len(x) = Len(y),
         \A i \in 1..Len(x) : x[i] = y[i]
  PROVE  x = y
  OBVIOUS

LEMMA CatAssoc ==
  ASSUME NEW S, NEW x \in Seq(S), NEW y \in Seq(S), NEW z \in Seq(S)
  PROVE  (x \o y) \o z = x \o (y \o z)
  <1> DEFINE a == (x \o y) \o z
             b == x \o (y \o z)
  <1>1. x \o y \in Seq(S) /\ y \o z \in Seq(S)
    OBVIOUS
  <1>2. a \in Seq(S) /\ b \in Seq(S) /\ Len(a) = Len(b) /\ Len(a) = Len(x) + Len(y) + Len(z)
    BY <1>1
  <1>3. ASSUME NEW i \in 1..Len(a) PROVE a[i] = b[i]
    <2>1. i \in 1..Len(x) + Len(y) + Len(z)
      BY <1>2
    <2>2. CASE i <= Len(x)
      BY <1>1, <2>1, <2>2
    <2>3. CASE i > Len(x) /\ i <= Len(x) + Len(y)
      BY <1>1, <2>1, <2>3
    <2>4. CASE i > Len(x) + Len(y)
      BY <1>1, <2>1, <2>4
    <2> QED
      BY <2>1, <2>2, <2>3, <2>4
  <1> HIDE DEF a, b
  <1>4. a = b
    BY <1>2, <1>3, SameSeq
  <1> QED
    BY <1>4 DEF a, b

\* Folded, for the provers lose their way among nested concatenations.
Assoc(x, y, z) == (x \o y) \o z = x \o (y \o z)

LEMMA CatFolded ==
  ASSUME NEW S, NEW x \in Seq(S), NEW y \in Seq(S), NEW z \in Seq(S)
  PROVE  Assoc(x, y, z)
  BY CatAssoc DEF Assoc

LEMMA CatEmpty ==
  ASSUME NEW S, NEW x \in Seq(S)
  PROVE  x \o <<>> = x /\ <<>> \o x = x
  OBVIOUS

LEMMA CatSet ==
  ASSUME NEW S, NEW x \in Seq(S), NEW y \in Seq(S)
  PROVE  ToSet(x \o y) = ToSet(x) \cup ToSet(y)
  <1>1. ASSUME NEW e \in ToSet(x \o y) PROVE e \in ToSet(x) \cup ToSet(y)
    <2>1. PICK i \in 1..Len(x) + Len(y) : e = (x \o y)[i]
      BY CatAt DEF ToSet
    <2> QED
      BY <2>1, CatAt DEF ToSet
  <1>2. ASSUME NEW e \in ToSet(x) PROVE e \in ToSet(x \o y)
    <2>1. PICK i \in 1..Len(x) : e = x[i]
      BY CatAt DEF ToSet
    <2>2. i \in 1..Len(x) + Len(y) /\ e = (x \o y)[i]
      BY <2>1, CatAt
    <2> QED
      BY <2>2, CatAt DEF ToSet
  <1>3. ASSUME NEW e \in ToSet(y) PROVE e \in ToSet(x \o y)
    <2>1. PICK i \in 1..Len(y) : e = y[i]
      BY CatAt DEF ToSet
    <2> DEFINE k == Len(x) + i
    <2>2. k \in DOMAIN (x \o y) /\ e = (x \o y)[k]
      BY <2>1, CatAt
    <2> HIDE DEF k
    <2> QED
      BY <2>2 DEF ToSet
  <1> QED
    BY <1>1, <1>2, <1>3

LEMMA SmallSeq ==
  ASSUME NEW S, NEW e \in S, NEW marks
  PROVE  /\ <<e>> \in Seq(S) /\ ToSet(<<e>>) = {e} /\ AllFine(<<e>>, marks)
         /\ <<>> \in Seq(S) /\ ToSet(<<>>) = {} /\ AllFine(<<>>, marks)
  BY DEF ToSet, AllFine

LEMMA CatFine ==
  ASSUME NEW S, NEW x \in Seq(S), NEW y \in Seq(S), NEW marks
  PROVE  AllFine(x \o y, marks)
           <=> AllFine(x, marks) /\ AllFine(y, marks) /\ Across(x, y, marks)
  <1>1. ASSUME AllFine(x \o y, marks)
        PROVE  AllFine(x, marks) /\ AllFine(y, marks) /\ Across(x, y, marks)
    <2>1. ASSUME NEW i \in 1..Len(x), NEW j \in 1..Len(x), i < j PROVE Fine(x[i], x[j], marks)
      <3>1. /\ i \in 1..Len(x) + Len(y) /\ j \in 1..Len(x) + Len(y)
            /\ (x \o y)[i] = x[i] /\ (x \o y)[j] = x[j]
        BY CatAt
      <3>2. i \in DOMAIN (x \o y) /\ j \in DOMAIN (x \o y)
        BY <3>1, CatAt
      <3>3. Fine((x \o y)[i], (x \o y)[j], marks)
        BY <1>1, <2>1, <3>2 DEF AllFine
      <3> QED
        BY <3>1, <3>3
    <2>2. ASSUME NEW i \in 1..Len(y), NEW j \in 1..Len(y), i < j PROVE Fine(y[i], y[j], marks)
      <3> DEFINE k == Len(x) + i
                 l == Len(x) + j
      <3>1. /\ k \in DOMAIN (x \o y) /\ l \in DOMAIN (x \o y) /\ k < l
            /\ (x \o y)[k] = y[i] /\ (x \o y)[l] = y[j]
        BY <2>2, CatAt
      <3> HIDE DEF k, l
      <3>2. Fine((x \o y)[k], (x \o y)[l], marks)
        BY <1>1, <3>1 DEF AllFine
      <3> QED
        BY <3>1, <3>2
    <2>3. ASSUME NEW i \in 1..Len(x), NEW j \in 1..Len(y) PROVE Fine(x[i], y[j], marks)
      <3> DEFINE l == Len(x) + j
      <3>1. /\ i \in DOMAIN (x \o y) /\ l \in DOMAIN (x \o y) /\ i < l
            /\ (x \o y)[i] = x[i] /\ (x \o y)[l] = y[j]
        BY CatAt
      <3> HIDE DEF l
      <3>2. Fine((x \o y)[i], (x \o y)[l], marks)
        BY <1>1, <3>1 DEF AllFine
      <3> QED
        BY <3>1, <3>2
    <2>4. DOMAIN x = 1..Len(x) /\ DOMAIN y = 1..Len(y)
      BY CatAt
    <2>5. AllFine(x, marks)
      BY <2>1, <2>4 DEF AllFine
    <2>6. AllFine(y, marks)
      BY <2>2, <2>4 DEF AllFine
    <2>7. Across(x, y, marks)
      BY <2>3, <2>4 DEF Across, ToSet
    <2> QED
      BY <2>5, <2>6, <2>7
  <1>2. ASSUME AllFine(x, marks), AllFine(y, marks), Across(x, y, marks)
        PROVE  AllFine(x \o y, marks)
    <2>1. ASSUME NEW i \in 1..Len(x) + Len(y), NEW j \in 1..Len(x) + Len(y), i < j
          PROVE  Fine((x \o y)[i], (x \o y)[j], marks)
      <3>1. CASE j <= Len(x)
        <4>1. /\ i \in 1..Len(x) /\ j \in 1..Len(x)
              /\ (x \o y)[i] = x[i] /\ (x \o y)[j] = x[j]
          BY <2>1, <3>1, CatAt
        <4> QED
          BY <1>2, <2>1, <4>1, CatAt DEF AllFine
      <3>2. CASE i <= Len(x) /\ j > Len(x)
        <4>1. /\ i \in 1..Len(x) /\ j - Len(x) \in 1..Len(y)
              /\ (x \o y)[i] = x[i] /\ (x \o y)[j] = y[j - Len(x)]
          BY <2>1, <3>2, CatAt
        <4>2. x[i] \in ToSet(x) /\ y[j - Len(x)] \in ToSet(y)
          BY <4>1, CatAt DEF ToSet
        <4> QED
          BY <1>2, <4>1, <4>2 DEF Across
      <3>3. CASE i > Len(x)
        <4> DEFINE k == i - Len(x)
                   l == j - Len(x)
        <4>1. /\ k \in 1..Len(y) /\ l \in 1..Len(y) /\ k < l
              /\ (x \o y)[i] = y[k] /\ (x \o y)[j] = y[l]
          BY <2>1, <3>3, CatAt
        <4> HIDE DEF k, l
        <4> QED
          BY <1>2, <4>1, CatAt DEF AllFine
      <3> QED
        BY <2>1, <3>1, <3>2, <3>3, CatAt
    <2> QED
      BY <2>1, CatAt DEF AllFine
  <1> QED
    BY <1>1, <1>2

LEMMA CatLed ==
  ASSUME NEW S, NEW x \in Seq(S), NEW y \in Seq(S), NEW t
  PROVE  /\ Led(x \o y, t) => Led(x, t)
         /\ Led(x, t) /\ (Led(y, t) \/ Bullet(t) \in ToSet(x)) => Led(x \o y, t)
  <1>1. ASSUME Led(x \o y, t) PROVE Led(x, t)
    <2>1. ASSUME NEW i \in 1..Len(x), x[i].what = "prose", x[i].of = t
          PROVE  \E j \in 1..Len(x) : j < i /\ x[j] = Bullet(t)
      <3>1. i \in 1..Len(x) + Len(y) /\ (x \o y)[i] = x[i]
        BY CatAt
      <3>2. i \in DOMAIN (x \o y) /\ DOMAIN (x \o y) = 1..Len(x) + Len(y)
        BY <3>1, CatAt
      <3>3. PICK j \in 1..Len(x) + Len(y) : j < i /\ (x \o y)[j] = Bullet(t)
        BY <1>1, <2>1, <3>1, <3>2 DEF Led
      <3>4. j \in 1..Len(x) /\ x[j] = Bullet(t)
        BY <2>1, <3>3, CatAt
      <3> QED
        BY <3>3, <3>4
    <2> QED
      BY <2>1, CatAt DEF Led
  <1>2. ASSUME Led(x, t), Led(y, t) \/ Bullet(t) \in ToSet(x)
        PROVE  Led(x \o y, t)
    <2>1. ASSUME NEW i \in 1..Len(x) + Len(y), (x \o y)[i].what = "prose", (x \o y)[i].of = t
          PROVE  \E j \in 1..Len(x) + Len(y) : j < i /\ (x \o y)[j] = Bullet(t)
      <3>1. CASE i <= Len(x)
        <4>1. i \in 1..Len(x) /\ (x \o y)[i] = x[i]
          BY <3>1, CatAt
        <4>2. PICK j \in 1..Len(x) : j < i /\ x[j] = Bullet(t)
          BY <1>2, <2>1, <4>1, CatAt DEF Led
        <4> QED
          BY <4>2, CatAt
      <3>2. CASE i > Len(x) /\ Bullet(t) \in ToSet(x)
        <4>1. PICK j \in 1..Len(x) : x[j] = Bullet(t)
          BY <3>2, CatAt DEF ToSet
        <4>2. j < i /\ j \in 1..Len(x) + Len(y) /\ (x \o y)[j] = Bullet(t)
          BY <3>2, <4>1, CatAt
        <4> QED
          BY <4>2
      <3>3. CASE i > Len(x) /\ Led(y, t)
        <4> DEFINE k == i - Len(x)
        <4>1. k \in 1..Len(y) /\ (x \o y)[i] = y[k]
          BY <3>3, CatAt
        <4> HIDE DEF k
        <4>2. PICK j \in 1..Len(y) : j < k /\ y[j] = Bullet(t)
          BY <2>1, <3>3, <4>1, CatAt DEF Led
        <4>3. Len(x) + j < i /\ Len(x) + j \in 1..Len(x) + Len(y) /\ (x \o y)[Len(x) + j] = Bullet(t)
          BY <4>2, CatAt DEF k
        <4> QED
          BY <4>3
      <3> QED
        BY <1>2, <3>1, <3>2, <3>3, CatAt
    <2>2. DOMAIN (x \o y) = 1..Len(x) + Len(y)
      BY CatAt
    <2> QED
      BY <2>1, <2>2 DEF Led
  <1> QED
    BY <1>1, <1>2

LEMMA CatOne ==
  ASSUME NEW S, NEW x \in Seq(S), NEW e \in S
  PROVE  x \o <<e>> \in Seq(S) /\ ToSet(x \o <<e>>) = ToSet(x) \cup {e}
  <1> DEFINE l == <<e>>
  <1>1. l \in Seq(S) /\ ToSet(l) = {e}
    BY DEF ToSet
  <1> HIDE DEF l
  <1>2. x \o l \in Seq(S) /\ ToSet(x \o l) = ToSet(x) \cup ToSet(l)
    BY <1>1, CatSet
  <1> QED
    BY <1>1, <1>2 DEF l

LEMMA HeadFirst ==
  ASSUME NEW S, NEW q \in Seq(S), q # <<>>
  PROVE  /\ Head(q) \in S /\ Tail(q) \in Seq(S) /\ Head(q) \in ToSet(q)
         /\ q = <<Head(q)>> \o Tail(q)
         /\ Len(q) > 1 => Tail(q) # <<>>
  <1> DEFINE h == Head(q)
             r == Tail(q)
             l == <<h>>
             p == l \o r
  <1>1. /\ Len(q) \in Nat /\ Len(q) >= 1 /\ DOMAIN q = 1..Len(q) /\ h = q[1] /\ h \in S
        /\ r \in Seq(S) /\ Len(r) = Len(q) - 1
        /\ \A i \in 1..(Len(q) - 1) : r[i] = q[i + 1]
    OBVIOUS
  <1>2. h \in ToSet(q)
    BY <1>1 DEF ToSet
  <1>3. Len(q) > 1 => r # <<>>
    BY <1>1
  <1> HIDE DEF h, r
  <1>4. l \in Seq(S) /\ Len(l) = 1 /\ l[1] = h
    BY <1>1
  <1> HIDE DEF l
  <1>5. /\ p \in Seq(S) /\ Len(p) = Len(q) /\ p[1] = h
        /\ \A i \in 1..Len(r) : p[1 + i] = r[i]
    <2> l \in Seq(S) /\ r \in Seq(S)
      BY <1>1, <1>4
    <2>1. p \in Seq(S) /\ Len(p) = Len(l) + Len(r)
      BY CatAt
    <2>2. \A i \in 1..Len(l) : p[i] = l[i]
      BY CatAt
    <2>3. \A i \in 1..Len(r) : p[Len(l) + i] = r[i]
      BY CatAt
    <2>4. /\ p \in Seq(S) /\ Len(p) = Len(l) + Len(r)
          /\ \A i \in 1..Len(l) : p[i] = l[i]
          /\ \A i \in 1..Len(r) : p[Len(l) + i] = r[i]
      BY <2>1, <2>2, <2>3
    <2> HIDE DEF p
    <2>5. 1 \in 1..Len(l)
      BY <1>4
    <2> QED
      BY <1>1, <1>4, <2>4, <2>5
  <1>6. ASSUME NEW i \in 1..Len(q) PROVE q[i] = p[i]
    <2> HIDE DEF p
    <2>1. CASE i = 1
      BY <1>1, <1>5, <2>1
    <2>2. CASE i > 1
      <3>1. i - 1 \in 1..(Len(q) - 1) /\ (i - 1) + 1 = i /\ 1 + (i - 1) = i
        BY <1>1, <2>2
      <3>2. p[1 + (i - 1)] = r[i - 1]
        BY <1>1, <1>5, <3>1
      <3>3. r[i - 1] = q[(i - 1) + 1]
        BY <1>1, <3>1
      <3> QED
        BY <3>1, <3>2, <3>3
    <2>3. i = 1 \/ i > 1
      BY <1>1
    <2> QED
      BY <2>1, <2>2, <2>3
  <1> HIDE DEF p
  <1>7. q = p
    BY <1>5, <1>6, SameSeq
  <1> QED
    BY <1>1, <1>2, <1>3, <1>7 DEF p, l, h, r

-----------------------------------------------------------------------------
(* What the handlers do to the screen, the buffer and the chips is made of *)
(* a few moves, and each keeps them fit.                                   *)

LEMMA NoItems ==
  ASSUME NEW g
  PROVE  <<>> \in Seq(Items) /\ ToSet(<<>>) = {} /\ AllFine(<<>>, g)
  BY DEF ToSet, AllFine

\* What is put behind something on the screen, in the buffer or to the chips.
LEMMA JoinFine ==
  ASSUME NEW x \in Seq(Items), NEW y \in Seq(Items), NEW g,
         AllFine(x, g), AllFine(y, g), Across(x, y, g)
  PROVE  AllFine(x \o y, g) /\ ToSet(x \o y) = ToSet(x) \cup ToSet(y) /\ x \o y \in Seq(Items)
  <1>1. AllFine(x \o y, g)
    BY CatFine
  <1>2. ToSet(x \o y) = ToSet(x) \cup ToSet(y)
    BY CatSet
  <1> QED
    BY <1>1, <1>2

\* A commit prints the buffer, a flush the chips.
LEMMA FitCommit ==
  ASSUME NEW x \in Seq(Items), NEW b \in Seq(Items), NEW c \in Seq(Items), NEW g, Fit(x, b, c, g)
  PROVE  Fit(x \o b, <<>>, c, g)
  <1>1. AllFine(x, g) /\ AllFine(b, g) /\ Across(x, b, g)
    BY DEF Fit
  <1>2. AllFine(x \o b, g) /\ ToSet(x \o b) = ToSet(x) \cup ToSet(b)
    BY <1>1, JoinFine
  <1> QED
    BY <1>2, NoItems DEF Fit, Across

LEMMA FitFlush ==
  ASSUME NEW x \in Seq(Items), NEW b \in Seq(Items), NEW c \in Seq(Items), NEW g, Fit(x, b, c, g)
  PROVE  Fit(x \o c, b, <<>>, g)
  <1>1. AllFine(x, g) /\ AllFine(c, g) /\ Across(x, c, g)
    BY DEF Fit
  <1>2. AllFine(x \o c, g) /\ ToSet(x \o c) = ToSet(x) \cup ToSet(c)
    BY <1>1, JoinFine
  <1> QED
    BY <1>2, NoItems DEF Fit, Across

LEMMA FitDrop ==
  ASSUME NEW x \in Seq(Items), NEW b \in Seq(Items), NEW c \in Seq(Items), NEW g, Fit(x, b, c, g)
  PROVE  Fit(x, <<>>, c, g) /\ Fit(x, <<>>, <<>>, g)
  BY NoItems DEF Fit, Across

\* Clearing the screen leaves what stands in the scrollback.
LEMMA FitPrefix ==
  ASSUME NEW x \in Seq(Items), NEW y \in Seq(Items), NEW b, NEW c, NEW g, Fit(x \o y, b, c, g)
  PROVE  Fit(x, <<>>, <<>>, g)
  <1>1. AllFine(x \o y, g)
    BY DEF Fit
  <1>2. AllFine(x, g)
    BY <1>1, CatFine
  <1> QED
    BY <1>2, NoItems DEF Fit, Across

\* A chip more, an item more in the buffer or on the screen, and a bullet.
LEMMA FitChip ==
  ASSUME NEW x \in Seq(Items), NEW b \in Seq(Items), NEW c \in Seq(Items), NEW g, Fit(x, b, c, g),
         NEW k \in Items,
         \A e \in ToSet(x) \cup ToSet(b) \cup ToSet(c) : Fine(e, k, g),
         \A f \in ToSet(b) : Fine(k, f, g)
  PROVE  Fit(x, b, c \o <<k>>, g)
  <1>1. <<k>> \in Seq(Items) /\ ToSet(<<k>>) = {k} /\ AllFine(<<k>>, g)
    BY SmallSeq
  <1>2. Across(c, <<k>>, g)
    BY <1>1 DEF Across
  <1>3. AllFine(c, g) /\ AllFine(<<k>>, g)
    BY <1>1 DEF Fit
  <1>4. AllFine(c \o <<k>>, g) /\ ToSet(c \o <<k>>) = ToSet(c) \cup ToSet(<<k>>)
    BY <1>1, <1>2, <1>3, JoinFine
  <1> QED
    BY <1>1, <1>4, NoItems DEF Fit, Across

LEMMA FitBuffer ==
  ASSUME NEW x \in Seq(Items), NEW b \in Seq(Items), NEW g, Fit(x, b, <<>>, g),
         NEW k \in Items,
         \A e \in ToSet(x) \cup ToSet(b) : Fine(e, k, g)
  PROVE  Fit(x, b \o <<k>>, <<>>, g)
  <1>1. <<k>> \in Seq(Items) /\ ToSet(<<k>>) = {k} /\ AllFine(<<k>>, g)
    BY SmallSeq
  <1>2. Across(b, <<k>>, g)
    BY <1>1 DEF Across
  <1>3. AllFine(b, g) /\ AllFine(<<k>>, g)
    BY <1>1 DEF Fit
  <1>4. AllFine(b \o <<k>>, g) /\ ToSet(b \o <<k>>) = ToSet(b) \cup ToSet(<<k>>)
    BY <1>1, <1>2, <1>3, JoinFine
  <1> QED
    BY <1>1, <1>4, NoItems DEF Fit, Across

LEMMA FitShow ==
  ASSUME NEW x \in Seq(Items), NEW c \in Seq(Items), NEW g, Fit(x, <<>>, c, g),
         NEW k \in Items,
         \A e \in ToSet(x) : Fine(e, k, g),
         \A f \in ToSet(c) : Fine(k, f, g)
  PROVE  Fit(x \o <<k>>, <<>>, c, g)
  <1>1. <<k>> \in Seq(Items) /\ ToSet(<<k>>) = {k} /\ AllFine(<<k>>, g)
    BY SmallSeq
  <1>2. Across(x, <<k>>, g)
    BY <1>1 DEF Across
  <1>3. AllFine(x, g) /\ AllFine(<<k>>, g)
    BY <1>1 DEF Fit
  <1>4. AllFine(x \o <<k>>, g) /\ ToSet(x \o <<k>>) = ToSet(x) \cup ToSet(<<k>>)
    BY <1>1, <1>2, <1>3, JoinFine
  <1> QED
    BY <1>1, <1>4, NoItems DEF Fit, Across

LEMMA FitLead ==
  ASSUME NEW x \in Seq(Items), NEW b \in Seq(Items), NEW g, Fit(x, b, <<>>, g),
         NEW k \in Items,
         \A e \in ToSet(x) : Fine(e, k, g),
         \A f \in ToSet(b) : Fine(k, f, g)
  PROVE  Fit(x, <<k>> \o b, <<>>, g)
  <1>1. <<k>> \in Seq(Items) /\ ToSet(<<k>>) = {k} /\ AllFine(<<k>>, g)
    BY SmallSeq
  <1>2. Across(<<k>>, b, g)
    BY <1>1 DEF Across
  <1>3. AllFine(<<k>>, g) /\ AllFine(b, g)
    BY <1>1 DEF Fit
  <1>4. AllFine(<<k>> \o b, g) /\ ToSet(<<k>> \o b) = ToSet(<<k>>) \cup ToSet(b)
    BY <1>1, <1>2, <1>3, JoinFine
  <1> QED
    BY <1>1, <1>4, NoItems DEF Fit, Across

\* The typewriter takes the head of the buffer to the screen.
LEMMA FitType ==
  ASSUME NEW x \in Seq(Items), NEW b \in Seq(Items), NEW c \in Seq(Items), NEW h \in Items, NEW g,
         Fit(x, <<h>> \o b, c, g)
  PROVE  Fit(x \o <<h>>, b, c, g)
  <1> DEFINE l == <<h>>
  <1>1. l \in Seq(Items) /\ ToSet(l) = {h} /\ AllFine(l, g)
    BY SmallSeq
  <1> HIDE DEF l
  <1>2. Fit(x, l \o b, c, g)
    BY DEF l
  <1>3. AllFine(l \o b, g) /\ AllFine(x, g)
    BY <1>2 DEF Fit
  <1>4. AllFine(b, g) /\ Across(l, b, g)
    BY <1>1, <1>3, CatFine
  <1>5. ToSet(l \o b) = ToSet(l) \cup ToSet(b)
    BY <1>1, CatSet
  <1>6. Across(x, l, g)
    BY <1>2, <1>5 DEF Fit, Across
  <1>7. AllFine(x \o l, g) /\ ToSet(x \o l) = ToSet(x) \cup ToSet(l)
    BY <1>1, <1>3, <1>6, JoinFine
  <1>8. Fit(x \o l, b, c, g)
    BY <1>2, <1>4, <1>5, <1>7 DEF Fit, Across
  <1> QED
    BY <1>8 DEF l

\* What is marked makes nothing unfit.
Weaker(g, h) ==
  /\ g.waited \subseteq h.waited /\ g.wiped \subseteq h.wiped
  /\ g.dropped \subseteq h.dropped /\ g.split \subseteq h.split

LEMMA FitWeaker ==
  ASSUME NEW x, NEW b, NEW c, NEW g, NEW h, Weaker(g, h), Fit(x, b, c, g)
  PROVE  Fit(x, b, c, h)
  <1>1. \A e, f : Fine(e, f, g) => Fine(e, f, h)
    BY DEF Weaker, Fine
  <1> QED
    BY <1>1 DEF Fit, AllFine, Across

-----------------------------------------------------------------------------
(* The types of the pieces.                                                *)

LEMMA ItemTypes ==
  ASSUME TranscriptTypeOK
  PROVE  /\ Shown \in Seq(Items) /\ Buf \in Seq(Items) /\ scroll \in Seq(Items) /\ live \in Seq(Items)
         /\ Asked \subseteq Turns /\ submitted \in Nat /\ Turns \subseteq Nat \ {0}
         /\ \A t \in Turns : Echo(t) \in Items /\ Bullet(t) \in Items
         /\ Chrome \in Items
         /\ current # NoTurn =>
              /\ current \in Turns /\ current \in Asked /\ sent[current] \in Nat
              /\ \A what \in Parts : Item(what, current) \in Items
              /\ [what |-> "error", of |-> current, n |-> 0] \in Items
  <1>1. /\ submitted \in 0..LastTurn /\ current \in 0..submitted /\ sent \in [Turns -> Nat]
        /\ {playbackBuf, live, scroll} \subseteq Seq(Items)
        /\ LastTurn \in Nat
    BY TranscriptAssumption DEF TranscriptTypeOK
  <1>2. Buf \in Seq(Items) /\ scroll \in Seq(Items) /\ live \in Seq(Items) /\ Shown \in Seq(Items)
    BY <1>1 DEF Buf, Shown
  <1>3. Asked \subseteq Turns /\ submitted \in Nat /\ Turns \subseteq Nat \ {0}
    BY <1>1 DEF Asked, Turns
  <1>4. \A t \in Turns : Echo(t) \in Items /\ Bullet(t) \in Items
    BY DEF Echo, Bullet, Items
  <1>5. Chrome \in Items
    BY DEF Chrome, Items
  <1>6. current # NoTurn => current \in Turns /\ current \in Asked /\ sent[current] \in Nat
    BY <1>1 DEF Asked, Turns, NoTurn
  <1>7. ASSUME current # NoTurn
        PROVE  /\ \A what \in Parts : Item(what, current) \in Items
               /\ [what |-> "error", of |-> current, n |-> 0] \in Items
    BY <1>6, <1>7 DEF Item, Items, Parts
  <1> QED
    BY <1>2, <1>3, <1>4, <1>5, <1>6, <1>7

LEMMA EchoTypes ==
  ASSUME NEW chips \in Seq(Turns), NEW t \in Turns
  PROVE  /\ Echoes(chips) \in Seq(Items)
         /\ ToSet(Echoes(chips)) = {Echo(u) : u \in ToSet(chips)}
         /\ Echoes(Append(chips, t)) = Echoes(chips) \o <<Echo(t)>>
         /\ Echoes(<<>>) = <<>>
         /\ ToSet(Append(chips, t)) = ToSet(chips) \cup {t}
  <1>1. \A u \in Turns : Echo(u) \in Items
    BY DEF Echo, Items
  <1>2. Echoes(chips) = [i \in 1..Len(chips) |-> Echo(chips[i])] /\ Len(chips) \in Nat
        /\ \A i \in 1..Len(chips) : chips[i] \in Turns
    BY DEF Echoes
  <1>3. Echoes(chips) \in Seq(Items) /\ Len(Echoes(chips)) = Len(chips)
    BY <1>1, <1>2
  <1>4. ToSet(Echoes(chips)) = {Echo(u) : u \in ToSet(chips)}
    BY <1>2 DEF ToSet
  <1>5. Echoes(Append(chips, t)) = Echoes(chips) \o <<Echo(t)>>
    <2> DEFINE a == Echoes(Append(chips, t))
               b == Echoes(chips) \o <<Echo(t)>>
               d == Append(chips, t)
    <2>1. /\ d \in Seq(Turns) /\ Len(d) = Len(chips) + 1
          /\ \A i \in 1..Len(chips) + 1 : d[i] = IF i <= Len(chips) THEN chips[i] ELSE t
      BY <1>2
    <2>2. a = [i \in 1..Len(chips) + 1 |-> Echo(d[i])]
      BY <2>1 DEF Echoes
    <2>3. a \in Seq(Items) /\ Len(a) = Len(chips) + 1
      <3>1. \A i \in 1..Len(chips) + 1 : Echo(d[i]) \in Items
        BY <1>1, <2>1
      <3> HIDE DEF d
      <3> QED
        BY <1>2, <2>2, <3>1
    <2>4. b \in Seq(Items) /\ Len(b) = Len(chips) + 1
      BY <1>1, <1>2, <1>3
    <2>5. ASSUME NEW i \in 1..Len(chips) + 1 PROVE a[i] = b[i]
      <3>1. a[i] = Echo(d[i])
        BY <2>2
      <3>2. b[i] = IF i <= Len(chips) THEN Echoes(chips)[i] ELSE Echo(t)
        BY <1>1, <1>2, <1>3
      <3>3. i <= Len(chips) => Echoes(chips)[i] = Echo(chips[i])
        BY <1>2
      <3> HIDE DEF a, b, d
      <3> QED
        BY <2>1, <3>1, <3>2, <3>3, <1>2
    <2> HIDE DEF a, b
    <2>6. a = b
      BY <2>3, <2>4, <2>5, SameSeq
    <2> QED
      BY <2>6 DEF a, b
  <1>6. Echoes(<<>>) = <<>>
    BY DEF Echoes
  <1>7. ToSet(Append(chips, t)) = ToSet(chips) \cup {t}
    <2>1. Append(chips, t) = chips \o <<t>> /\ <<t>> \in Seq(Turns)
      OBVIOUS
    <2>2. ToSet(<<t>>) = {t}
      BY DEF ToSet
    <2>3. ToSet(chips \o <<t>>) = ToSet(chips) \cup ToSet(<<t>>)
      BY <2>1, CatSet
    <2> QED
      BY <2>1, <2>2, <2>3
  <1> QED
    BY <1>3, <1>4, <1>5, <1>6, <1>7


-----------------------------------------------------------------------------
(* What may stand where, for each item that the handlers write.            *)

LEMMA FineEcho ==
  ASSUME NEW e \in Items, NEW t \in Turns, NEW g, e.of # t
  PROVE  Fine(e, Echo(t), g)
  BY DEF Fine, Echo, IsReply, Parts, Bullet

LEMMA FineQueued ==
  ASSUME NEW t \in Turns, NEW f \in Items, NEW g, t \in g.waited, f.what \in {"prose", "bullet"}
  PROVE  Fine(Echo(t), f, g)
  BY DEF Fine, Echo, IsReply, Parts, Bullet

LEMMA FineChrome ==
  ASSUME NEW e \in Items, NEW g
  PROVE  Fine(e, Chrome, g) /\ Fine(Chrome, e, g)
  BY DEF Fine, Chrome, Echo, IsReply, Parts, Bullet

LEMMA FineReply ==
  ASSUME NEW e \in Items, NEW k \in Items, NEW g, IsReply(k),
         IsReply(e) => e.of <= k.of,
         e.what = "echo" => e.of <= k.of \/ e.of \in g.waited,
         k.what \in Parts /\ e.what \in Parts /\ e.of = k.of => e.n < k.n
  PROVE  Fine(e, k, g)
  BY DEF Fine, Echo, IsReply, Parts, Bullet

LEMMA FineBullet ==
  ASSUME NEW t \in Turns, NEW e \in Items, NEW g
  PROVE  /\ (e = Bullet(t) => t \in g.dropped \cup g.split) => Fine(e, Bullet(t), g)
         /\ e.what = "prose" => Fine(Bullet(t), e, g)
  BY DEF Fine, Echo, IsReply, Parts, Bullet

-----------------------------------------------------------------------------
(* What the invariant says of each piece.                                  *)

Written == ToSet(Shown) \cup ToSet(Buf)

LEMMA Pieces ==
  ASSUME TranscriptInv
  PROVE  /\ Chips \in Seq(Items) /\ pendingUserEcho \in Seq(Turns)
         /\ \A e \in ToSet(Chips) : e \in Items /\ e.what = "echo" /\ e.of \in Asked
         /\ \A e \in Written : e \in Items
         /\ \A e \in Written \cup ToSet(Chips) : e.of \in Nat /\ e.of <= submitted
  <1>1. pendingUserEcho \in Seq(Turns) /\ submitted \in Nat
    BY ItemTypes DEF TranscriptInv, TranscriptTypeOK
  <1>2. Chips \in Seq(Items) /\ ToSet(Chips) = {Echo(u) : u \in ToSet(pendingUserEcho)}
    <2>1. 1 \in Turns
      BY TranscriptAssumption DEF Turns
    <2> QED
      BY <1>1, <2>1, EchoTypes DEF Chips
  <1>3. \A u \in ToSet(pendingUserEcho) : u \in Asked
    BY DEF TranscriptInv, OfTurns
  <1>4. \A u \in Asked : Echo(u) \in Items /\ Echo(u).what = "echo" /\ Echo(u).of = u
    BY ItemTypes DEF TranscriptInv, Echo
  <1>5. \A e \in ToSet(Chips) : e \in Items /\ e.what = "echo" /\ e.of \in Asked
    BY <1>2, <1>3, <1>4
  <1>6. \A e \in Written : e \in Items
    <2>1. Shown \in Seq(Items) /\ Buf \in Seq(Items)
      BY ItemTypes DEF TranscriptInv
    <2> QED
      BY <2>1 DEF Written, ToSet
  <1>7. \A e \in Items : e.of \in Nat
    BY TranscriptAssumption DEF Items, Turns, NoTurn
  <1>8. \A e \in Written : e.of <= submitted
    BY DEF TranscriptInv, OfTurns, Written
  <1>9. \A u \in Asked : u <= submitted
    BY <1>1 DEF Asked
  <1> QED
    BY <1>1, <1>2, <1>5, <1>6, <1>7, <1>8, <1>9

\* What the run of a turn sends may stand behind everything there is.
LEMMA RepliesLast ==
  ASSUME TranscriptInv, current # NoTurn, NEW k \in Items, IsReply(k), k.of = current,
         k.what \in Parts => k.n = sent[current] + 1,
         NEW e \in Written \cup ToSet(Chips)
  PROVE  Fine(e, k, Marks)
  <1>1. e \in Items /\ e.of \in Nat
    BY Pieces
  <1>2. current \in Nat /\ sent[current] \in Nat /\ Asked \subseteq Nat
    BY ItemTypes DEF TranscriptInv
  <1>3. IsReply(e) => e \in Written /\ e.of <= current
    <2>1. e \in ToSet(Chips) => e.what = "echo"
      BY Pieces
    <2>2. IsReply(e) => e.what \in OfReply /\ e.what # "echo"
      BY DEF IsReply, OfReply, Parts
    <2>3. e \in Written /\ e.what \in OfReply => e.of <= current
      BY DEF TranscriptInv, OfTurns, Written
    <2> QED
      BY <2>1, <2>2, <2>3
  <1>4. e.what = "echo" => e.of <= current \/ e.of \in Marks.waited
    <2>1. e.what = "echo" => e.of \in Asked
      BY Pieces DEF TranscriptInv, OfTurns, Written
    <2>2. \A t \in Asked \ waited : t <= current
      BY DEF TranscriptInv, QueueInOrder
    <2> QED
      BY <2>1, <2>2 DEF Marks
  <1>5. k.what \in Parts /\ e.what \in Parts /\ e.of = current => e.n < k.n
    <2>1. ASSUME e.what \in Parts, e.of = current PROVE e.n \in 1..sent[current]
      <3>1. e \in Written
        BY <1>3, <2>1 DEF IsReply
      <3> QED
        BY <2>1, <3>1 DEF TranscriptInv, NothingLost, Written
    <2> QED
      BY <1>2, <2>1
  <1> QED
    BY <1>1, <1>3, <1>4, <1>5, FineReply

\* A question that is asked now may stand behind everything there is.
LEMMA QuestionsLast ==
  ASSUME TranscriptInv, NEW t \in Turns, t = submitted + 1, NEW g,
         NEW e \in Written \cup ToSet(Chips)
  PROVE  Fine(e, Echo(t), g)
  <1>1. e \in Items /\ e.of \in Nat /\ e.of <= submitted /\ submitted \in Nat
    BY Pieces, ItemTypes DEF TranscriptInv
  <1>2. e.of # t
    BY <1>1
  <1> QED
    BY <1>1, <1>2, FineEcho

\* The buffer of the run with its bullet, which a tool, a failure or the end of
\* the run prints or types behind the chips.
Drained == IF Buf = <<>> THEN <<>> ELSE BulletPrefix(assistantTurnStarted) \o Buf

LEMMA DrainFits ==
  ASSUME TranscriptInv, current # NoTurn
  PROVE  /\ Drained \in Seq(Items)
         /\ ToSet(Buf) \subseteq ToSet(Drained) /\ ToSet(Drained) \subseteq ToSet(Buf) \cup {Bullet(current)}
         /\ Buf # <<>> /\ ~assistantTurnStarted => Bullet(current) \in ToSet(Drained)
         /\ Fit(Shown \o Chips, Drained, <<>>, Marks)
         /\ \A t \in Asked \ (dropped \cup split) : Led((Shown \o Chips) \o Drained, t)
  <1> DEFINE x == Shown \o Chips
             c == current
             l == <<Bullet(c)>>
  <1>1. /\ Shown \in Seq(Items) /\ Chips \in Seq(Items) /\ Buf \in Seq(Items) /\ x \in Seq(Items)
        /\ c \in Turns /\ Bullet(c) \in Items
    BY Pieces, ItemTypes DEF TranscriptInv
  <1>2. ToSet(x) = ToSet(Shown) \cup ToSet(Chips)
    BY <1>1, CatSet
  <1>3. l \in Seq(Items) /\ ToSet(l) = {Bullet(c)}
    BY <1>1, SmallSeq
  <1>4. Fit(x, Buf, <<>>, Marks)
    BY <1>1, FitFlush DEF TranscriptInv, PiecesFit
  <1>5. \A f \in ToSet(Buf) : f \in Items /\ f.what = "prose" /\ f.of = c
    BY Pieces DEF TranscriptInv, OfTurns, Written
  <1>6. \A e \in ToSet(Chips) : e \in Items /\ e.what = "echo"
    BY Pieces
  <1>7. \A e \in ToSet(Shown) : e \in Items
    BY Pieces DEF Written
  <1>8. /\ BulletPrefix(TRUE) = <<>> /\ BulletPrefix(FALSE) = l
        /\ assistantTurnStarted \in BOOLEAN
    BY DEF BulletPrefix, TranscriptInv, TranscriptTypeOK
  <1>9. ~playbackActive
    BY DEF TranscriptInv, BufferHeld
  <1>10. c \notin dropped \cup split => (assistantTurnStarted <=> Bullet(c) \in ToSet(Shown))
    BY DEF TranscriptInv, Bulleted
  <1>11. \A t \in Asked \ (dropped \cup split) : Led(Shown, t)
    BY <1>9 DEF TranscriptInv, Bulleted
  <1>12. \A t \in Asked \ (dropped \cup split) : Led(x, t)
    <2>1. \A t \in Turns : Led(Chips, t)
      BY <1>1, <1>6 DEF Led, ToSet
    <2>2. Asked \subseteq Turns
      BY ItemTypes DEF TranscriptInv
    <2> QED
      BY <1>1, <1>11, <2>1, <2>2, CatLed
  <1>13. \A t \in Turns : t # c => Led(Buf, t)
    BY <1>1, <1>5 DEF Led, ToSet
  <1> HIDE DEF x, l
  <1>14. CASE Buf = <<>>
    <2>1. Drained = <<>> /\ x \o Drained = x
      BY <1>1, <1>14, CatEmpty DEF Drained
    <2> QED
      BY <1>4, <1>12, <1>14, <2>1, NoItems DEF x
  <1>15. CASE Buf # <<>> /\ assistantTurnStarted
    <2>1. Drained = Buf
      BY <1>1, <1>8, <1>15, CatEmpty DEF Drained
    <2>2. c \notin dropped \cup split => Bullet(c) \in ToSet(x)
      BY <1>2, <1>10, <1>15
    <2>3. \A t \in Asked \ (dropped \cup split) : Led(x \o Buf, t)
      <3> SUFFICES ASSUME NEW t \in Asked \ (dropped \cup split) PROVE Led(x \o Buf, t)
        OBVIOUS
      <3>1. t \in Turns
        BY ItemTypes DEF TranscriptInv
      <3>2. Led(x, t) /\ (Led(Buf, t) \/ Bullet(t) \in ToSet(x))
        BY <1>12, <1>13, <2>2, <3>1
      <3> QED
        BY <1>1, <3>2, CatLed
    <2> QED
      BY <1>1, <1>4, <1>15, <2>1, <2>3 DEF x
  <1>16. CASE Buf # <<>> /\ ~assistantTurnStarted
    <2>1. Drained = l \o Buf
      BY <1>8, <1>16 DEF Drained
    <2>2. ToSet(Drained) = ToSet(l) \cup ToSet(Buf) /\ Drained \in Seq(Items)
      BY <1>1, <1>3, <2>1, CatSet
    <2>3. \A e \in ToSet(x) : Fine(e, Bullet(c), Marks)
      <3> SUFFICES ASSUME NEW e \in ToSet(x) PROVE Fine(e, Bullet(c), Marks)
        OBVIOUS
      <3>1. e \in Items
        BY <1>2, <1>6, <1>7
      <3>2. ASSUME e = Bullet(c) PROVE c \in dropped \cup split
        <4>1. e.what # "echo"
          BY <3>2 DEF Bullet
        <4> QED
          BY <1>2, <1>6, <1>10, <1>16, <3>2, <4>1
      <3>3. e = Bullet(c) => c \in Marks.dropped \cup Marks.split
        BY <3>2 DEF Marks
      <3> QED
        BY <1>1, <3>1, <3>3, FineBullet
    <2>4. \A f \in ToSet(Buf) : Fine(Bullet(c), f, Marks)
      BY <1>1, <1>5, FineBullet
    <2>5. Fit(x, l \o Buf, <<>>, Marks)
      BY <1>1, <1>4, <2>3, <2>4, FitLead DEF l
    <2>6. \A t \in Asked \ (dropped \cup split) : Led(x \o (l \o Buf), t)
      <3> SUFFICES ASSUME NEW t \in Asked \ (dropped \cup split) PROVE Led(x \o (l \o Buf), t)
        OBVIOUS
      <3>1. t \in Turns
        BY ItemTypes DEF TranscriptInv
      <3>2. Led(l, t)
        BY DEF Led, l, Bullet
      <3>3. Led(Buf, t) \/ Bullet(t) \in ToSet(l)
        BY <1>3, <1>13, <3>1
      <3>4. Led(l \o Buf, t)
        BY <1>1, <1>3, <3>2, <3>3, CatLed
      <3>5. Led(x, t) /\ l \o Buf \in Seq(Items)
        BY <1>1, <1>3, <1>12
      <3> QED
        BY <1>1, <3>4, <3>5, CatLed
    <2> QED
      BY <1>3, <1>16, <2>1, <2>2, <2>5, <2>6 DEF x
  <1> QED
    BY <1>8, <1>14, <1>15, <1>16


-----------------------------------------------------------------------------
(* The operator's actions.                                                 *)

LEMMA CommitView ==
  ASSUME TranscriptTypeOK, NEW before \in Seq(Items), NEW after \in Seq(Items),
         CommitTurn(before, after)
  PROVE  /\ Shown' = ((Shown \o before) \o Buf) \o after
         /\ Buf' = <<>> /\ playbackActive' = FALSE
  <1> DEFINE s == scroll \o live \o before \o playbackBuf \o after
  <1>1. s \in Seq(Items)
    BY ItemTypes DEF Buf
  <1>2. scroll' = s /\ live' = <<>> /\ playbackBuf' = <<>> /\ playbackActive' = FALSE
    BY DEF CommitTurn
  <1>3. s = ((Shown \o before) \o Buf) \o after
    BY DEF Shown, Buf
  <1> HIDE DEF s
  <1>4. s \o <<>> = s
    BY <1>1, CatEmpty
  <1> QED
    BY <1>2, <1>3, <1>4 DEF Shown, Buf

LEMMA AskTypes ==
  ASSUME TranscriptInv, NEW t \in Turns, Question(t)
  PROVE  /\ Asked' = Asked \cup {t} /\ t \notin Asked /\ t = submitted + 1 /\ submitted' = t
         /\ submitted \in Nat /\ ~cancelled
         /\ t \notin waited \cup wiped \cup dropped \cup split
         /\ Echoes(Append(pendingUserEcho, t)) = Chips \o <<Echo(t)>>
         /\ ToSet(Append(pendingUserEcho, t)) = ToSet(pendingUserEcho) \cup {t}
         /\ Echo(t) \in Items /\ ToSet(Chips \o <<Echo(t)>>) = ToSet(Chips) \cup {Echo(t)}
         /\ sent[t] = 0
  <1>1. submitted \in Nat /\ t = submitted + 1 /\ submitted' = t /\ ~cancelled
    BY ItemTypes DEF TranscriptInv, Question
  <1>2. Asked' = Asked \cup {t} /\ t \notin Asked
    BY <1>1 DEF Asked
  <1>3. t \notin waited \cup wiped \cup dropped \cup split
    BY <1>2 DEF TranscriptInv, TranscriptTypeOK, Asked
  <1>4. /\ Echoes(Append(pendingUserEcho, t)) = Chips \o <<Echo(t)>>
        /\ ToSet(Append(pendingUserEcho, t)) = ToSet(pendingUserEcho) \cup {t}
    BY Pieces, EchoTypes DEF Chips
  <1>5. Echo(t) \in Items
    BY ItemTypes DEF TranscriptInv
  <1>6. ToSet(Chips \o <<Echo(t)>>) = ToSet(Chips) \cup {Echo(t)}
    BY <1>5, Pieces, CatOne
  <1>7. sent[t] = 0
    BY <1>1 DEF TranscriptInv, QueueInOrder
  <1> QED
    BY <1>1, <1>2, <1>3, <1>4, <1>5, <1>6, <1>7

\* Nothing of a turn is anywhere before it is asked.
LEMMA NothingBefore ==
  ASSUME TranscriptInv, NEW t \in Turns, t = submitted + 1
  PROVE  /\ Bullet(t) \notin Written
         /\ \A e \in Written \cup ToSet(Chips) : e.of # t
         /\ Led(Shown, t) /\ Led(Shown \o Buf, t)
  <1>1. \A e \in Written \cup ToSet(Chips) : e.of # t
    BY Pieces, ItemTypes DEF TranscriptInv
  <1>2. Bullet(t).of = t
    BY DEF Bullet
  <1>3. Shown \in Seq(Items) /\ Buf \in Seq(Items)
    BY ItemTypes DEF TranscriptInv
  <1>4. ToSet(Shown \o Buf) = Written
    BY <1>3, CatSet DEF Written
  <1>5. Led(Shown \o Buf, t)
    BY <1>1, <1>4 DEF Led, ToSet
  <1>6. Led(Shown, t)
    BY <1>3, <1>5, CatLed
  <1> QED
    BY <1>1, <1>2, <1>5, <1>6

LEMMA QueueStep ==
  ASSUME TranscriptInv, TranscriptTypeOK', NEW t \in Turns, Queue(t)
  PROVE  TranscriptInv'
  <1>1. /\ Shown' = Shown /\ Buf' = Buf /\ Written' = Written
        /\ UNCHANGED <<current, cancelled, sent, toolOpen, playbackActive, assistantTurnStarted,
                       ticks, wiped, dropped, split, playbackBuf>>
        /\ queuedInputs' = Append(queuedInputs, t) /\ waited' = waited \cup {t}
        /\ pendingUserEcho' = Append(pendingUserEcho, t)
        /\ Question(t) /\ Waits
    BY DEF Queue, screen, Shown, Buf, Written
  <1>2. /\ Asked' = Asked \cup {t} /\ t \notin Asked /\ t = submitted + 1 /\ submitted' = t
        /\ submitted \in Nat
        /\ ToSet(pendingUserEcho') = ToSet(pendingUserEcho) \cup {t}
        /\ Echo(t) \in Items /\ sent[t] = 0
        /\ Chips' = Chips \o <<Echo(t)>> /\ ToSet(Chips') = ToSet(Chips) \cup {Echo(t)}
    BY <1>1, AskTypes DEF Chips
  <1>3. queuedInputs \in Seq(Turns) /\ ToSet(queuedInputs') = ToSet(queuedInputs) \cup {t}
    BY <1>1, EchoTypes DEF TranscriptInv, TranscriptTypeOK
  <1>4. /\ Shown \in Seq(Items) /\ Buf \in Seq(Items) /\ Chips \in Seq(Items)
        /\ current \in Nat /\ current <= submitted
        /\ Asked \subseteq Nat /\ \A u \in Asked : u < t
    <2>1. Shown \in Seq(Items) /\ Buf \in Seq(Items) /\ Chips \in Seq(Items)
      BY Pieces, ItemTypes DEF TranscriptInv
    <2>2. current \in 0..submitted
      BY DEF TranscriptInv, TranscriptTypeOK
    <2> QED
      BY <1>2, <2>1, <2>2 DEF Asked
  <1>5. PiecesFit'
    <2> DEFINE g == Marks'
    <2>1. Weaker(Marks, g) /\ t \in g.waited
      BY <1>1 DEF Weaker, Marks
    <2> HIDE DEF g
    <2>2. Fit(Shown, Buf, Chips, g)
      BY <2>1, FitWeaker DEF TranscriptInv, PiecesFit
    <2>3. \A e \in ToSet(Shown) \cup ToSet(Buf) \cup ToSet(Chips) : Fine(e, Echo(t), g)
      BY <1>2, QuestionsLast DEF Written
    <2>4. \A f \in ToSet(Buf) : Fine(Echo(t), f, g)
      <3>1. \A f \in ToSet(Buf) : f \in Items /\ f.what \in {"prose", "bullet"}
        BY Pieces DEF TranscriptInv, OfTurns, Written
      <3> QED
        BY <2>1, <3>1, FineQueued
    <2>5. Fit(Shown, Buf, Chips \o <<Echo(t)>>, g)
      BY <1>2, <1>4, <2>2, <2>3, <2>4, FitChip
    <2> QED
      BY <1>1, <1>2, <2>5 DEF PiecesFit, g
  <1>6. NothingLost'
    BY <1>1, <1>2 DEF TranscriptInv, NothingLost
  <1>7. OfTurns'
    <2>1. \A e \in Written : e.of \in Nat /\ e.of <= submitted /\ e.of < t
      BY <1>2, Pieces
    <2>2. /\ \A e \in Written : e.what = "echo" => e.of \in Asked
          /\ \A e \in Written : e.what \in OfReply =>
                 /\ e.of \in Asked /\ (current # NoTurn => e.of <= current)
                 /\ \A u \in ToSet(queuedInputs) : e.of < u
      BY DEF TranscriptInv, OfTurns, Written
    <2>3. \A e \in ToSet(Buf) : /\ e.what \in {"prose", "bullet"}
                                /\ current # NoTurn => e.what = "prose" /\ e.of = current
      BY DEF TranscriptInv, OfTurns
    <2>4. \A u \in ToSet(pendingUserEcho) : u \in Asked
      BY DEF TranscriptInv, OfTurns
    <2>5. \A e \in Written : e.of <= t
      BY <1>2, <2>1
    <2> QED
      BY <1>1, <1>2, <1>3, <2>1, <2>2, <2>3, <2>4, <2>5 DEF OfTurns, Written
  <1>8. QueueInOrder'
    <2>1. \A u \in ToSet(queuedInputs') : u \in Asked' /\ current' < u /\ sent'[u] = 0
      BY <1>1, <1>2, <1>3, <1>4 DEF TranscriptInv, QueueInOrder
    <2>2. \A i, j \in DOMAIN queuedInputs' : i < j => queuedInputs'[i] < queuedInputs'[j]
      <3>1. ASSUME NEW i \in 1..Len(queuedInputs) PROVE queuedInputs[i] < t
        <4>1. queuedInputs[i] \in ToSet(queuedInputs)
          BY <1>3 DEF ToSet
        <4>2. queuedInputs[i] \in Asked
          BY <4>1 DEF TranscriptInv, QueueInOrder
        <4> QED
          BY <1>4, <4>2
      <3>2. \A i, j \in 1..Len(queuedInputs) : i < j => queuedInputs[i] < queuedInputs[j]
        BY <1>3 DEF TranscriptInv, QueueInOrder
      <3> QED
        BY <1>1, <1>3, <3>1, <3>2
    <2>3. \A u \in Turns : u > submitted' => sent'[u] = 0
      <3>1. \A u \in Turns : u > t => u > submitted
        BY <1>2 DEF Turns
      <3> QED
        BY <1>1, <1>2, <3>1 DEF TranscriptInv, QueueInOrder
    <2>4. \A u \in Asked' \ waited' : /\ current' # NoTurn => u <= current'
                                      /\ \A v \in ToSet(queuedInputs') : u < v
      <3>1. \A u \in Asked' \ waited' : u \in Asked \ waited /\ u < t
        BY <1>1, <1>2, <1>4
      <3> QED
        BY <1>1, <1>3, <3>1 DEF TranscriptInv, QueueInOrder
    <2> QED
      BY <2>1, <2>2, <2>3, <2>4 DEF QueueInOrder
  <1>9. BufferHeld'
    BY <1>1 DEF TranscriptInv, BufferHeld
  <1>10. Bulleted'
    <2>1. Led(Shown, t) /\ Led(Shown \o Buf, t)
      BY <1>2, NothingBefore
    <2> QED
      BY <1>1, <1>2, <2>1 DEF TranscriptInv, Bulleted
  <1> QED
    BY <1>5, <1>6, <1>7, <1>8, <1>9, <1>10 DEF TranscriptInv

LEMMA NotWaiting ==
  ASSUME TranscriptInv, ~Waits, ~cancelled
  PROVE  current = NoTurn /\ queuedInputs = <<>> /\ ToSet(queuedInputs) = {}
  BY NoItems DEF Waits, Running

LEMMA AskStep ==
  ASSUME TranscriptInv, TranscriptTypeOK', NEW t \in Turns, Ask(t)
  PROVE  TranscriptInv'
  <1>1. /\ UNCHANGED <<sent, queuedInputs, ticks, wiped, dropped, split, waited>>
        /\ current' = t /\ toolOpen' = FALSE /\ assistantTurnStarted' = FALSE
        /\ pendingUserEcho' = Append(pendingUserEcho, t)
        /\ Question(t) /\ ~Waits /\ CommitTurn(<<>>, <<>>) /\ Marks' = Marks
    BY DEF Ask, RunTurn, past, Marks
  <1>2. /\ Asked' = Asked \cup {t} /\ t \notin Asked /\ t = submitted + 1 /\ submitted' = t
        /\ submitted \in Nat /\ ~cancelled
        /\ ToSet(pendingUserEcho') = ToSet(pendingUserEcho) \cup {t}
        /\ Echo(t) \in Items /\ sent[t] = 0
        /\ Chips' = Chips \o <<Echo(t)>> /\ ToSet(Chips') = ToSet(Chips) \cup {Echo(t)}
    BY <1>1, AskTypes DEF Chips
  <1>3. current = NoTurn /\ queuedInputs = <<>> /\ ToSet(queuedInputs) = {}
    BY <1>1, <1>2, NotWaiting
  <1>4. /\ Shown \in Seq(Items) /\ Buf \in Seq(Items) /\ Chips \in Seq(Items)
        /\ Asked \subseteq Nat /\ \A u \in Asked : u < t
    <2>1. Shown \in Seq(Items) /\ Buf \in Seq(Items) /\ Chips \in Seq(Items)
      BY Pieces, ItemTypes DEF TranscriptInv
    <2> QED
      BY <1>2, <2>1 DEF Asked
  <1>5. /\ Shown' = Shown \o Buf /\ Buf' = <<>> /\ playbackActive' = FALSE
        /\ ToSet(Shown') = Written /\ ToSet(Buf') = {}
    <2>1. /\ Shown' = ((Shown \o <<>>) \o Buf) \o <<>>
          /\ Buf' = <<>> /\ playbackActive' = FALSE
      BY <1>1, NoItems, CommitView DEF TranscriptInv
    <2>2. Shown \o Buf \in Seq(Items) /\ ToSet(Shown \o Buf) = Written
      BY <1>4, CatSet DEF Written
    <2>3. Shown \o <<>> = Shown /\ (Shown \o Buf) \o <<>> = Shown \o Buf
      BY <1>4, <2>2, CatEmpty
    <2> QED
      BY <2>1, <2>2, <2>3, NoItems
  <1>6. PiecesFit'
    <2> DEFINE x == Shown \o Buf
               b == <<>>
    <2>1. Fit(x, b, Chips, Marks) /\ x \in Seq(Items)
      BY <1>4, FitCommit DEF TranscriptInv, PiecesFit
    <2>2. ToSet(x) = Written /\ b \in Seq(Items) /\ ToSet(b) = {}
      BY <1>5, NoItems
    <2> HIDE DEF x, b
    <2>3. /\ \A e \in ToSet(x) \cup ToSet(b) \cup ToSet(Chips) : Fine(e, Echo(t), Marks)
          /\ \A f \in ToSet(b) : Fine(Echo(t), f, Marks)
      BY <1>2, <2>2, QuestionsLast
    <2>4. Echo(t) \in Items /\ Chips \in Seq(Items)
      BY <1>2, <1>4
    <2>5. Fit(x, b, Chips \o <<Echo(t)>>, Marks)
      BY <2>1, <2>2, <2>3, <2>4, FitChip
    <2> QED
      BY <1>1, <1>2, <1>5, <2>5 DEF PiecesFit, x, b
  <1>7. NothingLost'
    <2>1. \A u \in Asked' \ wiped' : Echo(u) \in ToSet(Shown') \cup ToSet(Chips')
      BY <1>1, <1>2, <1>5 DEF TranscriptInv, NothingLost, Written
    <2>2. \A u \in Asked' \ dropped', k \in Nat \ {0} : k <= sent'[u] =>
            \E e \in ToSet(Shown') : e.what \in Parts /\ e.of = u /\ e.n = k
      BY <1>1, <1>2, <1>5 DEF TranscriptInv, NothingLost, Written
    <2>3. \A e \in ToSet(Shown') : e.what \in Parts => e.n \in 1..sent'[e.of]
      BY <1>1, <1>5 DEF TranscriptInv, NothingLost, Written
    <2> QED
      BY <1>5, <2>1, <2>2, <2>3 DEF NothingLost
  <1>8. OfTurns'
    <2>1. \A e \in Written : e.of \in Nat /\ e.of <= submitted /\ e.of <= t
      BY <1>2, Pieces
    <2>2. /\ \A e \in Written : e.what = "echo" => e.of \in Asked
          /\ \A e \in Written : e.what \in OfReply => e.of \in Asked
      BY DEF TranscriptInv, OfTurns, Written
    <2>3. \A u \in ToSet(pendingUserEcho) : u \in Asked
      BY DEF TranscriptInv, OfTurns
    <2> QED
      BY <1>1, <1>2, <1>3, <1>5, <2>1, <2>2, <2>3 DEF OfTurns
  <1>9. QueueInOrder'
    <2>1. \A u \in Turns : u > submitted' => sent'[u] = 0
      <3>1. \A u \in Turns : u > t => u > submitted
        BY <1>2 DEF Turns
      <3> QED
        BY <1>1, <1>2, <3>1 DEF TranscriptInv, QueueInOrder
    <2>2. \A u \in Asked' : u <= t
      BY <1>2, <1>4
    <2>3. \A i, j \in DOMAIN queuedInputs' : i < j => queuedInputs'[i] < queuedInputs'[j]
      BY <1>1, <1>3
    <2> QED
      BY <1>1, <1>3, <2>1, <2>2, <2>3 DEF QueueInOrder
  <1>10. BufferHeld'
    BY <1>1, <1>2, <1>5 DEF BufferHeld, NoTurn
  <1>11. Bulleted'
    <2>1. Led(Shown \o Buf, t) /\ Bullet(t) \notin Written
      BY <1>2, NothingBefore
    <2>2. \A u \in Asked \ (dropped \cup split) : Led(Shown \o Buf, u)
      <3>1. CASE playbackActive
        BY <3>1 DEF TranscriptInv, Bulleted
      <3>2. CASE ~playbackActive
        <4>1. Shown \o Buf = Shown
          BY <1>3, <1>4, <3>2, CatEmpty DEF TranscriptInv, BufferHeld
        <4> QED
          BY <3>2, <4>1 DEF TranscriptInv, Bulleted
      <3> QED
        BY <3>1, <3>2
    <2> QED
      BY <1>1, <1>2, <1>5, <2>1, <2>2 DEF Bulleted
  <1> QED
    BY <1>6, <1>7, <1>8, <1>9, <1>10, <1>11 DEF TranscriptInv

\* A reply that is over has its bullet, whether it is typed out or printed.
LEMMA WholeLed ==
  ASSUME TranscriptInv, NEW u \in Asked \ (dropped \cup split)
  PROVE  /\ Led(Shown, u)
         /\ current = NoTurn \/ playbackActive \/ u # current => Led(Shown \o Buf, u)
  <1>1. Shown \in Seq(Items) /\ Buf \in Seq(Items)
    BY ItemTypes DEF TranscriptInv
  <1>2. CASE playbackActive
    BY <1>1, <1>2, CatLed DEF TranscriptInv, Bulleted
  <1>3. CASE ~playbackActive /\ current = NoTurn
    <2>1. Shown \o Buf = Shown
      BY <1>1, <1>3, CatEmpty DEF TranscriptInv, BufferHeld
    <2> QED
      BY <1>3, <2>1 DEF TranscriptInv, Bulleted
  <1>4. CASE ~playbackActive /\ current # NoTurn
    <2>1. Led(Shown, u)
      BY <1>4 DEF TranscriptInv, Bulleted
    <2>2. \A e \in ToSet(Buf) : e.of = current
      BY <1>4 DEF TranscriptInv, OfTurns
    <2>3. u # current => Led(Buf, u)
      BY <2>2 DEF Led, ToSet
    <2> QED
      BY <1>1, <1>4, <2>1, <2>3, CatLed
  <1> QED
    BY <1>2, <1>3, <1>4

LEMMA LedOne ==
  ASSUME NEW x \in Seq(Items), NEW k \in Items, k.what # "prose", NEW u, Led(x, u)
  PROVE  Led(x \o <<k>>, u)
  <1> DEFINE l == <<k>>
  <1>1. l \in Seq(Items) /\ Led(l, u)
    BY DEF Led
  <1> HIDE DEF l
  <1>2. Led(x \o l, u)
    BY <1>1, CatLed
  <1> QED
    BY <1>2 DEF l

LEMMA AskInVainStep ==
  ASSUME TranscriptInv, TranscriptTypeOK', NEW t \in Turns, AskInVain(t)
  PROVE  TranscriptInv'
  <1> DEFINE c == Chips \o <<Echo(t)>>
             y == Shown \o Buf
             z == y \o c
  <1>1. /\ UNCHANGED <<current, sent, toolOpen, queuedInputs, ticks, wiped, dropped, split, waited>>
        /\ pendingUserEcho' = <<>>
        /\ Question(t) /\ ~Waits /\ Marks' = Marks
        /\ CommitTurn(<<>>, Append(Echoes(Append(pendingUserEcho, t)), Chrome))
    BY DEF AskInVain, past, Marks
  <1>2. /\ Asked' = Asked \cup {t} /\ t \notin Asked /\ t = submitted + 1 /\ submitted' = t
        /\ submitted \in Nat /\ ~cancelled
        /\ Echo(t) \in Items /\ sent[t] = 0
        /\ Echoes(Append(pendingUserEcho, t)) = c
        /\ ToSet(c) = ToSet(Chips) \cup {Echo(t)}
    BY <1>1, AskTypes
  <1>3. current = NoTurn /\ queuedInputs = <<>> /\ ToSet(queuedInputs) = {}
    BY <1>1, <1>2, NotWaiting
  <1>4. Shown \in Seq(Items) /\ Buf \in Seq(Items) /\ Chips \in Seq(Items) /\ Chrome \in Items
    BY Pieces, ItemTypes DEF TranscriptInv
  <1>5. /\ y \in Seq(Items) /\ ToSet(y) = Written
        /\ c \in Seq(Items)
        /\ z \in Seq(Items) /\ ToSet(z) = Written \cup ToSet(c)
        /\ z \o <<Chrome>> \in Seq(Items)
        /\ ToSet(z \o <<Chrome>>) = Written \cup ToSet(c) \cup {Chrome}
    <2>1. y \in Seq(Items) /\ ToSet(y) = Written
      BY <1>4, CatSet DEF Written
    <2>2. c \in Seq(Items)
      BY <1>2, <1>4, CatOne
    <2> HIDE DEF y, c
    <2>3. z \in Seq(Items) /\ ToSet(z) = Written \cup ToSet(c)
      BY <2>1, <2>2, CatSet
    <2> HIDE DEF z
    <2> QED
      BY <1>4, <2>1, <2>2, <2>3, CatOne
  <1> HIDE DEF c, z
  <1>6. /\ Shown' = z \o <<Chrome>> /\ Buf' = <<>> /\ playbackActive' = FALSE
        /\ ToSet(Buf') = {} /\ Chips' = <<>> /\ ToSet(Chips') = {}
    <2> DEFINE a == Append(c, Chrome)
    <2>1. a = c \o <<Chrome>> /\ a \in Seq(Items) /\ <<Chrome>> \in Seq(Items)
      BY <1>4, <1>5
    <2>2. Append(Echoes(Append(pendingUserEcho, t)), Chrome) = a
      BY <1>2
    <2> HIDE DEF a
    <2>3. /\ Shown' = ((Shown \o <<>>) \o Buf) \o a
          /\ Buf' = <<>> /\ playbackActive' = FALSE
      BY <1>1, <2>1, <2>2, NoItems, CommitView DEF TranscriptInv
    <2>4. Shown \o <<>> = Shown
      BY <1>4, CatEmpty
    <2>5. Shown' = y \o a
      BY <2>3, <2>4
    <2> HIDE DEF y
    <2>6. y \o (c \o <<Chrome>>) = (y \o c) \o <<Chrome>>
      BY <1>5, <2>1, CatAssoc
    <2>7. Chips' = <<>>
      BY <1>1 DEF Chips, Echoes
    <2> QED
      BY <2>1, <2>3, <2>5, <2>6, <2>7, NoItems DEF z
  <1>7. PiecesFit'
    <2>1. Fit(y, <<>>, Chips, Marks)
      BY <1>4, FitCommit DEF TranscriptInv, PiecesFit
    <2> HIDE DEF y
    <2>2. \A e \in ToSet(y) \cup ToSet(<<>>) \cup ToSet(Chips) : Fine(e, Echo(t), Marks)
      BY <1>2, <1>5, QuestionsLast, NoItems
    <2>3. \A f \in ToSet(<<>>) : Fine(Echo(t), f, Marks)
      BY NoItems
    <2>4. Fit(y, <<>>, c, Marks)
      BY <1>2, <1>4, <1>5, <2>1, <2>2, <2>3, NoItems, FitChip DEF c
    <2>5. Fit(z, <<>>, <<>>, Marks)
      BY <1>5, <2>4, NoItems, FitFlush DEF z
    <2>6. \A e \in ToSet(z) : Fine(e, Chrome, Marks)
      BY <1>5, FineChrome DEF ToSet
    <2>7. Fit(z \o <<Chrome>>, <<>>, <<>>, Marks)
      BY <1>4, <1>5, <2>5, <2>6, NoItems, FitShow
    <2> QED
      BY <1>1, <1>6, <2>7 DEF PiecesFit
  <1>8. Chrome.what = "chrome" /\ Chrome.of = NoTurn /\ Echo(t).what = "echo" /\ Echo(t).of = t
    BY DEF Chrome, Echo
  <1>9. ToSet(Shown') = Written \cup ToSet(Chips) \cup {Echo(t), Chrome}
    BY <1>2, <1>5, <1>6
  <1>10. NothingLost'
    <2>1. \A e \in ToSet(Chips) : e.what = "echo"
      BY Pieces
    <2>2. \A u \in Asked' \ wiped' : Echo(u) \in ToSet(Shown')
      BY <1>1, <1>2, <1>9 DEF TranscriptInv, NothingLost, Written
    <2>3. \A u \in Asked' \ dropped', k \in Nat \ {0} : k <= sent'[u] =>
            \E e \in ToSet(Shown') : e.what \in Parts /\ e.of = u /\ e.n = k
      BY <1>1, <1>2, <1>9 DEF TranscriptInv, NothingLost, Written
    <2>4. \A e \in ToSet(Shown') : e.what \in Parts => e.n \in 1..sent'[e.of]
      BY <1>1, <1>8, <1>9, <2>1 DEF TranscriptInv, NothingLost, Written, Parts
    <2> QED
      BY <1>6, <2>2, <2>3, <2>4 DEF NothingLost
  <1>11. OfTurns'
    <2>1. \A e \in Written \cup ToSet(Chips) : e.of \in Nat /\ e.of <= submitted /\ e.of <= t
      BY <1>2, Pieces
    <2>2. /\ \A e \in Written : e.what = "echo" => e.of \in Asked
          /\ \A e \in Written : e.what \in OfReply => e.of \in Asked
      BY DEF TranscriptInv, OfTurns, Written
    <2>3. \A e \in ToSet(Chips) : e.what = "echo" /\ e.of \in Asked
      BY Pieces
    <2>4. \A e \in ToSet(Shown') : /\ e.of <= submitted'
                                   /\ e.what = "echo" => e.of \in Asked'
                                   /\ e.what \in OfReply => e.of \in Asked'
      BY <1>2, <1>8, <1>9, <2>1, <2>2, <2>3 DEF OfReply, Parts, NoTurn
    <2> QED
      BY <1>1, <1>3, <1>6, <2>4, NoItems DEF OfTurns
  <1>12. QueueInOrder'
    <2>1. \A u \in Turns : u > submitted' => sent'[u] = 0
      <3>1. \A u \in Turns : u > t => u > submitted
        BY <1>2 DEF Turns
      <3> QED
        BY <1>1, <1>2, <3>1 DEF TranscriptInv, QueueInOrder
    <2>2. \A i, j \in DOMAIN queuedInputs' : i < j => queuedInputs'[i] < queuedInputs'[j]
      BY <1>1, <1>3
    <2> QED
      BY <1>1, <1>3, <2>1, <2>2 DEF QueueInOrder
  <1>13. BufferHeld'
    BY <1>1, <1>3, <1>6 DEF BufferHeld
  <1>14. Bulleted'
    <2>1. Led(y, t)
      BY <1>2, NothingBefore
    <2>2. \A u \in Asked' \ (dropped' \cup split') : Led(y, u)
      BY <1>1, <1>2, <1>3, <2>1, WholeLed
    <2>3. \A u : Led(c, u)
      <3>1. \A e \in ToSet(c) : e.what = "echo"
        BY <1>2, <1>8, Pieces
      <3> QED
        BY <3>1 DEF Led, ToSet
    <2> HIDE DEF y
    <2>4. \A u \in Asked' \ (dropped' \cup split') : Led(z, u)
      BY <1>5, <2>2, <2>3, CatLed DEF z
    <2>5. \A u \in Asked' \ (dropped' \cup split') : Led(z \o <<Chrome>>, u)
      BY <1>4, <1>5, <1>8, <2>4, LedOne
    <2> QED
      BY <1>1, <1>3, <1>6, <2>5 DEF Bulleted
  <1> QED
    BY <1>7, <1>10, <1>11, <1>12, <1>13, <1>14 DEF TranscriptInv

LEMMA SlashStep ==
  ASSUME TranscriptInv, TranscriptTypeOK', SlashCommand
  PROVE  TranscriptInv'
  <1> DEFINE y == Shown \o Buf
  <1>1. /\ UNCHANGED <<submitted, current, sent, toolOpen, queuedInputs, pendingUserEcho,
                       ticks, wiped, dropped, waited>>
        /\ CommitTurn(<<>>, <<Chrome>>)
        /\ split' = IF current = NoTurn THEN split ELSE split \cup {current}
        /\ Weaker(Marks, Marks') /\ Asked' = Asked /\ Chips' = Chips
    BY DEF SlashCommand, Weaker, Marks, Asked, Chips
  <1>2. /\ Shown \in Seq(Items) /\ Buf \in Seq(Items) /\ Chips \in Seq(Items) /\ Chrome \in Items
        /\ submitted \in Nat
    BY Pieces, ItemTypes DEF TranscriptInv
  <1>3. y \in Seq(Items) /\ ToSet(y) = Written
    BY <1>2, CatSet DEF Written
  <1>4. /\ y \o <<Chrome>> \in Seq(Items)
        /\ ToSet(y \o <<Chrome>>) = Written \cup {Chrome}
    <2> HIDE DEF y
    <2> QED
      BY <1>2, <1>3, CatOne
  <1>5. /\ Shown' = y \o <<Chrome>> /\ Buf' = <<>> /\ playbackActive' = FALSE
        /\ ToSet(Buf') = {}
    <2>1. <<Chrome>> \in Seq(Items)
      BY <1>2
    <2>2. /\ Shown' = ((Shown \o <<>>) \o Buf) \o <<Chrome>>
          /\ Buf' = <<>> /\ playbackActive' = FALSE
      BY <1>1, <2>1, NoItems, CommitView DEF TranscriptInv
    <2>3. Shown \o <<>> = Shown
      BY <1>2, CatEmpty
    <2> QED
      BY <2>2, <2>3, NoItems
  <1>6. ToSet(Shown') = Written \cup {Chrome}
    BY <1>4, <1>5
  <1>7. Chrome.what = "chrome" /\ Chrome.of = NoTurn
    BY DEF Chrome
  <1>8. PiecesFit'
    <2> DEFINE g == Marks'
    <2> HIDE DEF g
    <2>1. Fit(Shown, Buf, Chips, g)
      BY <1>1, FitWeaker DEF TranscriptInv, PiecesFit, g
    <2>2. Fit(y, <<>>, Chips, g)
      BY <1>2, <2>1, FitCommit
    <2> HIDE DEF y
    <2>3. /\ \A e \in ToSet(y) : Fine(e, Chrome, g)
          /\ \A e \in ToSet(Chips) : Fine(Chrome, e, g)
      BY <1>2, <1>3, FineChrome DEF ToSet
    <2>4. Fit(y \o <<Chrome>>, <<>>, Chips, g)
      BY <1>2, <1>3, <2>2, <2>3, FitShow
    <2> QED
      BY <1>1, <1>5, <2>4 DEF PiecesFit, g
  <1>9. NothingLost'
    <2>1. \A u \in Asked' \ wiped' : Echo(u) \in ToSet(Shown') \cup ToSet(Chips')
      BY <1>1, <1>6 DEF TranscriptInv, NothingLost, Written
    <2>2. \A u \in Asked' \ dropped', k \in Nat \ {0} : k <= sent'[u] =>
            \E e \in ToSet(Shown') : e.what \in Parts /\ e.of = u /\ e.n = k
      BY <1>1, <1>6 DEF TranscriptInv, NothingLost, Written
    <2>3. \A e \in ToSet(Shown') : e.what \in Parts => e.n \in 1..sent'[e.of]
      BY <1>1, <1>6, <1>7 DEF TranscriptInv, NothingLost, Written, Parts
    <2> QED
      BY <1>5, <2>1, <2>2, <2>3 DEF NothingLost
  <1>10. OfTurns'
    <2>1. \A e \in ToSet(Shown') :
            e \in Written \/ (e.of <= submitted /\ e.what # "echo" /\ e.what \notin OfReply)
      BY <1>2, <1>6, <1>7 DEF OfReply, Parts, NoTurn
    <2> QED
      BY <1>1, <1>5, <2>1, NoItems DEF TranscriptInv, OfTurns, Written
  <1>11. QueueInOrder'
    BY <1>1 DEF TranscriptInv, QueueInOrder
  <1>12. BufferHeld'
    BY <1>1, <1>5 DEF TranscriptInv, BufferHeld
  <1>13. Bulleted'
    <2>1. \A u \in Asked \ (dropped \cup split') : Led(y, u)
      BY <1>1, WholeLed
    <2> HIDE DEF y
    <2>2. \A u \in Asked \ (dropped \cup split') : Led(y \o <<Chrome>>, u)
      BY <1>2, <1>3, <1>7, <2>1, LedOne
    <2> QED
      BY <1>1, <1>5, <2>2 DEF Bulleted
  <1> QED
    BY <1>8, <1>9, <1>10, <1>11, <1>12, <1>13 DEF TranscriptInv

LEMMA NoChips ==
  ASSUME pendingUserEcho' = <<>>
  PROVE  Chips' = <<>> /\ ToSet(Chips') = {}
  BY NoItems DEF Chips, Echoes

LEMMA Flushed ==
  ASSUME TranscriptInv
  PROVE  /\ FlushPendingUserEcho = Chips /\ ChipsKept = Chips
         /\ Shown \o Chips \in Seq(Items) /\ ToSet(Shown \o Chips) = ToSet(Shown) \cup ToSet(Chips)
         /\ \A u : Led(Shown, u) => Led(Shown \o Chips, u)
  <1>1. Shown \in Seq(Items) /\ Chips \in Seq(Items)
    BY Pieces, ItemTypes DEF TranscriptInv
  <1>2. \A e \in ToSet(Chips) : e.what = "echo"
    BY Pieces
  <1>3. \A u : Led(Chips, u)
    BY <1>2 DEF Led, ToSet
  <1>4. \A u : Led(Shown, u) => Led(Shown \o Chips, u)
    BY <1>1, <1>3, CatLed
  <1>5. ToSet(Shown \o Chips) = ToSet(Shown) \cup ToSet(Chips)
    BY <1>1, CatSet
  <1> QED
    BY <1>1, <1>4, <1>5 DEF FlushPendingUserEcho, ChipsKept, Chips

LEMMA CancelStep ==
  ASSUME TranscriptInv, TranscriptTypeOK', Cancel
  PROVE  TranscriptInv'
  <1> DEFINE y == Shown \o Chips
  <1>1. /\ UNCHANGED <<submitted, current, sent, toolOpen, ticks, wiped, waited, split>>
        /\ queuedInputs' = <<>> /\ pendingUserEcho' = <<>> /\ Buf' = <<>>
        /\ playbackActive' = FALSE
        /\ dropped' = dropped \cup Buffered \cup InFlight
        /\ Weaker(Marks, Marks') /\ Asked' = Asked
    BY DEF Cancel, Weaker, Marks, Asked, Buf
  <1>2. Chips' = <<>> /\ ToSet(Chips') = {} /\ ToSet(Buf') = {} /\ ToSet(queuedInputs') = {}
    BY <1>1, NoChips, NoItems
  <1>3. /\ Shown \in Seq(Items) /\ Buf \in Seq(Items) /\ Chips \in Seq(Items)
        /\ y \in Seq(Items) /\ ToSet(y) = ToSet(Shown) \cup ToSet(Chips)
    BY Flushed, Pieces, ItemTypes DEF TranscriptInv
  <1>4. Shown' = y
    <2>1. scroll' = Shown \o Chips /\ live' = <<>>
      BY Flushed DEF Cancel, Shown
    <2> HIDE DEF y
    <2>2. y \o <<>> = y
      BY <1>3, CatEmpty
    <2>3. Shown' = scroll' \o live'
      BY DEF Shown
    <2> QED
      BY <2>1, <2>2, <2>3 DEF y
  <1>5. current # NoTurn => current \in dropped'
    BY <1>1 DEF InFlight
  <1>6. \A e \in ToSet(Buf) : e.of \in dropped'
    BY <1>1 DEF Buffered, Buf, ToSet
  <1>7. PiecesFit'
    <2> DEFINE g == Marks'
    <2> HIDE DEF g
    <2>1. Fit(Shown, Buf, Chips, g)
      BY <1>1, FitWeaker DEF TranscriptInv, PiecesFit, g
    <2>2. Fit(y, Buf, <<>>, g)
      BY <1>3, <2>1, FitFlush
    <2> HIDE DEF y
    <2>3. Fit(y, <<>>, <<>>, g)
      BY <1>3, <2>2, NoItems, FitDrop
    <2> QED
      BY <1>1, <1>2, <1>4, <2>3 DEF PiecesFit, g
  <1>8. NothingLost'
    <2>1. \A e \in ToSet(Chips) : e.what = "echo"
      BY Pieces
    <2>2. \A u \in Asked' \ wiped' : Echo(u) \in ToSet(Shown')
      BY <1>1, <1>3, <1>4 DEF TranscriptInv, NothingLost
    <2>3. \A u \in Asked' \ dropped', k \in Nat \ {0} : k <= sent'[u] =>
            \E e \in ToSet(Shown') : e.what \in Parts /\ e.of = u /\ e.n = k
      <3> SUFFICES ASSUME NEW u \in Asked' \ dropped', NEW k \in Nat \ {0}, k <= sent'[u]
                   PROVE  \E e \in ToSet(Shown') : e.what \in Parts /\ e.of = u /\ e.n = k
        OBVIOUS
      <3>1. u \in Asked \ dropped /\ k <= sent[u]
        BY <1>1
      <3>2. PICK e \in Written : e.what \in Parts /\ e.of = u /\ e.n = k
        BY <3>1 DEF TranscriptInv, NothingLost, Written
      <3> QED
        BY <1>3, <1>4, <1>6, <3>2 DEF Written
    <2>4. \A e \in ToSet(Shown') : e.what \in Parts => e.n \in 1..sent'[e.of]
      BY <1>1, <1>3, <1>4, <2>1 DEF TranscriptInv, NothingLost, Parts
    <2> QED
      BY <1>2, <2>2, <2>3, <2>4 DEF NothingLost
  <1>9. OfTurns'
    <2>1. \A e \in ToSet(Chips) : e.what = "echo" /\ e.of \in Asked /\ e.of <= submitted
      BY Pieces
    <2> QED
      BY <1>1, <1>2, <1>3, <1>4, <2>1, NoItems DEF TranscriptInv, OfTurns, OfReply, Parts
  <1>10. QueueInOrder'
    <2>1. \A i, j \in DOMAIN queuedInputs' : i < j => queuedInputs'[i] < queuedInputs'[j]
      BY <1>1
    <2> QED
      BY <1>1, <1>2, <2>1 DEF TranscriptInv, QueueInOrder
  <1>11. BufferHeld'
    BY <1>1 DEF TranscriptInv, BufferHeld
  <1>12. Bulleted'
    <2>1. \A u \in Asked' \ (dropped' \cup split') : Led(y, u)
      BY <1>1, WholeLed, Flushed
    <2> HIDE DEF y
    <2> QED
      BY <1>1, <1>4, <1>5, <2>1 DEF Bulleted
  <1> QED
    BY <1>7, <1>8, <1>9, <1>10, <1>11, <1>12 DEF TranscriptInv

LEMMA ClearStep ==
  ASSUME TranscriptInv, TranscriptTypeOK', ClearScreen
  PROVE  TranscriptInv'
  <1>1. /\ UNCHANGED <<submitted, current, sent, toolOpen, ticks, waited, split, scroll>>
        /\ queuedInputs' = <<>> /\ pendingUserEcho' = <<>> /\ Buf' = <<>> /\ live' = <<>>
        /\ playbackActive' = FALSE
        /\ dropped' = Asked /\ wiped' = Asked /\ Asked' = Asked
    BY DEF ClearScreen, Asked, Buf
  <1>2. Chips' = <<>> /\ ToSet(Chips') = {} /\ ToSet(Buf') = {} /\ ToSet(queuedInputs') = {}
    BY <1>1, NoChips, NoItems
  <1>3. scroll \in Seq(Items) /\ live \in Seq(Items) /\ Shown = scroll \o live
    BY ItemTypes DEF TranscriptInv, Shown
  <1>4. Shown' = scroll /\ ToSet(Shown') \subseteq ToSet(Shown)
    <2>1. Shown' = scroll \o <<>>
      BY <1>1 DEF Shown
    <2>2. scroll \o <<>> = scroll
      BY <1>3, CatEmpty
    <2>3. ToSet(scroll \o live) = ToSet(scroll) \cup ToSet(live)
      BY <1>3, CatSet
    <2> QED
      BY <1>3, <2>1, <2>2, <2>3
  <1>5. current # NoTurn => current \in dropped'
    BY <1>1, ItemTypes DEF TranscriptInv
  <1>6. PiecesFit'
    <2> DEFINE g == Marks'
    <2> HIDE DEF g
    <2>1. Weaker(Marks, Marks')
      BY <1>1 DEF Weaker, Marks, TranscriptInv, TranscriptTypeOK, Asked
    <2>2. Fit(scroll \o live, Buf, Chips, g)
      BY <1>3, <2>1, FitWeaker DEF TranscriptInv, PiecesFit, g
    <2>3. Fit(scroll, <<>>, <<>>, g)
      BY <1>3, <2>2, FitPrefix
    <2> QED
      BY <1>1, <1>2, <1>4, <2>3 DEF PiecesFit, g
  <1>7. NothingLost'
    BY <1>1, <1>2, <1>4 DEF TranscriptInv, NothingLost
  <1>8. OfTurns'
    BY <1>1, <1>2, <1>4, NoItems DEF TranscriptInv, OfTurns
  <1>9. QueueInOrder'
    <2>1. \A i, j \in DOMAIN queuedInputs' : i < j => queuedInputs'[i] < queuedInputs'[j]
      BY <1>1
    <2> QED
      BY <1>1, <1>2, <2>1 DEF TranscriptInv, QueueInOrder
  <1>10. BufferHeld'
    BY <1>1 DEF TranscriptInv, BufferHeld
  <1>11. Bulleted'
    BY <1>1, <1>5 DEF Bulleted
  <1> QED
    BY <1>6, <1>7, <1>8, <1>9, <1>10, <1>11 DEF TranscriptInv

-----------------------------------------------------------------------------
(* The events of a run.                                                    *)

\* What a run sends is counted, and comes to stand behind all there is, be it
\* on the screen or in the buffer.
LEMMA SentStep ==
  ASSUME TranscriptInv, NEW what \in Parts, Sends(what),
         \A e \in Written \cup ToSet(Chips) \cup {Item(what, current)} : e \in Written',
         \A e \in Written' : e \in Written \cup ToSet(Chips) \cup {Item(what, current), Bullet(current)},
         \A e \in ToSet(Buf') : e.what = "prose" /\ e.of = current
  PROVE  NothingLost' /\ OfTurns' /\ QueueInOrder'
  <1> DEFINE k == Item(what, current)
             b == Bullet(current)
  <1>1. /\ UNCHANGED <<submitted, current, queuedInputs, wiped, dropped, waited, split>>
        /\ pendingUserEcho' = <<>> /\ Asked' = Asked
        /\ sent' = [sent EXCEPT ![current] = @ + 1] /\ current # NoTurn
    BY DEF Sends, past, Asked
  <1>2. /\ current \in Asked /\ current \in Turns /\ sent[current] \in Nat /\ Asked \subseteq Turns
        /\ submitted \in Nat /\ sent \in [Turns -> Nat]
    <2>1. sent \in [Turns -> Nat]
      BY DEF TranscriptInv, TranscriptTypeOK
    <2> QED
      BY <1>1, <2>1, ItemTypes DEF TranscriptInv
  <1>3. /\ sent'[current] = sent[current] + 1
        /\ \A t \in Turns : t # current => sent'[t] = sent[t]
    BY <1>1, <1>2
  <1>4. ToSet(Chips') = {} /\ ToSet(pendingUserEcho') = {}
    BY <1>1, NoChips, NoItems
  <1>5. /\ k.what = what /\ k.of = current /\ k.n = sent[current] + 1
        /\ b.what = "bullet" /\ b.of = current
    BY DEF Item, Bullet
  <1>6. \A e \in Written' : e \in Written \cup ToSet(Chips) \/ e = k \/ e = b
    OBVIOUS
  <1>7. k \in Written'
    OBVIOUS
  <1>8. \A e \in Written \cup ToSet(Chips) : e \in Written'
    OBVIOUS
  <1> HIDE DEF k, b
  <1>9. NothingLost'
    <2>1. \A u \in Asked \ wiped : Echo(u) \in Written'
      BY <1>8 DEF TranscriptInv, NothingLost, Written
    <2>2. ASSUME NEW u \in Asked \ dropped, NEW n \in Nat \ {0}, n <= sent'[u]
          PROVE  \E e \in Written' : e.what \in Parts /\ e.of = u /\ e.n = n
      <3>1. CASE n <= sent[u]
        <4>1. PICK e \in Written : e.what \in Parts /\ e.of = u /\ e.n = n
          BY <3>1 DEF TranscriptInv, NothingLost, Written
        <4> QED
          BY <1>8, <4>1
      <3>2. CASE ~(n <= sent[u])
        <4>1. u = current /\ n = sent[current] + 1
          BY <1>2, <1>3, <2>2, <3>2
        <4> QED
          BY <1>5, <1>7, <4>1
      <3> QED
        BY <3>1, <3>2
    <2>3. ASSUME NEW e \in Written', e.what \in Parts PROVE e.n \in 1..sent'[e.of]
      <3>1. CASE e \in Written
        <4>1. e.n \in 1..sent[e.of]
          BY <2>3, <3>1 DEF TranscriptInv, NothingLost, Written
        <4>2. e.of \in Turns
          <5>1. e.what \in OfReply => e.of \in Asked
            BY <3>1 DEF TranscriptInv, OfTurns, Written
          <5> QED
            BY <1>2, <2>3, <5>1 DEF OfReply
        <4> QED
          BY <1>2, <1>3, <4>1, <4>2
      <3>2. CASE e = k
        BY <1>2, <1>3, <1>5, <3>2
      <3>3. e \notin ToSet(Chips) /\ e # b
        BY <1>5, <2>3, Pieces DEF Parts
      <3> QED
        BY <1>6, <3>1, <3>2, <3>3
    <2>4. \A u \in Asked' \ dropped', n \in Nat \ {0} : n <= sent'[u] =>
            \E e \in Written' : e.what \in Parts /\ e.of = u /\ e.n = n
      BY <1>1, <2>2
    <2>5. \A e \in Written' : e.what \in Parts => e.n \in 1..sent'[e.of]
      BY <2>3
    <2>6. /\ \A u \in Asked' \ wiped' : Echo(u) \in ToSet(Shown') \cup ToSet(Chips')
      <3>1. \A u : Echo(u).what = "echo"
        BY DEF Echo
      <3> QED
        BY <1>1, <2>1, <3>1 DEF Written
    <2> QED
      BY <2>4, <2>5, <2>6 DEF NothingLost, Written
  <1>10. OfTurns'
    <2>1. /\ \A e \in Written : e.of <= submitted
          /\ \A e \in Written : e.what = "echo" => e.of \in Asked
          /\ \A e \in Written : e.what \in OfReply =>
               e.of \in Asked /\ e.of <= current /\ \A u \in ToSet(queuedInputs) : e.of < u
      BY <1>1 DEF TranscriptInv, OfTurns, Written
    <2>2. \A e \in ToSet(Chips) : e.what = "echo" /\ e.of \in Asked /\ e.of <= submitted
      BY Pieces
    <2>3. \A u \in ToSet(queuedInputs) : current < u
      BY DEF TranscriptInv, QueueInOrder
    <2>4. current <= current /\ current <= submitted
      BY <1>2 DEF Asked, Turns
    <2>5. \A e \in Written' :
            /\ e.of <= submitted
            /\ e.what = "echo" => e.of \in Asked
            /\ e.what \in OfReply =>
               e.of \in Asked /\ e.of <= current /\ \A u \in ToSet(queuedInputs) : e.of < u
      <3> SUFFICES ASSUME NEW e \in Written'
                   PROVE  /\ e.of <= submitted
                          /\ e.what = "echo" => e.of \in Asked
                          /\ e.what \in OfReply =>
                             e.of \in Asked /\ e.of <= current /\ \A u \in ToSet(queuedInputs) : e.of < u
        OBVIOUS
      <3>1. CASE e \in Written
        BY <2>1, <3>1
      <3>2. CASE e \in ToSet(Chips)
        BY <2>2, <3>2 DEF OfReply, Parts
      <3>3. CASE e = k \/ e = b
        BY <1>2, <1>5, <2>3, <2>4, <3>3
      <3> QED
        BY <1>6, <3>1, <3>2, <3>3
    <2> QED
      BY <1>1, <1>4, <2>5 DEF OfTurns, Written
  <1>11. QueueInOrder'
    <2>1. \A u \in ToSet(queuedInputs) : sent'[u] = 0
      <3>1. \A u \in ToSet(queuedInputs) : u \in Asked /\ current < u /\ sent[u] = 0
        BY DEF TranscriptInv, QueueInOrder
      <3>2. \A u \in Turns : u \in Nat
        BY ItemTypes DEF TranscriptInv
      <3> QED
        BY <1>2, <1>3, <3>1, <3>2
    <2>2. \A u \in Turns : u > submitted => sent'[u] = 0
      <3>1. \A u \in Turns : u > submitted => u # current
        BY <1>2 DEF Asked, Turns
      <3> QED
        BY <1>3, <3>1 DEF TranscriptInv, QueueInOrder
    <2> QED
      BY <1>1, <2>1, <2>2 DEF TranscriptInv, QueueInOrder
  <1> QED
    BY <1>9, <1>10, <1>11

\* What is put behind the viewport is put behind the screen.
LEMMA LiveView ==
  ASSUME TranscriptTypeOK, NEW a \in Seq(Items)
  PROVE  scroll \o (live \o a) = Shown \o a /\ live \o a \in Seq(Items)
  BY ItemTypes, CatAssoc DEF Shown

LEMMA SentItem ==
  ASSUME TranscriptInv, NEW what \in Parts, Sends(what)
  PROVE  /\ current # NoTurn /\ current \in Turns /\ current \in Asked
         /\ UNCHANGED <<submitted, current, scroll, ticks, playbackActive, dropped, split>>
         /\ ~playbackActive /\ Chips' = <<>> /\ Marks' = Marks /\ Asked' = Asked
         /\ Item(what, current) \in Items /\ Item(what, current).what = what
         /\ \A e \in Written \cup ToSet(Chips) : Fine(e, Item(what, current), Marks)
         /\ \A u \in Asked \ (dropped \cup split) : Led(Shown, u)
         /\ current \notin dropped \cup split =>
              (assistantTurnStarted <=> Bullet(current) \in ToSet(Shown))
         /\ Bullet(current) \in Items /\ Bullet(current).what = "bullet"
  <1>1. /\ UNCHANGED <<submitted, current, scroll, ticks, playbackActive, dropped, split>>
        /\ Marks' = Marks /\ Asked' = Asked /\ current # NoTurn /\ pendingUserEcho' = <<>>
    BY DEF Sends, past, Marks, Asked
  <1>2. /\ current \in Turns /\ current \in Asked /\ Item(what, current) \in Items
        /\ Bullet(current) \in Items
    BY <1>1, ItemTypes DEF TranscriptInv
  <1>3. ~playbackActive /\ Chips' = <<>>
    BY <1>1, NoChips DEF TranscriptInv, BufferHeld
  <1>4. /\ Item(what, current).what = what /\ Item(what, current).of = current
        /\ Item(what, current).n = sent[current] + 1
        /\ IsReply(Item(what, current)) /\ Bullet(current).what = "bullet"
    BY DEF Item, IsReply, Bullet
  <1>5. \A e \in Written \cup ToSet(Chips) : Fine(e, Item(what, current), Marks)
    BY <1>1, <1>2, <1>4, RepliesLast
  <1>6. /\ \A u \in Asked \ (dropped \cup split) : Led(Shown, u)
        /\ current \notin dropped \cup split =>
             (assistantTurnStarted <=> Bullet(current) \in ToSet(Shown))
    BY <1>1, <1>3 DEF TranscriptInv, Bulleted
  <1> QED
    BY <1>1, <1>2, <1>3, <1>4, <1>5, <1>6

LEMMA TokenStep ==
  ASSUME TranscriptInv, TranscriptTypeOK', Token
  PROVE  TranscriptInv'
  <1> DEFINE k == Item("prose", current)
             y == Shown \o Chips
  <1>1. /\ ~toolOpen /\ Sends("prose") /\ "prose" \in Parts
        /\ live' = live \o Chips /\ Buf' = Append(Buf, k)
        /\ UNCHANGED <<toolOpen, assistantTurnStarted>>
    BY Flushed DEF Token, Buf, Parts
  <1>2. /\ current # NoTurn /\ current \in Turns /\ current \in Asked
        /\ UNCHANGED <<submitted, current, scroll, ticks, playbackActive, dropped, split>>
        /\ ~playbackActive /\ Chips' = <<>> /\ Marks' = Marks /\ Asked' = Asked
        /\ k \in Items /\ k.what = "prose" /\ k.of = current
        /\ \A e \in Written \cup ToSet(Chips) : Fine(e, k, Marks)
        /\ \A u \in Asked \ (dropped \cup split) : Led(Shown, u)
        /\ current \notin dropped \cup split =>
             (assistantTurnStarted <=> Bullet(current) \in ToSet(Shown))
        /\ Bullet(current).what = "bullet"
    BY <1>1, SentItem DEF Item
  <1>3. /\ Shown \in Seq(Items) /\ Buf \in Seq(Items) /\ Chips \in Seq(Items)
        /\ y \in Seq(Items) /\ ToSet(y) = ToSet(Shown) \cup ToSet(Chips)
    BY Flushed, Pieces, ItemTypes DEF TranscriptInv
  <1>4. Shown' = y
    BY <1>1, <1>2, <1>3, LiveView DEF TranscriptInv, Shown
  <1> HIDE DEF k
  <1>5. /\ Buf' = Buf \o <<k>> /\ ToSet(Buf') = ToSet(Buf) \cup {k} /\ Buf' # <<>>
    <2>1. Buf' = Buf \o <<k>> /\ Buf' # <<>>
      BY <1>1, <1>2, <1>3
    <2>2. ToSet(Buf \o <<k>>) = ToSet(Buf) \cup {k}
      BY <1>2, <1>3, CatOne
    <2> QED
      BY <2>1, <2>2
  <1>6. \A e \in ToSet(Buf') : e.what = "prose" /\ e.of = current
    BY <1>2, <1>5 DEF TranscriptInv, OfTurns
  <1>7. NothingLost' /\ OfTurns' /\ QueueInOrder'
    <2>1. Written' = Written \cup ToSet(Chips) \cup {k}
      BY <1>3, <1>4, <1>5 DEF Written
    <2> QED
      BY <1>1, <1>6, <2>1, SentStep DEF k
  <1>8. PiecesFit'
    <2>1. Fit(y, Buf, <<>>, Marks)
      BY <1>3, FitFlush DEF TranscriptInv, PiecesFit
    <2> HIDE DEF y
    <2>2. \A e \in ToSet(y) \cup ToSet(Buf) : Fine(e, k, Marks)
      BY <1>2, <1>3 DEF Written
    <2>3. Fit(y, Buf \o <<k>>, <<>>, Marks)
      BY <1>2, <1>3, <2>1, <2>2, FitBuffer
    <2> QED
      BY <1>2, <1>4, <1>5, <2>3 DEF PiecesFit
  <1>9. BufferHeld'
    BY <1>1, <1>2 DEF BufferHeld
  <1>10. Bulleted'
    <2>1. \A u \in Asked \ (dropped \cup split) : Led(y, u)
      BY <1>2, Flushed
    <2>2. Bullet(current) \in ToSet(y) <=> Bullet(current) \in ToSet(Shown)
      BY <1>2, <1>3, Pieces
    <2> HIDE DEF y
    <2> QED
      BY <1>1, <1>2, <1>4, <2>1, <2>2 DEF Bulleted
  <1> QED
    BY <1>7, <1>8, <1>9, <1>10 DEF TranscriptInv

\* A tool shows the prose that introduces it, and stands behind it.
LEMMA ToolBeginStep ==
  ASSUME TranscriptInv, TranscriptTypeOK', ToolBegin
  PROVE  TranscriptInv'
  <1> DEFINE k == Item("tool", current)
             y == Shown \o Chips
             z == y \o Drained
  <1>1. /\ ~toolOpen /\ Sends("tool") /\ "tool" \in Parts
        /\ live' = ((live \o Chips) \o Drained) \o <<k>> /\ Buf' = <<>>
        /\ assistantTurnStarted' = (assistantTurnStarted \/ Buf # <<>>)
    BY Flushed DEF ToolBegin, Buf, Parts, Drained, DrainForTool
  <1>2. /\ current # NoTurn /\ current \in Turns /\ current \in Asked
        /\ UNCHANGED <<submitted, current, scroll, ticks, playbackActive, dropped, split>>
        /\ ~playbackActive /\ Chips' = <<>> /\ Marks' = Marks /\ Asked' = Asked
        /\ k \in Items /\ k.what = "tool"
        /\ \A e \in Written \cup ToSet(Chips) : Fine(e, k, Marks)
        /\ current \notin dropped \cup split =>
             (assistantTurnStarted <=> Bullet(current) \in ToSet(Shown))
        /\ Bullet(current) \in Items /\ Bullet(current).what = "bullet"
    BY <1>1, SentItem
  <1>3. /\ Shown \in Seq(Items) /\ Buf \in Seq(Items) /\ Chips \in Seq(Items)
        /\ y \in Seq(Items) /\ ToSet(y) = ToSet(Shown) \cup ToSet(Chips)
    BY Flushed, Pieces, ItemTypes DEF TranscriptInv
  <1>4. /\ Drained \in Seq(Items)
        /\ ToSet(Buf) \subseteq ToSet(Drained)
        /\ ToSet(Drained) \subseteq ToSet(Buf) \cup {Bullet(current)}
        /\ Buf # <<>> /\ ~assistantTurnStarted => Bullet(current) \in ToSet(Drained)
        /\ Fit(y, Drained, <<>>, Marks)
        /\ \A u \in Asked \ (dropped \cup split) : Led(z, u)
    BY <1>2, DrainFits
  <1> HIDE DEF k, y
  <1>5. z \in Seq(Items) /\ ToSet(z) = ToSet(y) \cup ToSet(Drained)
    BY <1>3, <1>4, CatSet
  <1> HIDE DEF z
  <1>6. z \o <<k>> \in Seq(Items) /\ ToSet(z \o <<k>>) = ToSet(z) \cup {k}
    BY <1>2, <1>5, CatOne
  <1>7. Shown' = z \o <<k>>
    <2> DEFINE l == <<k>>
    <2>1. l \in Seq(Items)
      BY <1>2
    <2> HIDE DEF l
    <2>2. live \in Seq(Items) /\ scroll \in Seq(Items) /\ TranscriptTypeOK
      BY ItemTypes DEF TranscriptInv
    <2>3. /\ live \in Seq(Items) /\ Shown \in Seq(Items) /\ Chips \in Seq(Items)
          /\ Drained \in Seq(Items) /\ l \in Seq(Items)
      BY <1>3, <1>4, <2>1, <2>2
    <2> DEFINE d == Chips \o Drained
               c == d \o l
    <2>4. (live \o Chips) \o Drained = live \o d
      <3>1. Assoc(live, Chips, Drained)
        BY <2>3, CatFolded
      <3> QED
        BY <3>1 DEF Assoc
    <2>5. (Shown \o Chips) \o Drained = Shown \o d
      <3>1. Assoc(Shown, Chips, Drained)
        BY <2>3, CatFolded
      <3> QED
        BY <3>1 DEF Assoc
    <2>6. d \in Seq(Items)
      BY <2>3
    <2> HIDE DEF d
    <2>7. (live \o d) \o l = live \o c
      <3>1. Assoc(live, d, l)
        BY <2>3, <2>6, CatFolded
      <3> QED
        BY <3>1 DEF Assoc
    <2>8. (Shown \o d) \o l = Shown \o c
      <3>1. Assoc(Shown, d, l)
        BY <2>3, <2>6, CatFolded
      <3> QED
        BY <3>1 DEF Assoc
    <2>9. c \in Seq(Items)
      BY <2>3, <2>6
    <2> HIDE DEF c
    <2>10. live' = live \o c /\ scroll' = scroll
      BY <1>1, <1>2, <2>4, <2>7 DEF l
    <2>11. Shown' = Shown \o c
      BY <2>2, <2>9, <2>10, LiveView DEF Shown
    <2> QED
      BY <2>5, <2>8, <2>11 DEF l, y, z
  <1>8. ToSet(Buf') = {} /\ ToSet(Shown') = ToSet(y) \cup ToSet(Drained) \cup {k}
    BY <1>1, <1>5, <1>6, <1>7, NoItems
  <1>9. NothingLost' /\ OfTurns' /\ QueueInOrder'
    <2>1. \A e \in Written \cup ToSet(Chips) \cup {k} : e \in Written'
      BY <1>3, <1>4, <1>8 DEF Written
    <2>2. \A e \in Written' : e \in Written \cup ToSet(Chips) \cup {k, Bullet(current)}
      BY <1>3, <1>4, <1>8 DEF Written
    <2> QED
      BY <1>1, <1>8, <2>1, <2>2, SentStep DEF k
  <1>10. PiecesFit'
    <2>1. Fit(z, <<>>, <<>>, Marks)
      BY <1>3, <1>4, NoItems, FitCommit DEF z
    <2>2. \A e \in ToSet(z) : Fine(e, k, Marks)
      <3>1. Fine(Bullet(current), k, Marks)
        BY <1>2 DEF Fine, IsReply, Parts, Echo, Bullet
      <3> QED
        BY <1>2, <1>3, <1>4, <1>5, <3>1 DEF Written
    <2>3. Fit(z \o <<k>>, <<>>, <<>>, Marks)
      BY <1>2, <1>5, <2>1, <2>2, NoItems, FitShow
    <2> QED
      BY <1>1, <1>2, <1>7, <2>3 DEF PiecesFit
  <1>11. BufferHeld'
    BY <1>1, <1>2 DEF BufferHeld
  <1>12. Bulleted'
    <2>1. \A u \in Asked \ (dropped \cup split) : Led(Shown', u)
      BY <1>2, <1>4, <1>5, <1>7, LedOne
    <2>2. current \notin dropped \cup split =>
            (assistantTurnStarted' <=> Bullet(current) \in ToSet(Shown'))
      <3>1. Bullet(current) \notin ToSet(Chips) /\ Bullet(current) # k
        BY <1>2, Pieces
      <3>2. \A e \in ToSet(Buf) : e.what = "prose"
        BY <1>2 DEF TranscriptInv, OfTurns
      <3>3. Buf = <<>> => ToSet(Drained) = {}
        BY NoItems DEF Drained
      <3> QED
        BY <1>1, <1>2, <1>3, <1>4, <1>8, <3>1, <3>2, <3>3
    <2> QED
      BY <1>2, <2>1, <2>2 DEF Bulleted
  <1> QED
    BY <1>9, <1>10, <1>11, <1>12 DEF TranscriptInv

LEMMA ToolEndStep ==
  ASSUME TranscriptInv, TranscriptTypeOK', ToolEnd
  PROVE  TranscriptInv'
  <1> DEFINE k == Item("observation", current)
             y == Shown \o Chips
  <1>1. /\ toolOpen /\ Sends("observation") /\ "observation" \in Parts
        /\ live' = (live \o Chips) \o <<k>>
        /\ toolOpen' = FALSE /\ Buf' = Buf /\ Buf = <<>>
        /\ UNCHANGED assistantTurnStarted
    BY Flushed DEF ToolEnd, Buf, Parts, TranscriptInv, BufferHeld
  <1>2. /\ current # NoTurn /\ current \in Turns /\ current \in Asked
        /\ UNCHANGED <<submitted, current, scroll, ticks, playbackActive, dropped, split>>
        /\ ~playbackActive /\ Chips' = <<>> /\ Marks' = Marks /\ Asked' = Asked
        /\ k \in Items /\ k.what = "observation"
        /\ \A e \in Written \cup ToSet(Chips) : Fine(e, k, Marks)
        /\ \A u \in Asked \ (dropped \cup split) : Led(Shown, u)
        /\ current \notin dropped \cup split =>
             (assistantTurnStarted <=> Bullet(current) \in ToSet(Shown))
        /\ Bullet(current).what = "bullet"
    BY <1>1, SentItem
  <1>3. /\ Shown \in Seq(Items) /\ Chips \in Seq(Items)
        /\ y \in Seq(Items) /\ ToSet(y) = ToSet(Shown) \cup ToSet(Chips)
        /\ ToSet(Buf) = {} /\ ToSet(Buf') = {}
    BY <1>1, Flushed, Pieces, ItemTypes, NoItems DEF TranscriptInv
  <1> HIDE DEF k, y
  <1>4. y \o <<k>> \in Seq(Items) /\ ToSet(y \o <<k>>) = ToSet(y) \cup {k}
    BY <1>2, <1>3, CatOne
  <1>5. Shown' = y \o <<k>>
    <2> DEFINE l == <<k>>
    <2>1. l \in Seq(Items)
      BY <1>2
    <2> HIDE DEF l
    <2>2. live \in Seq(Items) /\ scroll \in Seq(Items) /\ TranscriptTypeOK
      BY ItemTypes DEF TranscriptInv
    <2>3. Shown \in Seq(Items) /\ Chips \in Seq(Items)
      BY <1>3
    <2> DEFINE c == Chips \o l
    <2>4. (live \o Chips) \o l = live \o c
      <3>1. Assoc(live, Chips, l)
        BY <2>1, <2>2, <2>3, CatFolded
      <3> QED
        BY <3>1 DEF Assoc
    <2>5. (Shown \o Chips) \o l = Shown \o c
      <3>1. Assoc(Shown, Chips, l)
        BY <2>1, <2>3, CatFolded
      <3> QED
        BY <3>1 DEF Assoc
    <2>6. c \in Seq(Items)
      BY <2>1, <2>3
    <2> HIDE DEF c
    <2>7. live' = live \o c /\ scroll' = scroll
      BY <1>1, <1>2, <2>4 DEF l
    <2>8. Shown' = Shown \o c
      BY <2>2, <2>6, <2>7, LiveView DEF Shown
    <2> QED
      BY <2>5, <2>8 DEF l, y
  <1>6. ToSet(Shown') = ToSet(y) \cup {k}
    BY <1>4, <1>5
  <1>7. NothingLost' /\ OfTurns' /\ QueueInOrder'
    <2>1. Written' = Written \cup ToSet(Chips) \cup {k}
      BY <1>3, <1>6 DEF Written
    <2> QED
      BY <1>1, <1>3, <2>1, SentStep DEF k
  <1>8. PiecesFit'
    <2>1. Fit(y, <<>>, <<>>, Marks)
      <3>1. Fit(y, Buf, <<>>, Marks)
        BY <1>1, <1>3, NoItems, FitFlush DEF TranscriptInv, PiecesFit, y
      <3> QED
        BY <1>1, <3>1
    <2>2. \A e \in ToSet(y) : Fine(e, k, Marks)
      BY <1>2, <1>3 DEF Written
    <2>3. Fit(y \o <<k>>, <<>>, <<>>, Marks)
      BY <1>2, <1>3, <2>1, <2>2, NoItems, FitShow
    <2> QED
      BY <1>1, <1>2, <1>5, <2>3 DEF PiecesFit
  <1>9. BufferHeld'
    BY <1>1, <1>2 DEF BufferHeld
  <1>10. Bulleted'
    <2>1. \A u \in Asked \ (dropped \cup split) : Led(Shown', u)
      <3>1. \A u \in Asked \ (dropped \cup split) : Led(y, u)
        BY <1>2, Flushed DEF y
      <3> QED
        BY <1>2, <1>3, <1>5, <3>1, LedOne
    <2>2. Bullet(current) \in ToSet(Shown') <=> Bullet(current) \in ToSet(Shown)
      BY <1>2, <1>3, <1>6, Pieces
    <2> QED
      BY <1>1, <1>2, <2>1, <2>2 DEF Bulleted
  <1> QED
    BY <1>7, <1>8, <1>9, <1>10 DEF TranscriptInv

-----------------------------------------------------------------------------
(* The end of a run and of its playback, and the next turn.                *)

LEMMA FirstOfQueue ==
  ASSUME NEW q \in Seq(Turns), q # <<>>,
         \A i, j \in DOMAIN q : i < j => q[i] < q[j]
  PROVE  /\ Head(q) \in ToSet(q)
         /\ \A u \in ToSet(Tail(q)) : u \in ToSet(q) /\ Head(q) < u
         /\ \A i, j \in DOMAIN Tail(q) : i < j => Tail(q)[i] < Tail(q)[j]
  <1>1. /\ Len(q) \in Nat /\ Len(q) >= 1 /\ DOMAIN q = 1..Len(q) /\ Head(q) = q[1]
        /\ Tail(q) \in Seq(Turns) /\ Len(Tail(q)) = Len(q) - 1
        /\ DOMAIN Tail(q) = 1..(Len(q) - 1)
        /\ \A i \in 1..(Len(q) - 1) : Tail(q)[i] = q[i + 1]
    OBVIOUS
  <1>2. Head(q) \in ToSet(q)
    BY <1>1 DEF ToSet
  <1>3. ASSUME NEW i \in 1..(Len(q) - 1) PROVE Tail(q)[i] \in ToSet(q) /\ Head(q) < Tail(q)[i]
    <2>1. i + 1 \in DOMAIN q /\ 1 \in DOMAIN q /\ 1 < i + 1
      BY <1>1
    <2> QED
      BY <1>1, <2>1 DEF ToSet
  <1>4. ASSUME NEW i \in 1..(Len(q) - 1), NEW j \in 1..(Len(q) - 1), i < j
        PROVE  Tail(q)[i] < Tail(q)[j]
    <2>1. i + 1 \in DOMAIN q /\ j + 1 \in DOMAIN q /\ i + 1 < j + 1
      BY <1>1, <1>4
    <2> QED
      BY <1>1, <2>1
  <1>5. \A u \in ToSet(Tail(q)) : \E i \in 1..(Len(q) - 1) : u = Tail(q)[i]
    BY <1>1 DEF ToSet
  <1>6. \A i, j \in DOMAIN Tail(q) : i < j => Tail(q)[i] < Tail(q)[j]
    BY <1>1, <1>4
  <1> QED
    BY <1>2, <1>3, <1>5, <1>6

\* Whoever is next stands behind everything there is.
LEMMA NextInOrder ==
  ASSUME TranscriptInv, DispatchQueuedInput \/ (current' = NoTurn /\ UNCHANGED queuedInputs)
  PROVE  /\ current' # NoTurn => current' \in ToSet(queuedInputs)
         /\ \A u \in ToSet(queuedInputs') : u \in ToSet(queuedInputs) /\ current' < u
         /\ \A i, j \in DOMAIN queuedInputs' : i < j => queuedInputs'[i] < queuedInputs'[j]
  <1>1. queuedInputs \in Seq(Turns) /\ \A u \in ToSet(queuedInputs) : u \in Turns /\ 0 < u
    <2>1. queuedInputs \in Seq(Turns) /\ \A u \in Turns : 0 < u
      BY ItemTypes DEF TranscriptInv, TranscriptTypeOK
    <2> QED
      BY <2>1 DEF ToSet
  <1>2. \A i, j \in DOMAIN queuedInputs : i < j => queuedInputs[i] < queuedInputs[j]
    BY DEF TranscriptInv, QueueInOrder
  <1>3. CASE current' = NoTurn /\ UNCHANGED queuedInputs
    BY <1>1, <1>2, <1>3 DEF NoTurn
  <1>4. CASE DispatchQueuedInput /\ queuedInputs # <<>>
    <2>1. current' = Head(queuedInputs) /\ queuedInputs' = Tail(queuedInputs)
      BY <1>4 DEF DispatchQueuedInput, RunTurn
    <2> QED
      BY <1>1, <1>2, <1>4, <2>1, FirstOfQueue
  <1>5. CASE DispatchQueuedInput /\ queuedInputs = <<>>
    <2>1. current' = NoTurn /\ UNCHANGED queuedInputs
      BY <1>5 DEF DispatchQueuedInput, RunTurn
    <2> QED
      BY <1>3, <2>1
  <1> QED
    BY <1>3, <1>4, <1>5

\* Nothing is lost when a run or its playback ends, and the next one finds
\* nothing of its own.
LEMMA EndedStep ==
  ASSUME TranscriptInv, UNCHANGED <<submitted, sent, wiped, dropped, waited, split>>,
         \A e \in Written : e \in Written',
         \A e \in ToSet(Chips) : e \in Written' \cup ToSet(Chips'),
         \A e \in Written' : e \in Written \cup ToSet(Chips)
                               \/ (e.what \in {"bullet", "error"} /\ e.of = current /\ current # NoTurn),
         \A e \in ToSet(Buf') : e.what \in {"prose", "bullet"},
         \A u \in ToSet(pendingUserEcho') : u \in Asked,
         current' # NoTurn => Buf' = <<>>,
         DispatchQueuedInput \/ (current' = NoTurn /\ UNCHANGED queuedInputs)
  PROVE  /\ NothingLost' /\ OfTurns' /\ QueueInOrder'
         /\ current' # NoTurn => Bullet(current') \notin ToSet(Shown')
  <1>1. Asked' = Asked /\ \A e \in Written : e \in Written'
    BY DEF Asked
  <1>2. /\ submitted \in Nat
        /\ current # NoTurn => current \in Asked /\ current <= submitted
        /\ Asked \subseteq Nat
    <2>1. submitted \in Nat /\ (current # NoTurn => current \in Asked)
      BY ItemTypes DEF TranscriptInv
    <2> QED
      BY <2>1 DEF Asked
  <1>3. \A e \in Written' : e \in Written \cup ToSet(Chips)
                               \/ (e.what \in {"bullet", "error"} /\ e.of = current /\ current # NoTurn)
    OBVIOUS
  <1>4. /\ current' # NoTurn => current' \in ToSet(queuedInputs)
        /\ \A u \in ToSet(queuedInputs') : u \in ToSet(queuedInputs) /\ current' < u
        /\ \A i, j \in DOMAIN queuedInputs' : i < j => queuedInputs'[i] < queuedInputs'[j]
    BY NextInOrder
  <1>5. \A e \in ToSet(Chips) : e.what = "echo" /\ e.of \in Asked /\ e.of <= submitted
    BY Pieces
  <1>6. NothingLost'
    <2>1. \A u \in Asked' \ wiped' : Echo(u) \in ToSet(Shown') \cup ToSet(Chips')
      <3>1. \A u : Echo(u).what = "echo"
        BY DEF Echo
      <3>2. \A u \in Asked \ wiped : Echo(u) \in Written \cup ToSet(Chips)
        BY DEF TranscriptInv, NothingLost, Written
      <3>3. \A u \in Asked \ wiped : Echo(u) \in Written' \cup ToSet(Chips')
        BY <3>2
      <3> QED
        BY <1>1, <3>1, <3>3 DEF Written
    <2>2. \A u \in Asked' \ dropped', k \in Nat \ {0} : k <= sent'[u] =>
            \E e \in Written' : e.what \in Parts /\ e.of = u /\ e.n = k
      BY <1>1 DEF TranscriptInv, NothingLost, Written
    <2>3. \A e \in Written' : e.what \in Parts => e.n \in 1..sent'[e.of]
      <3>1. \A e \in Written : e.what \in Parts => e.n \in 1..sent[e.of]
        BY DEF TranscriptInv, NothingLost, Written
      <3>2. \A e \in Written' : e.what \in Parts => e \in Written
        BY <1>3, <1>5 DEF Parts
      <3> QED
        BY <3>1, <3>2
    <2> QED
      BY <2>1, <2>2, <2>3 DEF NothingLost, Written
  <1>7. \A e \in Written' : /\ e.of <= submitted
                            /\ e.what = "echo" => e.of \in Asked
                            /\ e.what \in OfReply =>
                               e.of \in Asked /\ \A u \in ToSet(queuedInputs) : e.of < u
    <2> SUFFICES ASSUME NEW e \in Written'
                 PROVE  /\ e.of <= submitted
                        /\ e.what = "echo" => e.of \in Asked
                        /\ e.what \in OfReply =>
                           e.of \in Asked /\ \A u \in ToSet(queuedInputs) : e.of < u
      OBVIOUS
    <2>1. CASE e \in Written
      BY <2>1 DEF TranscriptInv, OfTurns, Written
    <2>2. CASE e \in ToSet(Chips)
      BY <1>5, <2>2 DEF OfReply, Parts
    <2>3. CASE e.what \in {"bullet", "error"} /\ e.of = current /\ current # NoTurn
      <3>1. \A u \in ToSet(queuedInputs) : current < u
        BY DEF TranscriptInv, QueueInOrder
      <3> QED
        BY <1>2, <2>3, <3>1
    <2> QED
      BY <1>3, <2>1, <2>2, <2>3
  <1>8. \A e \in Written' : e.what \in OfReply /\ current' # NoTurn => e.of < current' /\ e.of <= current'
    <2>1. \A u \in ToSet(queuedInputs) : u \in Asked
      BY DEF TranscriptInv, QueueInOrder
    <2>2. ASSUME NEW u \in ToSet(queuedInputs), NEW e \in Written', e.what \in OfReply
          PROVE  e.of < u /\ e.of <= u
      <3>1. e.of \in Nat /\ u \in Nat /\ e.of < u
        BY <1>2, <1>7, <2>1, <2>2
      <3> QED
        BY <3>1
    <2> QED
      BY <1>4, <2>2
  <1>9. OfTurns'
    <2>1. current' # NoTurn => ToSet(Buf') = {}
      BY NoItems
    <2> QED
      BY <1>1, <1>4, <1>7, <1>8, <2>1 DEF OfTurns, Written
  <1>10. QueueInOrder'
    <2>1. \A u \in ToSet(queuedInputs') : u \in Asked' /\ current' < u /\ sent'[u] = 0
      BY <1>1, <1>4 DEF TranscriptInv, QueueInOrder
    <2>2. \A u \in Turns : u > submitted' => sent'[u] = 0
      BY DEF TranscriptInv, QueueInOrder
    <2>3. \A t \in Asked \ waited : \A u \in ToSet(queuedInputs) : t < u /\ t <= u
      <3>1. \A u \in ToSet(queuedInputs) : u \in Asked
        BY DEF TranscriptInv, QueueInOrder
      <3>2. \A t \in Asked \ waited : \A u \in ToSet(queuedInputs) : t < u
        BY DEF TranscriptInv, QueueInOrder
      <3>3. ASSUME NEW t \in Asked \ waited, NEW u \in ToSet(queuedInputs)
            PROVE  t < u /\ t <= u
        <4>1. t \in Nat /\ u \in Nat /\ t < u
          BY <1>2, <3>1, <3>2
        <4> QED
          BY <4>1
      <3> QED
        BY <3>3
    <2>4. \A t \in Asked' \ waited' : /\ current' # NoTurn => t <= current'
                                      /\ \A u \in ToSet(queuedInputs') : t < u
      BY <1>1, <1>4, <2>3
    <2> QED
      BY <1>4, <2>1, <2>2, <2>4 DEF QueueInOrder
  <1>11. current' # NoTurn => Bullet(current') \notin ToSet(Shown')
    <2>1. Bullet(current').what \in OfReply /\ Bullet(current').of = current'
      BY DEF Bullet, OfReply
    <2>2. current' # NoTurn => current' \in Nat
      BY <1>2, <1>4 DEF TranscriptInv, QueueInOrder
    <2>3. \A e \in ToSet(Shown') : e \in Written'
      BY DEF Written
    <2> QED
      BY <1>8, <2>1, <2>2, <2>3
  <1> QED
    BY <1>6, <1>9, <1>10, <1>11

LEMMA DoneInErrorStep ==
  ASSUME TranscriptInv, TranscriptTypeOK', DoneInError
  PROVE  TranscriptInv'
  <1> DEFINE k == [what |-> "error", of |-> current, n |-> 0]
             y == Shown \o Chips
             z == y \o Drained
  <1>1. /\ current # NoTurn /\ scroll' = (z \o <<k>>) /\ live' = <<>>
        /\ pendingUserEcho' = <<>> /\ Buf' = <<>> /\ playbackActive' = FALSE
        /\ assistantTurnStarted' = FALSE /\ DispatchQueuedInput /\ toolOpen' = FALSE
        /\ UNCHANGED <<submitted, sent, wiped, dropped, waited, split>>
        /\ Marks' = Marks /\ Asked' = Asked
    BY Flushed DEF DoneInError, Buf, Drained, DrainForTool, past, Marks, Asked, Shown,
                   DispatchQueuedInput, RunTurn
  <1>2. /\ k \in Items /\ k.what = "error" /\ k.of = current /\ IsReply(k) /\ k.what \notin Parts
        /\ current \in Turns /\ Bullet(current).what = "bullet" /\ Bullet(current).of = current
    BY <1>1, ItemTypes DEF TranscriptInv, IsReply, Parts, Bullet
  <1>3. /\ Shown \in Seq(Items) /\ Buf \in Seq(Items) /\ Chips \in Seq(Items)
        /\ y \in Seq(Items) /\ ToSet(y) = ToSet(Shown) \cup ToSet(Chips)
    BY Flushed, Pieces, ItemTypes DEF TranscriptInv
  <1>4. /\ Drained \in Seq(Items)
        /\ ToSet(Buf) \subseteq ToSet(Drained)
        /\ ToSet(Drained) \subseteq ToSet(Buf) \cup {Bullet(current)}
        /\ Fit(y, Drained, <<>>, Marks)
        /\ \A u \in Asked \ (dropped \cup split) : Led(z, u)
    BY <1>1, DrainFits
  <1>5. \A e \in Written \cup ToSet(Chips) : Fine(e, k, Marks)
    BY <1>1, <1>2, RepliesLast
  <1> HIDE DEF k, y
  <1>6. z \in Seq(Items) /\ ToSet(z) = ToSet(y) \cup ToSet(Drained)
    BY <1>3, <1>4, CatSet
  <1> HIDE DEF z
  <1>7. z \o <<k>> \in Seq(Items) /\ ToSet(z \o <<k>>) = ToSet(z) \cup {k}
    BY <1>2, <1>6, CatOne
  <1>8. Shown' = z \o <<k>> /\ ToSet(Shown') = ToSet(y) \cup ToSet(Drained) \cup {k}
    <2>1. (z \o <<k>>) \o <<>> = z \o <<k>>
      BY <1>7, CatEmpty
    <2> QED
      BY <1>1, <1>6, <1>7, <2>1 DEF Shown
  <1>9. ToSet(Buf') = {} /\ Chips' = <<>> /\ ToSet(Chips') = {} /\ ToSet(pendingUserEcho') = {}
    BY <1>1, NoChips, NoItems
  <1>10. /\ NothingLost' /\ OfTurns' /\ QueueInOrder'
         /\ current' # NoTurn => Bullet(current') \notin ToSet(Shown')
    <2>1. \A e \in Written \cup ToSet(Chips) : e \in Written'
      BY <1>3, <1>4, <1>8 DEF Written
    <2>2. \A e \in Written' : e \in Written \cup ToSet(Chips) \/ e = k \/ e = Bullet(current)
      BY <1>3, <1>4, <1>8, <1>9 DEF Written
    <2> QED
      BY <1>1, <1>2, <1>9, <2>1, <2>2, EndedStep
  <1>11. PiecesFit'
    <2>1. Fit(z, <<>>, <<>>, Marks)
      BY <1>3, <1>4, NoItems, FitCommit DEF z
    <2>2. \A e \in ToSet(z) : Fine(e, k, Marks)
      <3>1. Fine(Bullet(current), k, Marks)
        BY <1>2 DEF Fine, IsReply, Parts, Echo, Bullet
      <3> QED
        BY <1>3, <1>4, <1>5, <1>6, <3>1 DEF Written
    <2>3. Fit(z \o <<k>>, <<>>, <<>>, Marks)
      BY <1>2, <1>6, <2>1, <2>2, NoItems, FitShow
    <2> QED
      BY <1>1, <1>8, <1>9, <2>3 DEF PiecesFit
  <1>12. BufferHeld'
    BY <1>1 DEF BufferHeld
  <1>13. Bulleted'
    <2>1. \A u \in Asked \ (dropped \cup split) : Led(Shown', u)
      BY <1>2, <1>4, <1>6, <1>8, LedOne
    <2> QED
      BY <1>1, <1>10, <2>1 DEF Bulleted
  <1> QED
    BY <1>10, <1>11, <1>12, <1>13 DEF TranscriptInv

LEMMA DoneWithProseStep ==
  ASSUME TranscriptInv, TranscriptTypeOK', DoneWithProse
  PROVE  TranscriptInv'
  <1> DEFINE y == Shown \o Chips
  <1>1. /\ current # NoTurn /\ Buf # <<>> /\ live' = live \o Chips /\ pendingUserEcho' = <<>>
        /\ Buf' = Drained /\ playbackActive' = TRUE /\ ticks' = ticks + 1
        /\ current' = NoTurn /\ toolOpen' = FALSE
        /\ UNCHANGED <<submitted, sent, queuedInputs, scroll, wiped, dropped, waited, split>>
        /\ Marks' = Marks /\ Asked' = Asked
    BY Flushed DEF DoneWithProse, Buf, Drained, LeadingBullet, RunTurn, past, Marks, Asked
  <1>2. /\ Shown \in Seq(Items) /\ Buf \in Seq(Items) /\ Chips \in Seq(Items)
        /\ y \in Seq(Items) /\ ToSet(y) = ToSet(Shown) \cup ToSet(Chips)
    BY Flushed, Pieces, ItemTypes DEF TranscriptInv
  <1>3. Shown' = y
    BY <1>1, <1>2, LiveView DEF TranscriptInv, Shown
  <1>4. /\ Drained \in Seq(Items)
        /\ ToSet(Buf) \subseteq ToSet(Drained)
        /\ ToSet(Drained) \subseteq ToSet(Buf) \cup {Bullet(current)}
        /\ Fit(y, Drained, <<>>, Marks)
        /\ \A u \in Asked \ (dropped \cup split) : Led(y \o Drained, u)
    BY <1>1, DrainFits
  <1> HIDE DEF y
  <1>5. /\ Chips' = <<>> /\ ToSet(Chips') = {} /\ ToSet(pendingUserEcho') = {}
        /\ ToSet(Buf') = ToSet(Drained)
    BY <1>1, NoChips, NoItems
  <1>6. \A e \in ToSet(Buf') : e.what \in {"prose", "bullet"}
    <2>1. Bullet(current).what = "bullet"
      BY DEF Bullet
    <2>2. \A e \in ToSet(Buf) : e.what = "prose"
      BY <1>1 DEF TranscriptInv, OfTurns
    <2> QED
      BY <1>4, <1>5, <2>1, <2>2
  <1>7. NothingLost' /\ OfTurns' /\ QueueInOrder'
    <2>1. \A e \in Written \cup ToSet(Chips) : e \in Written'
      BY <1>2, <1>3, <1>4, <1>5 DEF Written
    <2>2. \A e \in Written' : e \in Written \cup ToSet(Chips) \/ e = Bullet(current)
      BY <1>2, <1>3, <1>4, <1>5 DEF Written
    <2>3. Bullet(current).what = "bullet" /\ Bullet(current).of = current
      BY DEF Bullet
    <2> QED
      BY <1>1, <1>5, <1>6, <2>1, <2>2, <2>3, EndedStep
  <1>8. PiecesFit'
    BY <1>1, <1>3, <1>4, <1>5 DEF PiecesFit
  <1>9. BufferHeld'
    <2>1. Drained # <<>>
      <3>1. Head(Buf) \in ToSet(Buf)
        BY <1>1, <1>2, HeadFirst
      <3> QED
        BY <1>4, <3>1, NoItems
    <2>2. ticks \in Nat
      BY DEF TranscriptInv, TranscriptTypeOK
    <2> QED
      BY <1>1, <2>1, <2>2 DEF BufferHeld
  <1>10. Bulleted'
    BY <1>1, <1>3, <1>4 DEF Bulleted
  <1> QED
    BY <1>7, <1>8, <1>9, <1>10 DEF TranscriptInv

LEMMA DoneWithoutStep ==
  ASSUME TranscriptInv, TranscriptTypeOK', DoneWithout
  PROVE  TranscriptInv'
  <1> DEFINE y == Shown \o Chips
  <1>1. /\ current # NoTurn /\ Buf = <<>> /\ CommitTurn(Chips, <<>>) /\ pendingUserEcho' = <<>>
        /\ assistantTurnStarted' = FALSE /\ DispatchQueuedInput /\ toolOpen' = FALSE
        /\ UNCHANGED <<submitted, sent, wiped, dropped, waited, split>>
        /\ Marks' = Marks /\ Asked' = Asked
    BY Flushed DEF DoneWithout, Buf, DispatchQueuedInput, RunTurn, past, Marks, Asked
  <1>2. /\ Shown \in Seq(Items) /\ Chips \in Seq(Items) /\ ToSet(Buf) = {}
        /\ y \in Seq(Items) /\ ToSet(y) = ToSet(Shown) \cup ToSet(Chips)
    BY <1>1, Flushed, Pieces, ItemTypes, NoItems DEF TranscriptInv
  <1>3. Shown' = y /\ Buf' = <<>> /\ playbackActive' = FALSE
    <2>1. /\ Shown' = ((Shown \o Chips) \o Buf) \o <<>>
          /\ Buf' = <<>> /\ playbackActive' = FALSE
      BY <1>1, <1>2, NoItems, CommitView DEF TranscriptInv
    <2> HIDE DEF y
    <2>2. y \o <<>> = y
      BY <1>2, CatEmpty
    <2> QED
      BY <1>1, <2>1, <2>2 DEF y
  <1>4. /\ Chips' = <<>> /\ ToSet(Chips') = {} /\ ToSet(pendingUserEcho') = {} /\ ToSet(Buf') = {}
    BY <1>1, <1>3, NoChips, NoItems
  <1>5. /\ NothingLost' /\ OfTurns' /\ QueueInOrder'
        /\ current' # NoTurn => Bullet(current') \notin ToSet(Shown')
    <2>1. Written' = Written \cup ToSet(Chips)
      BY <1>2, <1>3, <1>4 DEF Written
    <2> QED
      BY <1>1, <1>3, <1>4, <2>1, EndedStep
  <1>6. PiecesFit'
    <2>1. Fit(y, Buf, <<>>, Marks)
      BY <1>1, <1>2, NoItems, FitFlush DEF TranscriptInv, PiecesFit
    <2> QED
      BY <1>1, <1>3, <1>4, <2>1 DEF PiecesFit
  <1>7. BufferHeld'
    BY <1>1, <1>3 DEF BufferHeld
  <1>8. Bulleted'
    <2>1. \A u \in Asked \ (dropped \cup split) : Led(y, u)
      BY WholeLed, Flushed
    <2> QED
      BY <1>1, <1>3, <1>5, <2>1 DEF Bulleted
  <1> QED
    BY <1>5, <1>6, <1>7, <1>8 DEF TranscriptInv

LEMMA TickTypesStep ==
  ASSUME TranscriptInv, TranscriptTypeOK', TickTypes
  PROVE  TranscriptInv'
  <1> DEFINE h == Head(Buf)
             r == Tail(Buf)
  <1>1. /\ ticks > 0 /\ playbackActive /\ Len(Buf) > 1 /\ live' = Append(live, h) /\ Buf' = r
        /\ UNCHANGED <<submitted, current, sent, toolOpen, queuedInputs, pendingUserEcho,
                       playbackActive, scroll, ticks, wiped, dropped, waited, split>>
        /\ Marks' = Marks /\ Asked' = Asked /\ Chips' = Chips
    BY DEF TickTypes, Buf, past, Marks, Asked, Chips
  <1>2. current = NoTurn /\ toolOpen = FALSE
    BY <1>1 DEF TranscriptInv, BufferHeld, TranscriptTypeOK
  <1>3. /\ Shown \in Seq(Items) /\ Buf \in Seq(Items) /\ Chips \in Seq(Items) /\ live \in Seq(Items)
    BY Pieces, ItemTypes DEF TranscriptInv
  <1>4. h \in Items /\ r \in Seq(Items) /\ r # <<>> /\ Buf = <<h>> \o r
    <2>1. Buf # <<>> /\ Len(Buf) > 1
      BY <1>1 DEF TranscriptInv, BufferHeld
    <2> QED
      BY <1>3, <2>1, HeadFirst
  <1> HIDE DEF h, r
  <1>5. Shown' = Shown \o <<h>>
    <2>1. live' = live \o <<h>> /\ <<h>> \in Seq(Items)
      BY <1>1, <1>3, <1>4
    <2>2. scroll' = scroll
      BY <1>1
    <2> QED
      BY <2>1, <2>2, LiveView DEF TranscriptInv, Shown
  <1>6. /\ ToSet(Buf) = {h} \cup ToSet(r) /\ ToSet(Shown') = ToSet(Shown) \cup {h}
        /\ Written' = Written
    <2> DEFINE l == <<h>>
    <2>1. l \in Seq(Items) /\ ToSet(l) = {h} /\ Buf = l \o r
      BY <1>4, SmallSeq
    <2> HIDE DEF l
    <2>2. ToSet(l \o r) = ToSet(l) \cup ToSet(r)
      BY <1>4, <2>1, CatSet
    <2>3. ToSet(Shown \o <<h>>) = ToSet(Shown) \cup {h}
      BY <1>3, <1>4, CatOne
    <2> QED
      BY <1>1, <1>5, <2>1, <2>2, <2>3 DEF Written
  <1>7. NothingLost' /\ OfTurns' /\ QueueInOrder'
    <2>1. \A e \in ToSet(Buf') : e.what \in {"prose", "bullet"}
      BY <1>1, <1>6 DEF TranscriptInv, OfTurns
    <2>2. \A u \in ToSet(pendingUserEcho') : u \in Asked
      BY <1>1 DEF TranscriptInv, OfTurns
    <2> QED
      BY <1>1, <1>2, <1>6, <2>1, <2>2, EndedStep
  <1>8. PiecesFit'
    <2>1. Fit(Shown, <<h>> \o r, Chips, Marks)
      BY <1>4 DEF TranscriptInv, PiecesFit
    <2>2. Fit(Shown \o <<h>>, r, Chips, Marks)
      BY <1>3, <1>4, <2>1, FitType
    <2> QED
      BY <1>1, <1>5, <2>2 DEF PiecesFit
  <1>9. BufferHeld'
    BY <1>1, <1>2, <1>4 DEF BufferHeld
  <1>10. Bulleted'
    <2>1. Shown' \o Buf' = Shown \o Buf
      <3>1. (Shown \o <<h>>) \o r = Shown \o (<<h>> \o r)
        BY <1>3, <1>4
      <3> QED
        BY <1>1, <1>4, <1>5, <3>1
    <2> QED
      BY <1>1, <1>2, <2>1 DEF TranscriptInv, Bulleted
  <1> QED
    BY <1>7, <1>8, <1>9, <1>10 DEF TranscriptInv

LEMMA TickEndsStep ==
  ASSUME TranscriptInv, TranscriptTypeOK', TickEnds
  PROVE  TranscriptInv'
  <1> DEFINE y == Shown \o Buf
  <1>1. /\ playbackActive /\ CommitTurn(<<>>, <<>>) /\ assistantTurnStarted' = FALSE
        /\ DispatchQueuedInput /\ toolOpen' = FALSE
        /\ UNCHANGED <<submitted, sent, pendingUserEcho, wiped, dropped, waited, split>>
        /\ Marks' = Marks /\ Asked' = Asked /\ Chips' = Chips
    BY DEF TickEnds, DispatchQueuedInput, RunTurn, past, Marks, Asked, Chips
  <1>2. /\ Shown \in Seq(Items) /\ Buf \in Seq(Items) /\ Chips \in Seq(Items)
        /\ y \in Seq(Items) /\ ToSet(y) = Written
    <2>1. Shown \in Seq(Items) /\ Buf \in Seq(Items) /\ Chips \in Seq(Items)
      BY Pieces, ItemTypes DEF TranscriptInv
    <2> QED
      BY <2>1, CatSet DEF Written
  <1>3. Shown' = y /\ Buf' = <<>> /\ playbackActive' = FALSE
    <2>1. /\ Shown' = ((Shown \o <<>>) \o Buf) \o <<>>
          /\ Buf' = <<>> /\ playbackActive' = FALSE
      BY <1>1, NoItems, CommitView DEF TranscriptInv
    <2>2. Shown \o <<>> = Shown
      BY <1>2, CatEmpty
    <2>3. Shown' = y \o <<>>
      BY <2>1, <2>2
    <2> HIDE DEF y
    <2>4. y \o <<>> = y
      BY <1>2, CatEmpty
    <2> QED
      BY <2>1, <2>3, <2>4
  <1> HIDE DEF y
  <1>4. ToSet(Buf') = {} /\ Written' = Written
    BY <1>2, <1>3, NoItems DEF Written
  <1>5. /\ NothingLost' /\ OfTurns' /\ QueueInOrder'
        /\ current' # NoTurn => Bullet(current') \notin ToSet(Shown')
    <2>1. \A u \in ToSet(pendingUserEcho') : u \in Asked
      BY <1>1 DEF TranscriptInv, OfTurns
    <2> QED
      BY <1>1, <1>3, <1>4, <2>1, EndedStep
  <1>6. PiecesFit'
    <2>1. Fit(y, <<>>, Chips, Marks)
      BY <1>2, FitCommit DEF TranscriptInv, PiecesFit, y
    <2> QED
      BY <1>1, <1>3, <2>1 DEF PiecesFit
  <1>7. BufferHeld'
    BY <1>1, <1>3 DEF BufferHeld
  <1>8. Bulleted'
    <2>1. \A u \in Asked \ (dropped \cup split) : Led(y, u)
      BY <1>1, WholeLed DEF y
    <2> QED
      BY <1>1, <1>3, <1>5, <2>1 DEF Bulleted
  <1> QED
    BY <1>5, <1>6, <1>7, <1>8 DEF TranscriptInv

\* A stale tick is only taken off, and a step of nobody takes nothing.
LEMMA StaleStep ==
  ASSUME TranscriptInv, TickStale \/ UNCHANGED transcriptVars
  PROVE  TranscriptInv'
  <1>1. /\ UNCHANGED <<model, submitted, current, cancelled, sent, toolOpen, queuedInputs,
                       pendingUserEcho, playbackBuf, playbackActive, assistantTurnStarted, live,
                       scroll, chrome, wiped, dropped, waited, split, stranded>>
        /\ ticks' = ticks \/ (ticks > 0 /\ ~playbackActive /\ ticks' = ticks - 1)
    BY DEF TickStale, transcriptVars, screen, past
  <1>2. /\ Shown' = Shown /\ Buf' = Buf /\ Chips' = Chips /\ Marks' = Marks /\ Asked' = Asked
    BY <1>1 DEF Shown, Buf, Chips, Marks, Asked
  <1>3. TranscriptTypeOK'
    <2>1. ticks' \in Nat
      BY <1>1 DEF TranscriptInv, TranscriptTypeOK
    <2> QED
      BY <1>1, <2>1 DEF TranscriptInv, TranscriptTypeOK
  <1>4. PiecesFit'
    BY <1>2 DEF TranscriptInv, PiecesFit
  <1>5. NothingLost' /\ OfTurns' /\ QueueInOrder'
    BY <1>1, <1>2 DEF TranscriptInv, NothingLost, OfTurns, QueueInOrder
  <1>6. BufferHeld'
    BY <1>1, <1>2 DEF TranscriptInv, BufferHeld
  <1>7. Bulleted'
    BY <1>1, <1>2 DEF TranscriptInv, Bulleted
  <1> QED
    BY <1>3, <1>4, <1>5, <1>6, <1>7 DEF TranscriptInv

-----------------------------------------------------------------------------
(* The types.                                                              *)

Flags == {model, cancelled, toolOpen, playbackActive, assistantTurnStarted, stranded}
Pasts == UNION {wiped, dropped, waited, split}

LEMMA CommitTypes ==
  ASSUME TranscriptTypeOK, NEW before \in Seq(Items), NEW after \in Seq(Items),
         CommitTurn(before, after)
  PROVE  {playbackBuf, live, scroll}' \subseteq Seq(Items) /\ playbackActive' \in BOOLEAN
  <1>1. scroll \in Seq(Items) /\ live \in Seq(Items) /\ playbackBuf \in Seq(Items)
    BY DEF TranscriptTypeOK
  <1>2. scroll' \in Seq(Items)
    BY <1>1 DEF CommitTurn
  <1> QED
    BY <1>2, NoItems DEF CommitTurn

LEMMA ChipTypes ==
  ASSUME TranscriptInv
  PROVE  /\ FlushPendingUserEcho \in Seq(Items) /\ ChipsKept \in Seq(Items)
         /\ current # NoTurn => DrainForTool \in Seq(Items)
         /\ \A t \in Turns : Append(Echoes(Append(pendingUserEcho, t)), Chrome) \in Seq(Items)
  <1>1. Chips \in Seq(Items) /\ Chrome \in Items /\ pendingUserEcho \in Seq(Turns)
    BY Pieces, ItemTypes DEF TranscriptInv
  <1>2. ASSUME NEW t \in Turns
        PROVE  Append(Echoes(Append(pendingUserEcho, t)), Chrome) \in Seq(Items)
    <2>1. Append(pendingUserEcho, t) \in Seq(Turns)
      BY <1>1
    <2>2. Echoes(Append(pendingUserEcho, t)) \in Seq(Items)
      BY <2>1, EchoTypes
    <2> QED
      BY <1>1, <2>2
  <1>3. current # NoTurn => DrainForTool \in Seq(Items)
    BY DrainFits DEF DrainForTool, Drained, Buf
  <1> QED
    BY <1>1, <1>2, <1>3, Flushed

LEMMA NextTypes ==
  ASSUME TranscriptInv, DispatchQueuedInput \/ (RunTurn(NoTurn) /\ UNCHANGED queuedInputs)
  PROVE  /\ current' \in 0..submitted /\ cancelled' = FALSE /\ toolOpen' = FALSE
         /\ queuedInputs' \in Seq(Turns)
  <1>1. queuedInputs \in Seq(Turns) /\ submitted \in Nat
    BY ItemTypes DEF TranscriptInv, TranscriptTypeOK
  <1>2. cancelled' = FALSE /\ toolOpen' = FALSE
    BY DEF DispatchQueuedInput, RunTurn
  <1>3. queuedInputs' \in Seq(Turns)
    BY <1>1, HeadFirst DEF DispatchQueuedInput
  <1>4. current' \in 0..submitted
    <2>1. current' = NoTurn \/ current' \in ToSet(queuedInputs)
      BY NextInOrder DEF DispatchQueuedInput, RunTurn
    <2>2. \A u \in ToSet(queuedInputs) : u \in Asked
      BY DEF TranscriptInv, QueueInOrder
    <2> QED
      BY <1>1, <2>1, <2>2 DEF Asked, NoTurn
  <1> QED
    BY <1>2, <1>3, <1>4

LEMMA ScreenTypes ==
  ASSUME TranscriptInv, TranscriptNext
  PROVE  TranscriptTypeOK'
  <1>1. /\ Flags \subseteq BOOLEAN
        /\ submitted \in 0..LastTurn /\ current \in 0..submitted /\ ticks \in Nat
        /\ cancelled => current # NoTurn
        /\ sent \in [Turns -> Nat] /\ \A t \in Turns : sent[t] <= MaxItems[t]
        /\ {playbackBuf, live, scroll} \subseteq Seq(Items)
        /\ pendingUserEcho \in Seq(Turns) /\ queuedInputs \in Seq(Turns)
        /\ Pasts \subseteq 1..submitted
        /\ chrome \in 0..MaxChrome
        /\ LastTurn \in Nat /\ MaxChrome \in Nat /\ <<>> \in Seq(Items) /\ <<>> \in Seq(Turns)
    BY TranscriptAssumption DEF TranscriptInv, TranscriptTypeOK, Flags, Pasts
  <1> USE <1>1
  <1>2. ASSUME NEW t \in Turns, Question(t)
        PROVE  /\ submitted' \in 0..LastTurn /\ 0..submitted \subseteq 0..submitted'
               /\ 1..submitted \subseteq 1..submitted' /\ t \in 1..submitted'
               /\ Append(pendingUserEcho, t) \in Seq(Turns) /\ Append(queuedInputs, t) \in Seq(Turns)
    BY <1>2 DEF Question, Turns
  <1>3. ASSUME NEW t \in Turns, Queue(t) PROVE TranscriptTypeOK'
    BY <1>2, <1>3 DEF Queue, screen, TranscriptTypeOK, Flags, Pasts
  <1>4. ASSUME NEW t \in Turns, Ask(t) PROVE TranscriptTypeOK'
    <2>1. {playbackBuf, live, scroll}' \subseteq Seq(Items) /\ playbackActive' \in BOOLEAN
      BY <1>4, CommitTypes DEF Ask, TranscriptInv
    <2>2. current' = t /\ cancelled' = FALSE /\ toolOpen' = FALSE
      BY <1>4 DEF Ask, RunTurn
    <2>3. /\ submitted' \in 0..LastTurn /\ t \in 1..submitted' /\ Pasts \subseteq 1..submitted'
          /\ Append(pendingUserEcho, t) \in Seq(Turns)
      BY <1>2, <1>4 DEF Ask
    <2>4. current' \in 0..submitted'
      BY <2>2, <2>3
    <2> QED
      BY <1>4, <2>1, <2>2, <2>3, <2>4 DEF Ask, past, TranscriptTypeOK, Flags, Pasts
  <1>5. ASSUME NEW t \in Turns, AskInVain(t) PROVE TranscriptTypeOK'
    <2>1. {playbackBuf, live, scroll}' \subseteq Seq(Items) /\ playbackActive' \in BOOLEAN
      BY <1>5, ChipTypes, CommitTypes DEF AskInVain, TranscriptInv
    <2>2. assistantTurnStarted' \in BOOLEAN
      BY <1>5 DEF AskInVain, StartedAfterCommit, Flags
    <2> QED
      BY <1>2, <1>5, <2>1, <2>2 DEF AskInVain, past, TranscriptTypeOK, Flags, Pasts
  <1>6. CASE SlashCommand
    <2>1. {playbackBuf, live, scroll}' \subseteq Seq(Items) /\ playbackActive' \in BOOLEAN
      <3>1. <<Chrome>> \in Seq(Items)
        BY ItemTypes DEF TranscriptInv
      <3> QED
        BY <1>6, <3>1, CommitTypes DEF SlashCommand, TranscriptInv
    <2>2. assistantTurnStarted' \in BOOLEAN /\ model' \in BOOLEAN /\ stranded' \in BOOLEAN
      BY <1>6 DEF SlashCommand, StartedAfterCommit, Flags
    <2>3. split' \subseteq 1..submitted /\ chrome' \in 0..MaxChrome
      BY <1>6 DEF SlashCommand, Pasts, NoTurn
    <2> QED
      BY <1>6, <2>1, <2>2, <2>3 DEF SlashCommand, TranscriptTypeOK, Flags, Pasts
  <1>7. CASE Cancel
    <2>1. scroll' \in Seq(Items)
      BY <1>7, ChipTypes DEF Cancel
    <2>2. dropped' \subseteq 1..submitted
      <3>1. \A e \in ToSet(Buf) : e.of \in Asked
        BY DEF TranscriptInv, OfTurns, OfReply, Parts
      <3>2. Buffered \subseteq Asked
        BY <3>1 DEF Buffered, Buf, ToSet
      <3>3. InFlight \subseteq Asked
        BY ItemTypes DEF InFlight, TranscriptInv
      <3> QED
        BY <1>7, <3>2, <3>3 DEF Cancel, Asked, Pasts
    <2> QED
      BY <1>7, <2>1, <2>2 DEF Cancel, StillEnds, TranscriptTypeOK, Flags, Pasts
  <1>8. CASE ClearScreen
    BY <1>8 DEF ClearScreen, TranscriptTypeOK, Flags, Pasts
  <1>9. ASSUME NEW what \in Parts, Sends(what)
        PROVE  /\ sent' \in [Turns -> Nat] /\ \A t \in Turns : sent'[t] <= MaxItems[t]
               /\ Item(what, current) \in Items /\ current # NoTurn
    <2>1. /\ current \in Turns /\ sent[current] < MaxItems[current] /\ current # NoTurn
          /\ sent' = [sent EXCEPT ![current] = @ + 1]
          /\ Item(what, current) \in Items
      BY <1>9, ItemTypes DEF Sends, TranscriptInv
    <2>2. MaxItems[current] \in Nat /\ sent[current] \in Nat
      BY <2>1, TranscriptAssumption
    <2>3. sent[current] + 1 <= MaxItems[current]
      BY <2>1, <2>2
    <2> QED
      BY <2>1, <2>3
  <1>10. CASE Token
    <2>1. /\ sent' \in [Turns -> Nat] /\ \A t \in Turns : sent'[t] <= MaxItems[t]
          /\ Item("prose", current) \in Items /\ current # NoTurn
      BY <1>9, <1>10 DEF Token, Parts
    <2>2. {playbackBuf, live, scroll}' \subseteq Seq(Items)
      BY <1>10, <2>1, ChipTypes DEF Token, Sends
    <2> QED
      BY <1>10, <2>1, <2>2 DEF Token, Sends, past, TranscriptTypeOK, Flags, Pasts
  <1>11. CASE ToolBegin
    <2>1. /\ sent' \in [Turns -> Nat] /\ \A t \in Turns : sent'[t] <= MaxItems[t]
          /\ Item("tool", current) \in Items /\ current # NoTurn
      BY <1>9, <1>11 DEF ToolBegin, Parts
    <2>2. {playbackBuf, live, scroll}' \subseteq Seq(Items)
      <3>1. FlushPendingUserEcho \in Seq(Items) /\ DrainForTool \in Seq(Items)
            /\ <<Item("tool", current)>> \in Seq(Items)
        BY <2>1, ChipTypes
      <3>2. live' \in Seq(Items)
        BY <1>11, <3>1 DEF ToolBegin
      <3> QED
        BY <1>11, <3>2 DEF ToolBegin, Sends
    <2>3. assistantTurnStarted' \in BOOLEAN
      BY <1>11 DEF ToolBegin, Flags
    <2> QED
      BY <1>11, <2>1, <2>2, <2>3 DEF ToolBegin, Sends, past, TranscriptTypeOK, Flags, Pasts
  <1>12. CASE ToolEnd
    <2>1. /\ sent' \in [Turns -> Nat] /\ \A t \in Turns : sent'[t] <= MaxItems[t]
          /\ Item("observation", current) \in Items /\ current # NoTurn
      BY <1>9, <1>12 DEF ToolEnd, Parts
    <2>2. {playbackBuf, live, scroll}' \subseteq Seq(Items)
      <3>1. FlushPendingUserEcho \in Seq(Items) /\ <<Item("observation", current)>> \in Seq(Items)
        BY <2>1, ChipTypes
      <3>2. live' \in Seq(Items)
        BY <1>12, <3>1 DEF ToolEnd
      <3> QED
        BY <1>12, <3>2 DEF ToolEnd, Sends
    <2> QED
      BY <1>12, <2>1, <2>2 DEF ToolEnd, Sends, past, TranscriptTypeOK, Flags, Pasts
  <1>13. CASE DoneInError
    <2>1. scroll' \in Seq(Items)
      <3>1. /\ FlushPendingUserEcho \in Seq(Items) /\ DrainForTool \in Seq(Items)
            /\ <<[what |-> "error", of |-> current, n |-> 0]>> \in Seq(Items)
        BY <1>13, ChipTypes, ItemTypes DEF DoneInError, TranscriptInv
      <3> QED
        BY <1>13, <3>1 DEF DoneInError
    <2>2. /\ current' \in 0..submitted /\ cancelled' = FALSE /\ toolOpen' = FALSE
          /\ queuedInputs' \in Seq(Turns)
      BY <1>13, NextTypes DEF DoneInError
    <2>3. {playbackBuf, live, scroll}' \subseteq Seq(Items) /\ playbackActive' = FALSE
      BY <1>13, <2>1 DEF DoneInError
    <2> QED
      BY <1>13, <2>2, <2>3 DEF DoneInError, past, TranscriptTypeOK, Flags, Pasts
  <1>14. CASE DoneWithProse
    <2>1. {playbackBuf, live, scroll}' \subseteq Seq(Items)
      <3>1. FlushPendingUserEcho \in Seq(Items) /\ LeadingBullet \o playbackBuf \in Seq(Items)
        BY <1>14, ChipTypes DEF DoneWithProse, LeadingBullet, DrainForTool
      <3> QED
        BY <1>14, <3>1 DEF DoneWithProse
    <2>2. /\ current' \in 0..submitted /\ cancelled' = FALSE /\ toolOpen' = FALSE
          /\ queuedInputs' \in Seq(Turns)
      BY <1>14, NextTypes DEF DoneWithProse
    <2>3. ticks' \in Nat
      BY <1>14 DEF DoneWithProse
    <2> QED
      BY <1>14, <2>1, <2>2, <2>3 DEF DoneWithProse, past, TranscriptTypeOK, Flags, Pasts
  <1>15. CASE DoneWithout
    <2>1. {playbackBuf, live, scroll}' \subseteq Seq(Items) /\ playbackActive' \in BOOLEAN
      BY <1>15, ChipTypes, CommitTypes DEF DoneWithout, TranscriptInv
    <2>2. /\ current' \in 0..submitted /\ cancelled' = FALSE /\ toolOpen' = FALSE
          /\ queuedInputs' \in Seq(Turns)
      BY <1>15, NextTypes DEF DoneWithout
    <2> QED
      BY <1>15, <2>1, <2>2 DEF DoneWithout, past, TranscriptTypeOK, Flags, Pasts
  <1>16. CASE TickTypes
    <2>1. {playbackBuf, live, scroll}' \subseteq Seq(Items)
      <3>1. playbackBuf # <<>>
        BY <1>16 DEF TickTypes
      <3>2. Head(playbackBuf) \in Items /\ Tail(playbackBuf) \in Seq(Items)
        BY <3>1, HeadFirst
      <3> QED
        BY <1>16, <3>2 DEF TickTypes
    <2> QED
      BY <1>16, <2>1 DEF TickTypes, past, TranscriptTypeOK, Flags, Pasts
  <1>17. CASE TickEnds
    <2>1. {playbackBuf, live, scroll}' \subseteq Seq(Items) /\ playbackActive' \in BOOLEAN
      BY <1>17, CommitTypes DEF TickEnds, TranscriptInv
    <2>2. /\ current' \in 0..submitted /\ cancelled' = FALSE /\ toolOpen' = FALSE
          /\ queuedInputs' \in Seq(Turns)
      BY <1>17, NextTypes DEF TickEnds
    <2>3. ticks' \in Nat
      BY <1>17 DEF TickEnds
    <2> QED
      BY <1>17, <2>1, <2>2, <2>3 DEF TickEnds, past, TranscriptTypeOK, Flags, Pasts
  <1>18. CASE TickStale
    BY <1>18, StaleStep DEF TranscriptInv
  <1> QED
    BY <1>3, <1>4, <1>5, <1>6, <1>7, <1>8, <1>10, <1>11, <1>12, <1>13, <1>14, <1>15, <1>16, <1>17,
       <1>18 DEF TranscriptNext, RunSends, RunEnds, PlaybackTick

-----------------------------------------------------------------------------
(* The invariant, and what it says of the screen.                          *)

LEMMA ScreenStarts == TranscriptInit => TranscriptInv
  <1> SUFFICES ASSUME TranscriptInit PROVE TranscriptInv
    OBVIOUS
  <1>1. /\ submitted = 0 /\ current = NoTurn /\ queuedInputs = <<>> /\ pendingUserEcho = <<>>
        /\ Buf = <<>> /\ playbackActive = FALSE /\ toolOpen = FALSE
        /\ scroll = <<>> /\ live = <<>> /\ sent = [t \in Turns |-> 0]
    BY DEF TranscriptInit, Buf
  <1>2. /\ Shown = <<>> /\ Chips = <<>> /\ Asked = {}
        /\ ToSet(Shown) = {} /\ ToSet(Buf) = {} /\ ToSet(Chips) = {}
        /\ ToSet(queuedInputs) = {} /\ ToSet(pendingUserEcho) = {}
    <2>1. Shown = <<>>
      BY <1>1, NoItems, CatEmpty DEF Shown
    <2>2. Chips = <<>>
      BY <1>1 DEF Chips, Echoes
    <2>3. Asked = {}
      BY <1>1 DEF Asked
    <2> QED
      BY <1>1, <2>1, <2>2, <2>3, NoItems
  <1>3. TranscriptTypeOK
    <2>1. LastTurn \in Nat /\ MaxChrome \in Nat /\ MaxItems \in [Turns -> Nat]
      BY TranscriptAssumption
    <2>2. sent \in [Turns -> Nat] /\ \A t \in Turns : sent[t] <= MaxItems[t]
      BY <1>1, <2>1
    <2>3. {playbackBuf, live, scroll} \subseteq Seq(Items)
      BY <1>1, NoItems DEF Buf
    <2>4. pendingUserEcho \in Seq(Turns) /\ queuedInputs \in Seq(Turns)
      BY <1>1
    <2>5. UNION {wiped, dropped, waited, split} \subseteq 1..submitted
      BY DEF TranscriptInit
    <2>6. {model, cancelled, toolOpen, playbackActive, assistantTurnStarted, stranded} \subseteq BOOLEAN
      BY DEF TranscriptInit
    <2>7. /\ submitted \in 0..LastTurn /\ current \in 0..submitted /\ ticks \in Nat
          /\ chrome \in 0..MaxChrome /\ ~cancelled
      BY <2>1 DEF TranscriptInit, NoTurn
    <2> QED
      BY <2>2, <2>3, <2>4, <2>5, <2>6, <2>7 DEF TranscriptTypeOK
  <1>4. PiecesFit
    BY <1>1, <1>2, NoItems DEF PiecesFit, Fit, Across
  <1>5. NothingLost /\ OfTurns /\ QueueInOrder
    BY <1>1, <1>2 DEF NothingLost, OfTurns, QueueInOrder
  <1>6. BufferHeld /\ Bulleted
    BY <1>1, <1>2 DEF BufferHeld, Bulleted
  <1> QED
    BY <1>3, <1>4, <1>5, <1>6 DEF TranscriptInv

LEMMA ScreenSteps == TranscriptInv /\ [TranscriptNext]_transcriptVars => TranscriptInv'
  <1> SUFFICES ASSUME TranscriptInv, [TranscriptNext]_transcriptVars
               PROVE  TranscriptInv'
    OBVIOUS
  <1>1. CASE UNCHANGED transcriptVars
    BY <1>1, StaleStep
  <1>2. CASE TranscriptNext
    <2>1. TranscriptTypeOK'
      BY <1>2, ScreenTypes
    <2>2. ASSUME NEW t \in Turns, Queue(t) \/ Ask(t) \/ AskInVain(t)
          PROVE  TranscriptInv'
      BY <2>1, <2>2, QueueStep, AskStep, AskInVainStep
    <2>3. SlashCommand \/ Cancel \/ ClearScreen => TranscriptInv'
      BY <2>1, SlashStep, CancelStep, ClearStep
    <2>4. RunSends => TranscriptInv'
      BY <2>1, TokenStep, ToolBeginStep, ToolEndStep DEF RunSends
    <2>5. RunEnds => TranscriptInv'
      BY <2>1, DoneInErrorStep, DoneWithProseStep, DoneWithoutStep DEF RunEnds
    <2>6. PlaybackTick => TranscriptInv'
      BY <2>1, StaleStep, TickTypesStep, TickEndsStep DEF PlaybackTick
    <2> QED
      BY <1>2, <2>2, <2>3, <2>4, <2>5, <2>6 DEF TranscriptNext
  <1> QED
    BY <1>1, <1>2

LEMMA ScreenHolds == TranscriptInv => ScreenIsTrue
  <1> SUFFICES ASSUME TranscriptInv PROVE ScreenIsTrue
    OBVIOUS
  <1>1. /\ Shown \in Seq(Items) /\ Buf \in Seq(Items) /\ Chips \in Seq(Items)
        /\ Line = Shown \o Buf /\ Line \in Seq(Items) /\ ToSet(Line) = Written
        /\ Asked \subseteq Turns /\ Turns \subseteq Nat \ {0}
    <2>1. Shown \in Seq(Items) /\ Buf \in Seq(Items) /\ Chips \in Seq(Items)
      BY Pieces, ItemTypes DEF TranscriptInv
    <2>2. Line = Shown \o Buf
      BY DEF Line, Buf
    <2>3. ToSet(Shown \o Buf) = Written
      BY <2>1, CatSet DEF Written
    <2> QED
      BY <2>1, <2>2, <2>3, ItemTypes DEF TranscriptInv
  <1>2. AllFine(Line, Marks)
    <2>1. AllFine(Shown, Marks) /\ AllFine(Buf, Marks) /\ Across(Shown, Buf, Marks)
      BY DEF TranscriptInv, PiecesFit, Fit
    <2> QED
      BY <1>1, <2>1, JoinFine
  <1>3. /\ DOMAIN Line = 1..Len(Line) /\ DOMAIN Shown = 1..Len(Shown)
        /\ Len(Line) \in Nat /\ Len(Shown) \in Nat
    BY <1>1
  <1>4. QuestionsKept
    <2> DEFINE questions == Shown \o Chips
    <2>1. /\ questions \in Seq(Items) /\ ToSet(questions) = ToSet(Shown) \cup ToSet(Chips)
          /\ AllFine(questions, Marks)
      <3>1. AllFine(Shown, Marks) /\ AllFine(Chips, Marks) /\ Across(Shown, Chips, Marks)
        BY DEF TranscriptInv, PiecesFit, Fit
      <3> QED
        BY <1>1, <3>1, JoinFine
    <2> HIDE DEF questions
    <2>2. DOMAIN questions = 1..Len(questions) /\ Len(questions) \in Nat
      BY <2>1
    <2>3. ASSUME NEW t \in Asked \ wiped
          PROVE  \E i \in DOMAIN questions :
                   \A j \in DOMAIN questions : questions[j] = Echo(t) <=> j = i
      <3>1. PICK i \in DOMAIN questions : questions[i] = Echo(t)
        <4>1. Echo(t) \in ToSet(questions)
          BY <2>1 DEF TranscriptInv, NothingLost
        <4> QED
          BY <4>1 DEF ToSet
      <3>2. ASSUME NEW j \in DOMAIN questions, NEW k \in DOMAIN questions, j < k,
                   questions[j] = Echo(t), questions[k] = Echo(t)
            PROVE  FALSE
        <4>1. Fine(Echo(t), Echo(t), Marks)
          BY <2>1, <3>2 DEF AllFine
        <4>2. t \in Marks.wiped
          BY <4>1 DEF Fine, Echo
        <4> QED
          BY <4>2 DEF Marks
      <3>3. \A j \in DOMAIN questions : questions[j] = Echo(t) => j = i
        <4> SUFFICES ASSUME NEW j \in DOMAIN questions, questions[j] = Echo(t) PROVE j = i
          OBVIOUS
        <4>1. j < i \/ i < j \/ i = j
          BY <2>2
        <4> QED
          BY <3>1, <3>2, <4>1
      <3> QED
        BY <3>1, <3>3
    <2> QED
      BY <2>3 DEF QuestionsKept, questions, Asked, Chips
  <1>5. ReplyWhole
    <2> SUFFICES ASSUME NEW t \in Asked \ dropped
                 PROVE  LET reply == {i \in DOMAIN Line : Line[i].what \in Parts /\ Line[i].of = t}
                        IN  /\ {Line[i].n : i \in reply} = 1..sent[t]
                            /\ \A i, j \in reply : i < j => Line[i].n < Line[j].n
      BY DEF ReplyWhole, Asked
    <2> DEFINE reply == {i \in DOMAIN Line : Line[i].what \in Parts /\ Line[i].of = t}
    <2>1. sent[t] \in Nat
      BY <1>1 DEF TranscriptInv, TranscriptTypeOK
    <2>2. \A i \in reply : Line[i].n \in 1..sent[t]
      <3>1. \A e \in Written : e.what \in Parts => e.n \in 1..sent[e.of]
        BY DEF TranscriptInv, NothingLost, Written
      <3> QED
        BY <1>1, <3>1 DEF ToSet
    <2>3. ASSUME NEW k \in 1..sent[t] PROVE \E i \in reply : Line[i].n = k
      <3>1. k \in Nat \ {0} /\ k <= sent[t]
        BY <2>1
      <3>2. PICK e \in Written : e.what \in Parts /\ e.of = t /\ e.n = k
        BY <3>1 DEF TranscriptInv, NothingLost, Written
      <3>3. PICK i \in DOMAIN Line : Line[i] = e
        BY <1>1, <3>2 DEF ToSet
      <3> QED
        BY <3>2, <3>3
    <2>4. ASSUME NEW i \in reply, NEW j \in reply, i < j PROVE Line[i].n < Line[j].n
      <3>1. Fine(Line[i], Line[j], Marks)
        BY <1>2, <2>4 DEF AllFine
      <3> QED
        BY <3>1 DEF Fine, Marks
    <2> HIDE DEF reply
    <2>5. {Line[i].n : i \in reply} = 1..sent[t]
      BY <2>2, <2>3
    <2> QED
      BY <2>4, <2>5 DEF reply
  <1>6. TurnsInOrder
    <2> SUFFICES ASSUME NEW i \in DOMAIN Line, NEW j \in DOMAIN Line, i < j
                 PROVE  /\ IsReply(Line[i]) /\ IsReply(Line[j]) => Line[i].of <= Line[j].of
                        /\ IsReply(Line[i]) /\ Line[j].what = "echo" => Line[i].of # Line[j].of
                        /\ Line[i].what = "echo" /\ IsReply(Line[j]) =>
                             Line[i].of <= Line[j].of \/ Line[i].of \in waited
      BY DEF TurnsInOrder
    <2>1. Fine(Line[i], Line[j], Marks)
      BY <1>2 DEF AllFine
    <2> QED
      BY <2>1 DEF Fine, Marks
  <1>7. BulletLeads
    <2> SUFFICES ASSUME NEW t \in Asked \ (dropped \cup split)
                 PROVE  /\ \A i, j \in DOMAIN Line :
                             Line[i] = Bullet(t) /\ Line[j] = Bullet(t) => i = j
                        /\ \A i \in DOMAIN Shown : Shown[i].what = "prose" /\ Shown[i].of = t =>
                             \E j \in DOMAIN Shown : j < i /\ Shown[j] = Bullet(t)
      BY DEF BulletLeads, Asked
    <2>1. ASSUME NEW i \in DOMAIN Line, NEW j \in DOMAIN Line, i < j,
                 Line[i] = Bullet(t), Line[j] = Bullet(t)
          PROVE  FALSE
      <3>1. Fine(Bullet(t), Bullet(t), Marks)
        BY <1>2, <2>1 DEF AllFine
      <3>2. t \in Marks.dropped \cup Marks.split
        BY <3>1 DEF Fine, Bullet
      <3> QED
        BY <3>2 DEF Marks
    <2>2. \A i, j \in DOMAIN Line : Line[i] = Bullet(t) /\ Line[j] = Bullet(t) => i = j
      <3> SUFFICES ASSUME NEW i \in DOMAIN Line, NEW j \in DOMAIN Line,
                          Line[i] = Bullet(t), Line[j] = Bullet(t)
                   PROVE  i = j
        OBVIOUS
      <3>1. i < j \/ j < i \/ i = j
        BY <1>3
      <3> QED
        BY <2>1, <3>1
    <2>3. Led(Shown, t)
      BY WholeLed
    <2> QED
      BY <2>2, <2>3 DEF Led
  <1>8. TypewriterRuns
    BY DEF TypewriterRuns, TranscriptInv, BufferHeld, Buf, Running
  <1> QED
    BY <1>4, <1>5, <1>6, <1>7, <1>8 DEF ScreenIsTrue, TranscriptInv

\* What was asked and answered is on the screen, whole and in order, however
\* questions, slash commands, cancels, clears, tools, failures and the ticks of
\* the typewriter interleave (internal/ui/tui: app.go, stream.go, playback.go).
THEOREM ScreenStaysTrue == TranscriptSpec => []ScreenIsTrue
  <1>1. TranscriptSpec => []TranscriptInv
    BY ScreenStarts, ScreenSteps, PTL DEF TranscriptSpec
  <1> QED
    BY <1>1, ScreenHolds, PTL
=============================================================================
