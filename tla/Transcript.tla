----------------------------- MODULE Transcript -----------------------------
(***************************************************************************)
(* What the TUI shows of its turns (internal/ui/tui): the chip of a        *)
(* question above the prompt, the buffer of the typewriter (playback.go),  *)
(* the live viewport (stream.go) and the native scrollback, into which a   *)
(* turn is printed once it is over.  This is the inline mode, which is the *)
(* default.                                                                *)
(*                                                                         *)
(* The screen is a sequence of items.  What a run sends is numbered: a     *)
(* piece of prose, the header of a tool or its observation; a tick of the  *)
(* typewriter takes one item for its 24 runes.  How runs start, end and    *)
(* are pumped is the subject of TuiTurns; here a run sends its items and   *)
(* is done.  The operator is patient in the sense of TuiTurns: a cancelled *)
(* run may still send, and no question is asked until it is done.          *)
(***************************************************************************)
EXTENDS Naturals, SequencesExt

CONSTANTS
  LastTurn,    \* bound: questions asked
  MaxItems,    \* bound: MaxItems[t] items sent by the run of turn t
  MaxChrome    \* bound: lines written by slash commands

Turns == 1..LastTurn
NoTurn == 0

ASSUME TranscriptAssumption ==
  LastTurn \in Nat \ {0} /\ MaxItems \in [Turns -> Nat] /\ MaxChrome \in Nat

VARIABLES
  model,      \* a model has been picked
  submitted,  \* questions asked so far
  current,    \* the turn whose run is going on, or NoTurn
  cancelled,  \* ... and was cancelled
  sent,       \* sent[t]: items that the run of t has sent
  toolOpen,   \* the current run has begun a tool and not ended it
  queuedInputs, pendingUserEcho,      \* sequences of turns
  playbackBuf, playbackActive,        \* the buffer, and whether it is typed out
  assistantTurnStarted,
  ticks,      \* playback ticks under way
  live,       \* what the viewport holds
  scroll,     \* what was printed into the scrollback
  chrome,     \* lines written by slash commands so far
  \* What the properties need to know of the past.
  wiped,      \* turns asked before the screen was last cleared
  dropped,    \* turns of which Ctrl+C or a clear dropped something
  waited,     \* turns that were queued behind another
  split,      \* turns into whose reply a slash command wrote
  stranded    \* a slash command ended the typewriter before a queue

screen == <<playbackBuf, playbackActive, assistantTurnStarted, live, scroll>>
past == <<wiped, dropped, waited, split, stranded>>
transcriptVars ==
  <<model, submitted, current, cancelled, sent, toolOpen, queuedInputs,
    pendingUserEcho, screen, ticks, chrome, past>>

Echo(t) == [what |-> "echo", of |-> t, n |-> 0]
Bullet(t) == [what |-> "bullet", of |-> t, n |-> 0]
Chrome == [what |-> "chrome", of |-> NoTurn, n |-> 0]
Parts == {"prose", "tool", "observation"}
Item(what, t) == [what |-> what, of |-> t, n |-> sent[t] + 1]
Items == [what : Parts \cup {"echo", "bullet", "chrome", "error"}, of : Turns \cup {NoTurn},
          n : Nat]

TranscriptTypeOK ==
  /\ {model, cancelled, toolOpen, playbackActive, assistantTurnStarted,
      stranded} \subseteq BOOLEAN
  /\ submitted \in 0..LastTurn /\ current \in 0..submitted /\ ticks \in Nat
  /\ cancelled => current # NoTurn
  /\ sent \in [Turns -> Nat] /\ \A t \in Turns : sent[t] <= MaxItems[t]
  /\ {playbackBuf, live, scroll} \subseteq Seq(Items)
  /\ pendingUserEcho \in Seq(Turns) /\ queuedInputs \in Seq(Turns)
  /\ UNION {wiped, dropped, waited, split} \subseteq 1..submitted
  /\ chrome \in 0..MaxChrome

TranscriptInit ==
  /\ model \in BOOLEAN
  /\ submitted = 0 /\ current = NoTurn /\ cancelled = FALSE
  /\ sent = [t \in Turns |-> 0] /\ toolOpen = FALSE
  /\ queuedInputs = <<>> /\ pendingUserEcho = <<>>
  /\ playbackBuf = <<>> /\ playbackActive = FALSE /\ assistantTurnStarted = FALSE
  /\ ticks = 0 /\ live = <<>> /\ scroll = <<>> /\ chrome = 0
  /\ wiped = {} /\ dropped = {} /\ waited = {} /\ split = {} /\ stranded = FALSE

---------------------------------------------------------------------------
(* Helpers of the Model.                                                   *)

Running == current # NoTurn /\ ~cancelled
Echoes(chips) == [i \in DOMAIN chips |-> Echo(chips[i])]
FlushPendingUserEcho == Echoes(pendingUserEcho)
BulletPrefix(started) == IF started THEN <<>> ELSE <<Bullet(current)>>

\* finalizeActivePlayback and Commit: the rest of the buffer, as it stands,
\* and what the handler writes after it end the turn on the screen.
CommitTurn(before, after) ==
  /\ scroll' = scroll \o live \o before \o playbackBuf \o after
  /\ live' = <<>> /\ playbackBuf' = <<>> /\ playbackActive' = FALSE

StartedAfterCommit ==
  IF playbackActive \/ playbackBuf # <<>> THEN FALSE ELSE assistantTurnStarted

\* runAgent: cancelled runs are over, since the operator is patient.
RunTurn(t) == current' = t /\ cancelled' = FALSE /\ toolOpen' = FALSE

DispatchQueuedInput ==
  IF queuedInputs = <<>>
  THEN RunTurn(NoTurn) /\ UNCHANGED queuedInputs
  ELSE RunTurn(Head(queuedInputs)) /\ queuedInputs' = Tail(queuedInputs)

---------------------------------------------------------------------------
(* The operator.                                                           *)

Waits == Running \/ queuedInputs # <<>>

Question(t) ==
  /\ ~cancelled /\ t = submitted + 1
  /\ submitted' = t

Queue(t) ==
  /\ Question(t) /\ Waits
  /\ pendingUserEcho' = Append(pendingUserEcho, t)
  /\ queuedInputs' = Append(queuedInputs, t)
  /\ waited' = waited \cup {t}
  /\ UNCHANGED <<model, current, cancelled, sent, toolOpen, screen, ticks, chrome,
                 wiped, dropped, split, stranded>>

\* A reply that still types out is finalised before the next question.
Ask(t) ==
  /\ Question(t) /\ ~Waits /\ model
  /\ CommitTurn(<<>>, <<>>)
  /\ pendingUserEcho' = Append(pendingUserEcho, t)
  /\ assistantTurnStarted' = FALSE
  /\ RunTurn(t)
  /\ UNCHANGED <<model, sent, queuedInputs, ticks, chrome, past>>

\* Without a model the question and a warning go to the scrollback.
AskInVain(t) ==
  /\ Question(t) /\ ~Waits /\ ~model
  /\ CommitTurn(<<>>, Append(Echoes(Append(pendingUserEcho, t)), Chrome))
  /\ pendingUserEcho' = <<>>
  /\ assistantTurnStarted' = StartedAfterCommit
  /\ UNCHANGED <<model, current, cancelled, sent, toolOpen, queuedInputs, ticks, chrome, past>>

\* writeStream, for a slash command or its result; one of them picks a model.
SlashCommand ==
  /\ chrome < MaxChrome
  /\ chrome' = chrome + 1
  /\ model' \in {model, TRUE}
  /\ CommitTurn(<<>>, <<Chrome>>)
  /\ assistantTurnStarted' = StartedAfterCommit
  /\ split' = IF current = NoTurn THEN split ELSE split \cup {current}
  /\ stranded' = (stranded \/ (playbackActive /\ queuedInputs # <<>>))
  /\ UNCHANGED <<submitted, current, cancelled, sent, toolOpen, queuedInputs,
                 pendingUserEcho, ticks, wiped, dropped, waited>>

\* Turns that have something in the buffer.
Buffered == {playbackBuf[i].of : i \in DOMAIN playbackBuf}
InFlight == IF current = NoTurn THEN {} ELSE {current}

\* The run that Ctrl+C stops, if any, is not done yet.
StillEnds == current # NoTurn

\* What Ctrl+C leaves of the chips: they are printed.
ChipsKept == FlushPendingUserEcho

\* Ctrl+C, and Esc while a turn is in flight: the buffer is discarded, the
\* rest of the turn and the chips are printed.
Cancel ==
  /\ Running \/ playbackActive \/ pendingUserEcho # <<>> \/ queuedInputs # <<>>
  /\ cancelled' = StillEnds
  /\ queuedInputs' = <<>> /\ pendingUserEcho' = <<>>
  /\ playbackBuf' = <<>> /\ playbackActive' = FALSE /\ assistantTurnStarted' = FALSE
  /\ scroll' = scroll \o live \o ChipsKept /\ live' = <<>>
  /\ dropped' = dropped \cup Buffered \cup InFlight
  /\ stranded' = FALSE
  /\ UNCHANGED <<model, submitted, current, sent, toolOpen, ticks, chrome, wiped, waited, split>>

\* Ctrl+L and /clear; the run goes on.
ClearScreen ==
  /\ live # <<>> \/ playbackBuf # <<>> \/ pendingUserEcho # <<>> \/ queuedInputs # <<>>
  /\ playbackBuf' = <<>> /\ playbackActive' = FALSE /\ assistantTurnStarted' = FALSE
  /\ queuedInputs' = <<>> /\ pendingUserEcho' = <<>>
  /\ live' = <<>>
  /\ wiped' = 1..submitted /\ dropped' = 1..submitted /\ stranded' = FALSE
  /\ UNCHANGED <<model, submitted, current, cancelled, sent, toolOpen, scroll, ticks, chrome,
                 waited, split>>

---------------------------------------------------------------------------
(* The events of a run, and its end.                                       *)

Sends(what) ==
  /\ current # NoTurn /\ sent[current] < MaxItems[current]
  /\ sent' = [sent EXCEPT ![current] = @ + 1]
  /\ pendingUserEcho' = <<>>
  /\ UNCHANGED <<model, submitted, current, cancelled, queuedInputs, playbackActive,
                 scroll, ticks, chrome, past>>

\* The agent reads no stream while it runs a tool.
Token ==
  /\ ~toolOpen /\ Sends("prose")
  /\ live' = live \o FlushPendingUserEcho
  /\ playbackBuf' = Append(playbackBuf, Item("prose", current))
  /\ UNCHANGED <<toolOpen, assistantTurnStarted>>

\* The prose that introduces a tool is shown before it.
DrainForTool ==
  IF playbackBuf = <<>> THEN <<>> ELSE BulletPrefix(assistantTurnStarted) \o playbackBuf

\* Variant: the prose stays in the buffer.
ToolLeapfrogs ==
  /\ ~toolOpen /\ Sends("tool")
  /\ toolOpen' = TRUE
  /\ live' = live \o FlushPendingUserEcho \o <<Item("tool", current)>>
  /\ UNCHANGED <<assistantTurnStarted, playbackBuf>>

ToolBegin ==
  /\ ~toolOpen /\ Sends("tool")
  /\ toolOpen' = TRUE
  /\ live' = live \o FlushPendingUserEcho \o DrainForTool \o <<Item("tool", current)>>
  /\ assistantTurnStarted' = (assistantTurnStarted \/ playbackBuf # <<>>)
  /\ playbackBuf' = <<>>

ToolEnd ==
  /\ toolOpen /\ Sends("observation")
  /\ toolOpen' = FALSE
  /\ live' = live \o FlushPendingUserEcho \o <<Item("observation", current)>>
  /\ UNCHANGED <<assistantTurnStarted, playbackBuf>>

\* agentDoneMsg with an error: everything is printed, and the next turn runs.
DoneInError ==
  /\ current # NoTurn
  /\ scroll' = scroll \o live \o FlushPendingUserEcho
                 \o DrainForTool \o <<[what |-> "error", of |-> current, n |-> 0]>>
  /\ live' = <<>> /\ pendingUserEcho' = <<>>
  /\ playbackBuf' = <<>> /\ playbackActive' = FALSE /\ assistantTurnStarted' = FALSE
  /\ DispatchQueuedInput
  /\ UNCHANGED <<model, submitted, sent, ticks, chrome, past>>

\* The bullet that leads the body to type out.
LeadingBullet == BulletPrefix(assistantTurnStarted)

\* agentDoneMsg: the body starts typing out, with its bullet.
DoneWithProse ==
  /\ current # NoTurn /\ playbackBuf # <<>>
  /\ live' = live \o FlushPendingUserEcho /\ pendingUserEcho' = <<>>
  /\ playbackBuf' = LeadingBullet \o playbackBuf
  /\ playbackActive' = TRUE /\ assistantTurnStarted' = FALSE
  /\ ticks' = ticks + 1
  /\ RunTurn(NoTurn)
  /\ UNCHANGED <<model, submitted, sent, queuedInputs, scroll, chrome, past>>

\* Without prose the turn is over at once.
DoneWithout ==
  /\ current # NoTurn /\ playbackBuf = <<>>
  /\ CommitTurn(FlushPendingUserEcho, <<>>)
  /\ pendingUserEcho' = <<>> /\ assistantTurnStarted' = FALSE
  /\ DispatchQueuedInput
  /\ UNCHANGED <<model, submitted, sent, ticks, chrome, past>>

---------------------------------------------------------------------------
(* The typewriter.                                                         *)

TickStale ==
  /\ ticks > 0 /\ ~playbackActive
  /\ ticks' = ticks - 1
  /\ UNCHANGED <<model, submitted, current, cancelled, sent, toolOpen, queuedInputs,
                 pendingUserEcho, screen, chrome, past>>

TickTypes ==
  /\ ticks > 0 /\ playbackActive /\ Len(playbackBuf) > 1
  /\ live' = Append(live, Head(playbackBuf))
  /\ playbackBuf' = Tail(playbackBuf)
  /\ UNCHANGED <<model, submitted, current, cancelled, sent, toolOpen, queuedInputs,
                 pendingUserEcho, playbackActive, assistantTurnStarted, scroll, ticks, chrome, past>>

\* Variant: the next turn is left to the next question.
TickEndsIdle ==
  /\ ticks > 0 /\ playbackActive /\ Len(playbackBuf) <= 1
  /\ ticks' = ticks - 1
  /\ CommitTurn(<<>>, <<>>)
  /\ assistantTurnStarted' = FALSE
  /\ UNCHANGED <<model, submitted, current, cancelled, sent, toolOpen, queuedInputs,
                 pendingUserEcho, chrome, past>>

\* The last item: the turn is printed, and the next one runs.
TickEnds ==
  /\ ticks > 0 /\ playbackActive /\ Len(playbackBuf) <= 1
  /\ ticks' = ticks - 1
  /\ CommitTurn(<<>>, <<>>)
  /\ DispatchQueuedInput
  /\ assistantTurnStarted' = FALSE
  /\ UNCHANGED <<model, submitted, sent, pendingUserEcho, chrome, past>>

PlaybackTick == TickStale \/ TickTypes \/ TickEnds
RunEnds == DoneInError \/ DoneWithProse \/ DoneWithout
RunSends == Token \/ ToolBegin \/ ToolEnd

TranscriptNext ==
  \/ \E t \in Turns : Queue(t) \/ Ask(t) \/ AskInVain(t)
  \/ SlashCommand \/ Cancel \/ ClearScreen
  \/ RunSends \/ RunEnds
  \/ PlaybackTick

\* A tick that was scheduled comes, and a run that has started is done some
\* day.
TranscriptFairness ==
  WF_transcriptVars(PlaybackTick) /\ WF_transcriptVars(RunEnds)

TranscriptSpec == TranscriptInit /\ [][TranscriptNext]_transcriptVars /\ TranscriptFairness

---------------------------------------------------------------------------
Shown == scroll \o live
Line == Shown \o playbackBuf

\* A question is on the screen or above the prompt, once, whether its turn
\* runs, waits, fails, is cancelled or finds no model.
QuestionsKept ==
  LET questions == Shown \o Echoes(pendingUserEcho)
  IN  \A t \in 1..submitted \ wiped :
        \E i \in DOMAIN questions :
          \A j \in DOMAIN questions : questions[j] = Echo(t) <=> j = i

\* What a run sends is on the screen or on its way there, each item once and
\* in the order it was sent: no tool leapfrogs the prose that introduced it,
\* and neither a question, a slash command nor a failure loses a tail.
ReplyWhole ==
  \A t \in 1..submitted \ dropped :
    LET reply == {i \in DOMAIN Line : Line[i].what \in Parts /\ Line[i].of = t}
    IN  /\ {Line[i].n : i \in reply} = 1..sent[t]
        /\ \A i, j \in reply : i < j => Line[i].n < Line[j].n

\* Nothing of a turn stands before its question, nor after the reply of a
\* later one, nor after the question of a later one.  The last does not hold
\* of a question that was queued: its chip goes to the screen with the next
\* event of the turn it waits behind.
IsReply(e) == e.what \in Parts \cup {"error"}

TurnsInOrder ==
  \A i, j \in DOMAIN Line : i < j =>
    /\ IsReply(Line[i]) /\ IsReply(Line[j]) => Line[i].of <= Line[j].of
    /\ IsReply(Line[i]) /\ Line[j].what = "echo" => Line[i].of # Line[j].of
    /\ Line[i].what = "echo" /\ IsReply(Line[j]) =>
         Line[i].of <= Line[j].of \/ Line[i].of \in waited

\* A reply has one bullet, and it stands before its first prose, unless a
\* slash command wrote into the middle of it.
BulletLeads ==
  \A t \in 1..submitted \ (dropped \cup split) :
    /\ \A i, j \in DOMAIN Line : Line[i] = Bullet(t) /\ Line[j] = Bullet(t) => i = j
    /\ \A i \in DOMAIN Shown : Shown[i].what = "prose" /\ Shown[i].of = t =>
         \E j \in DOMAIN Shown : j < i /\ Shown[j] = Bullet(t)

\* The typewriter never stops with a reply half typed, and it types alone:
\* while it does, no turn is in flight whose prose could mix with the reply.
TypewriterRuns ==
  playbackActive => ticks > 0 /\ playbackBuf # <<>> /\ ~Running

\* Queued questions get their turns, one after the other, unless they are
\* dropped by Ctrl+C or a clear.  A slash command that writes while a reply
\* types out before a queue ends the typewriter without the dispatch that
\* follows it, which leaves the queue to Ctrl+C; that is set apart.
FollowUpsStart ==
  queuedInputs # <<>> /\ ~stranded ~> queuedInputs = <<>> \/ stranded

\* What was asked and answered is on the screen, whole and in order.
ScreenIsTrue ==
  /\ TranscriptTypeOK
  /\ QuestionsKept /\ ReplyWhole /\ TurnsInOrder /\ BulletLeads /\ TypewriterRuns
=============================================================================
