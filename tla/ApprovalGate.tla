---------------------------- MODULE ApprovalGate ----------------------------
(***************************************************************************)
(* The questions of the terminal UI that want a y or an n: the approval of *)
(* a high-risk tool call (ui/tui/run.go, agent_runner.go) and the review   *)
(* of an incident card (/memory-review), with the order in which Update    *)
(* (app.go) routes a key: a picker or the palette, a review, an approval,  *)
(* the prompt.                                                             *)
(*                                                                         *)
(* A request is <<turn, number>>.  A turn's channel is read by one pump,   *)
(* since the operator is patient in the sense of TuiTurns, and has room;   *)
(* the mode is inline, the default.  Pickers and palette are one overlay,  *)
(* which may also open by itself when what a command fetches arrives.      *)
(***************************************************************************)
EXTENDS Naturals, Sequences

CONSTANTS
  MaxTurns,      \* bound on turns
  MaxAsks,       \* bound on the approvals a turn asks for
  MaxReviews,    \* bound on /memory-review
  MaxOverlays    \* bound on commands that open an overlay

ASSUME ApprovalAssumption ==
  MaxTurns \in Nat /\ MaxAsks \in Nat /\ MaxReviews \in Nat /\ MaxOverlays \in Nat

TurnIds == 1..MaxTurns
Requests == TurnIds \X (1..MaxAsks)
Nothing == <<0, 0>>     \* no request
Over == <<0, 1>>        \* the Done event

VARIABLES
  \* The Model.
  shown,       \* pendingApproval
  reviewing,   \* pendingMemoryReview: the card, or 0
  overlay,     \* arrowPicker is set, or the palette is active
  fetching,    \* a command fetches what a picker will offer
  turnOn,      \* running
  turn,        \* the turn whose channel is agentCh, or 0
  typing,      \* playbackActive
  behind,      \* len(queuedInputs)
  \* The turns.
  at,          \* at[r]: "none", "working", "waiting", "leaving" or "over"
  asks,        \* asks[r]: approvals asked for
  chan,        \* chan[r]: its events, requests and Over
  stopped,     \* stopped[r]: its done channel is closed
  ctxDone,     \* ctxDone[r]: its context is over
  reply,       \* reply[q]: "empty", or the answer in the channel
  \* The cards, and counters.
  verdict,     \* verdict[k]: "none", "candidate", "approved" or "rejected"
  started, overlays,
  \* History variables.
  ran,         \* the requests whose call was let through
  agreed       \* the requests that were shown when she said yes

modelVarsA == <<shown, reviewing, overlay, fetching, turnOn, turn, typing,
                behind>>
turnVars == <<at, asks, chan, stopped, ctxDone, reply>>
witnessVars == <<ran, agreed>>
approvalVars == <<modelVarsA, turnVars, verdict, started, overlays,
                  witnessVars>>

ApprovalInit ==
  /\ shown = Nothing /\ reviewing = 0 /\ overlay = FALSE /\ fetching = FALSE
  /\ turnOn = FALSE /\ turn = 0 /\ typing = FALSE /\ behind = 0
  /\ at = [r \in TurnIds |-> "none"]
  /\ asks = [r \in TurnIds |-> 0]
  /\ chan = [r \in TurnIds |-> <<>>]
  /\ stopped = [r \in TurnIds |-> FALSE]
  /\ ctxDone = [r \in TurnIds |-> FALSE]
  /\ reply = [q \in Requests |-> "empty"]
  /\ verdict = [k \in 1..MaxReviews |-> "none"]
  /\ started = 0 /\ overlays = 0
  /\ ran = {} /\ agreed = {}

\* A variant of ReplyTo below: one reply channel for the whole session.
SessionReply(q) == <<1, 1>>

\* The channel a request is answered through: made anew for each call.
ReplyTo(q) == q

-----------------------------------------------------------------------------
\* The keys and messages of the Update loop.

\* Keys reach the prompt.
AtPrompt == ~overlay /\ reviewing = 0 /\ shown = Nothing

\* No turn that was interrupted is still to be read.
NothingLingers == turn # 0 => ~stopped[turn]

\* runAgent, for the next input.
StartTurn ==
  /\ started' = started + 1
  /\ turn' = started'
  /\ turnOn' = TRUE
  /\ at' = [at EXCEPT ![started'] = "working"]

\* submitMsg: behind a turn the input is queued, else it ends the typing and
\* runs.
SubmitPrompt ==
  /\ AtPrompt /\ NothingLingers
  /\ started + behind < MaxTurns
  /\ IF turnOn \/ behind > 0
     THEN /\ behind' = behind + 1
          /\ UNCHANGED <<turnOn, turn, typing, at, started>>
     ELSE /\ typing' = FALSE
          /\ StartTurn
          /\ UNCHANGED behind
  /\ UNCHANGED <<shown, reviewing, overlay, fetching, asks, chan, stopped,
                 ctxDone, reply, verdict, overlays, witnessVars>>

\* dispatchQueuedInput at the end of a turn.
DispatchBehind ==
  IF behind = 0
  THEN /\ turnOn' = FALSE /\ turn' = 0
       /\ UNCHANGED <<behind, at, started>>
  ELSE /\ behind' = behind - 1
       /\ StartTurn

\* agentEventMsg with a request: overlays yield, the question goes up.
HandleRequest ==
  /\ turn # 0 /\ chan[turn] # <<>> /\ Head(chan[turn]) # Over
  /\ shown' = Head(chan[turn])
  /\ overlay' = FALSE
  /\ chan' = [chan EXCEPT ![turn] = Tail(@)]
  /\ UNCHANGED <<reviewing, fetching, turnOn, turn, typing, behind, at, asks,
                 stopped, ctxDone, reply, verdict, started, overlays,
                 witnessVars>>

\* agentDoneMsg: the reply types out, or there is none and the turn is over.
\* A question that is up stays up.
HandleOver ==
  /\ turn # 0 /\ chan[turn] # <<>> /\ Head(chan[turn]) = Over
  /\ chan' = [chan EXCEPT ![turn] = Tail(@)]
  /\ \/ /\ typing' = TRUE
        /\ turnOn' = FALSE /\ turn' = 0
        /\ UNCHANGED <<behind, at, started>>
     \/ /\ typing' = FALSE
        /\ DispatchBehind
  /\ UNCHANGED <<shown, reviewing, overlay, fetching, asks, stopped, ctxDone,
                 reply, verdict, overlays, witnessVars>>

\* The last playbackTickMsg.
TypingEnds ==
  /\ typing
  /\ typing' = FALSE
  /\ DispatchBehind
  /\ UNCHANGED <<shown, reviewing, overlay, fetching, asks, chan, stopped,
                 ctxDone, reply, verdict, overlays, witnessVars>>

\* /memory-review makes a candidate and asks; its line ends the typing.
Review ==
  /\ AtPrompt /\ ~turnOn
  /\ \E k \in 1..MaxReviews :
       /\ verdict[k] = "none"
       /\ \A j \in 1..(k - 1) : verdict[j] # "none"
       /\ verdict' = [verdict EXCEPT ![k] = "candidate"]
       /\ reviewing' = k
  /\ typing' = FALSE
  /\ UNCHANGED <<shown, overlay, fetching, turnOn, turn, behind, turnVars,
                 started, overlays, witnessVars>>

\* y, n or Esc with no overlay in front: a review takes the key ...
Judge(yes) ==
  /\ ~overlay /\ reviewing # 0
  /\ \/ verdict' = [verdict EXCEPT ![reviewing] =
                      IF yes THEN "approved" ELSE "rejected"]
     \/ UNCHANGED verdict             \* the store fails
  /\ reviewing' = 0
  /\ typing' = FALSE
  /\ UNCHANGED <<shown, overlay, fetching, turnOn, turn, behind, turnVars,
                 started, overlays, witnessVars>>

\* ... before an approval, whose answer goes into the reply channel.  The
\* loop would block there if the channel were full.
AnswerRequest(yes) ==
  /\ ~overlay /\ reviewing = 0 /\ shown # Nothing
  /\ reply[ReplyTo(shown)] = "empty"
  /\ reply' = [reply EXCEPT ![ReplyTo(shown)] = IF yes THEN "yes" ELSE "no"]
  /\ agreed' = IF yes THEN agreed \cup {shown} ELSE agreed
  /\ shown' = Nothing
  /\ UNCHANGED <<reviewing, overlay, fetching, turnOn, turn, typing, behind,
                 at, asks, chan, stopped, ctxDone, verdict, started, overlays,
                 ran>>

\* Ctrl+C, and Esc at the prompt of a turn in flight: whatever is open or
\* asked is dropped, and the turn with all that waits behind it is stopped.
Stop ==
  /\ ~AtPrompt \/ turnOn \/ typing \/ behind > 0
  /\ shown' = Nothing /\ reviewing' = 0 /\ overlay' = FALSE
  /\ stopped' = IF turn = 0 THEN stopped ELSE [stopped EXCEPT ![turn] = TRUE]
  /\ turnOn' = FALSE /\ typing' = FALSE /\ behind' = 0
  /\ UNCHANGED <<fetching, turn, at, asks, chan, ctxDone, reply, verdict,
                 started, overlays, witnessVars>>

\* A command opens the palette or a picker, at once or when it has fetched
\* what to offer, whatever is asked by then; Enter or Esc closes it.  A line
\* that a command prints ends the typing.
OpenOverlay ==
  /\ AtPrompt /\ overlays < MaxOverlays /\ ~fetching
  /\ overlays' = overlays + 1
  /\ \/ overlay' = TRUE /\ UNCHANGED <<fetching, typing>>
     \/ fetching' = TRUE /\ typing' = FALSE /\ UNCHANGED overlay
  /\ UNCHANGED <<shown, reviewing, turnOn, turn, behind, turnVars,
                 verdict, started, witnessVars>>

PickerArrives ==
  /\ fetching
  /\ fetching' = FALSE
  /\ overlay' = TRUE
  /\ UNCHANGED <<shown, reviewing, turnOn, turn, typing, behind, turnVars,
                 verdict, started, overlays, witnessVars>>

CloseOverlay ==
  /\ overlay
  /\ overlay' = FALSE
  /\ typing' \in {typing, FALSE}
  /\ UNCHANGED <<shown, reviewing, fetching, turnOn, turn, behind,
                 turnVars, verdict, started, overlays, witnessVars>>

-----------------------------------------------------------------------------
\* The goroutine of a turn.

Request(r) == <<r, asks[r]>>

\* The approver emits its request; a turn that was stopped may drop it.
AskApproval(r) ==
  /\ at[r] = "working" /\ asks[r] < MaxAsks
  /\ asks' = [asks EXCEPT ![r] = @ + 1]
  /\ \/ chan' = [chan EXCEPT ![r] = Append(@, <<r, asks'[r]>>)]
     \/ stopped[r] /\ UNCHANGED chan
  /\ at' = [at EXCEPT ![r] = "waiting"]
  /\ UNCHANGED <<modelVarsA, stopped, ctxDone, reply, verdict, started,
                 overlays, witnessVars>>

\* The two cases of its select.  After a denial the turn ends.
TakeAnswer(r) ==
  /\ at[r] = "waiting"
  /\ LET c == ReplyTo(Request(r)) IN
       /\ reply[c] # "empty"
       /\ reply' = [reply EXCEPT ![c] = "empty"]
       /\ IF reply[c] = "yes"
          THEN /\ ran' = ran \cup {Request(r)}
               /\ at' = [at EXCEPT ![r] = "working"]
          ELSE /\ at' = [at EXCEPT ![r] = "leaving"]
               /\ UNCHANGED ran
  /\ UNCHANGED <<modelVarsA, asks, chan, stopped, ctxDone, verdict, started,
                 overlays, agreed>>

GiveUp(r) ==
  /\ at[r] = "waiting" /\ ctxDone[r]
  /\ at' = [at EXCEPT ![r] = "leaving"]
  /\ UNCHANGED <<modelVarsA, asks, chan, stopped, ctxDone, reply, verdict,
                 started, overlays, witnessVars>>

\* The context of a turn ends because it was stopped, or at the deadline.
StopArrives(r) ==
  /\ stopped[r] /\ at[r] \in {"working", "waiting"} /\ ~ctxDone[r]
  /\ ctxDone' = [ctxDone EXCEPT ![r] = TRUE]
  /\ UNCHANGED <<modelVarsA, at, asks, chan, stopped, reply, verdict, started,
                 overlays, witnessVars>>

DeadlineArrives(r) ==
  /\ at[r] \in {"working", "waiting"} /\ ~ctxDone[r]
  /\ ctxDone' = [ctxDone EXCEPT ![r] = TRUE]
  /\ UNCHANGED <<modelVarsA, at, asks, chan, stopped, reply, verdict, started,
                 overlays, witnessVars>>

\* Run returns, with an answer or an error, and Done is the last event.
Leave(r) ==
  /\ at[r] \in {"working", "leaving"}
  /\ chan' = [chan EXCEPT ![r] = Append(@, Over)]
  /\ at' = [at EXCEPT ![r] = "over"]
  /\ UNCHANGED <<modelVarsA, asks, stopped, ctxDone, reply, verdict, started,
                 overlays, witnessVars>>

ApprovalNext ==
  \/ SubmitPrompt \/ HandleRequest \/ HandleOver \/ TypingEnds
  \/ Review \/ Stop \/ OpenOverlay \/ PickerArrives \/ CloseOverlay
  \/ \E yes \in BOOLEAN : Judge(yes) \/ AnswerRequest(yes)
  \/ \E r \in TurnIds :
       AskApproval(r) \/ TakeAnswer(r) \/ GiveUp(r) \/ StopArrives(r)
       \/ DeadlineArrives(r) \/ Leave(r)

ApprovalSpec == ApprovalInit /\ [][ApprovalNext]_approvalVars

-----------------------------------------------------------------------------
\* A call is let through only by a yes that was given while that very call
\* was in question, whatever became of the questions before it: a turn that
\* gave up at its deadline leaves its banner, and its answer, behind.
ConsentIsHers == ran \subseteq agreed

\* The loop never blocks on an answer: the channel of what is asked is empty.
ReplyHasRoom == shown # Nothing => reply[ReplyTo(shown)] = "empty"

\* A turn waits for the operator only with its question up, or next in line to
\* come up, and with the turn in flight, so that Ctrl+C still stops it.
QuestionsUp ==
  \A r \in TurnIds :
    at[r] = "waiting" /\ ~stopped[r] /\ reply[ReplyTo(Request(r))] = "empty"
      => /\ turn = r /\ turnOn
         /\ \/ shown = Request(r)
            \/ chan[r] # <<>> /\ Head(chan[r]) = Request(r)

\* The operator is asked before a high-risk call, every time and in time: the
\* yes to one question counts for no other, an answer never blocks the UI,
\* and every question comes up.
ApprovalsReachHer == ConsentIsHers /\ ReplyHasRoom /\ QuestionsUp
=============================================================================
