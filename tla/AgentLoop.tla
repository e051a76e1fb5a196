----------------------------- MODULE AgentLoop -----------------------------
(***************************************************************************)
(* The ReAct loop of internal/core/agent (Agent.Run and its default policy *)
(* hooks) over the runs of one conversation.  Every run is made by a new   *)
(* Agent that is given the history the run before it returned, as          *)
(* ui/tui/run.go does for each turn; the model, the tools, the operator    *)
(* and the clock are the environment.                                      *)
(*                                                                         *)
(* A tool call is abstracted to the tool and arguments it names: its       *)
(* fingerprint, hashCall.  The id of a call is its place: the position of  *)
(* the assistant message in the transcript and its index there.            *)
(***************************************************************************)
EXTENDS Integers, Sequences, FiniteSets, SequencesExt

CONSTANTS
  Calls,         \* the (tool, arguments) pairs the model may ask for
  HighRisk,      \* those whose tool is rated RiskHigh
  OverLimit,     \* those with an argument above a LimitGuardHook ceiling
  Registries,    \* the registries /setup may install, by the Calls they serve
  MaxSteps,      \* Options.MaxSteps
  MaxBatch,      \* bound on the tool calls of one assistant message
  Usages,        \* the token counts a stream may report
  MaxTokens,     \* Options.MaxTokensPerSession; 0 switches the cap off
  HasDeadline,   \* Options.MaxConversationSeconds > 0
  MaxRuns,       \* bound on the runs of the conversation
  NoCall         \* DupCallHook.last before the first call

ASSUME AgentAssumption ==
  /\ HighRisk \subseteq Calls /\ OverLimit \subseteq Calls
  /\ Registries \subseteq SUBSET Calls /\ Registries # {}
  /\ MaxSteps \in Nat \ {0} /\ MaxBatch \in Nat \ {0} /\ MaxRuns \in Nat
  /\ Usages \subseteq Nat /\ Usages # {} /\ MaxTokens \in Nat
  /\ HasDeadline \in BOOLEAN
  /\ NoCall \notin Calls

VARIABLES
  mode,       \* where Run is: "idle", "looping", "streaming", "calling",
              \* "asking" (the Approver blocks) or "executing"
  history,    \* the conversation kept by the caller between runs
  msgs,       \* the transcript of the current run
  step,       \* the loop counter
  next,       \* index of the call to dispatch in the last assistant message
  last,       \* DupCallHook.last
  count,      \* DupCallHook.count
  used,       \* CostGuardHook: tokens counted by this Agent
  registry,   \* the registry resolved at the top of Run
  live,       \* wiring.Current()
  late,       \* the deadline of the run has passed
  cancelled,  \* the caller has cancelled the run's context
  result,     \* what the last run returned
  runs,       \* runs started
  \* History variables.
  consent,    \* the operator has approved the call that is executing
  swapped,    \* the live registry was replaced during the run
  executed    \* the calls runTool got in this run: [call, consent, found]

envVars == <<live, late, cancelled, swapped>>
hookVars == <<last, count, used, consent>>
vars == <<mode, history, msgs, step, next, last, count, used, registry, live,
          late, cancelled, result, runs, consent, swapped, executed>>

-----------------------------------------------------------------------------
\* Messages.

System == [role |-> "system"]
User == [role |-> "user"]
Assistant(b) == [role |-> "assistant", calls |-> b]
Tool(p, k) == [role |-> "tool", pos |-> p, index |-> k]

IsSystem(m) == m.role = "system"

\* The position of the last assistant message, and the call it is at.
LastAssistant == SelectLastInSeq(msgs, LAMBDA m : m.role = "assistant")
Batch == msgs[LastAssistant].calls
Current == Batch[next]

Batches == UNION {[1..n -> Calls] : n \in 0..MaxBatch}

\* The messages of h but the system ones, in their order.  SelectSeq would say
\* it too, but nothing could be proved of it.
Unsystem(h) ==
  LET kept == {i \in DOMAIN h : ~IsSystem(h[i])}
  IN  [k \in 1..Cardinality(kept) |->
         h[CHOOSE i \in kept : Cardinality({j \in kept : j <= i}) = k]]

\* Variants of definitions below, each with one plausible slip.
ReplayTurnOnly(h) == <<>>
AskedOnce(c) == c \in live \cap HighRisk /\ c # last
NoAnswer == msgs
NoOneListens == FALSE

\* What a run replays of the history: everything but system messages.
Replay(h) == Unsystem(h)

\* The result message of the current call, appended to the transcript.
Answered == Append(msgs, Tool(LastAssistant, next))

-----------------------------------------------------------------------------
Init ==
  /\ mode = "idle"
  /\ history = <<>> /\ msgs = <<>>
  /\ step = 0 /\ next = 1
  /\ last = NoCall /\ count = 0 /\ used = 0
  /\ live \in Registries /\ registry = live
  /\ late = FALSE /\ cancelled = FALSE
  /\ result = "none" /\ runs = 0
  /\ consent = FALSE /\ swapped = FALSE /\ executed = <<>>

\* Run returns m to the caller, which keeps it as the conversation.
Return(res, m) ==
  /\ mode' = "idle"
  /\ result' = res
  /\ history' = m
  /\ msgs' = m

\* A turn: agent.New with fresh hooks, then the top of Run.
StartRun ==
  /\ mode = "idle" /\ runs < MaxRuns
  /\ runs' = runs + 1
  /\ registry' = live
  /\ msgs' = <<System>> \o Replay(history) \o <<User>>
  /\ mode' = "looping"
  /\ step' = 0 /\ next' = 1
  /\ last' = NoCall /\ count' = 0 /\ used' = 0
  /\ late' = FALSE /\ cancelled' = FALSE /\ swapped' = FALSE
  /\ consent' = FALSE /\ executed' = <<>>
  /\ UNCHANGED <<history, live, result>>

\* Run finds no skill or no registry and returns no messages; the caller
\* keeps the conversation as it is.
RefuseRun ==
  /\ mode = "idle" /\ runs < MaxRuns
  /\ runs' = runs + 1
  /\ result' = "refused"
  /\ UNCHANGED <<mode, history, msgs, step, next, hookVars, registry, envVars,
                 executed>>

StepsLeft == step < MaxSteps

\* The head of the loop: the step budget, then the deadline.
LoopHead ==
  /\ mode = "looping"
  /\ \/ /\ ~StepsLeft
        /\ Return("max_steps", msgs)
     \/ /\ StepsLeft /\ late
        /\ Return("timeout", msgs)
     \/ /\ StepsLeft /\ ~late
        /\ mode' = "streaming"
        /\ UNCHANGED <<history, msgs, result>>
  /\ UNCHANGED <<step, next, hookVars, registry, envVars, runs, executed>>

OverBudget(u) == MaxTokens > 0 /\ used + u > MaxTokens

\* CostGuardHook.OnUsage counts what the stream reports, also when the stream
\* fails later.
Count(u) ==
  /\ used' = used + u

\* The stream fails: by the provider, or because the run's context is done,
\* which is a timeout when the deadline did it.
StreamFails ==
  /\ mode = "streaming"
  /\ \E u \in Usages \cup {0} : ~OverBudget(u) /\ Count(u)
  /\ \/ Return("provider_error", msgs)
     \/ cancelled /\ Return("cancelled", msgs)
     \/ late /\ Return("timeout", msgs)
  /\ UNCHANGED <<step, next, last, count, consent, registry, envVars, runs,
                 executed>>

\* The stream reports u tokens: CostGuardHook.OnUsage counts them, and ends
\* the run when they are too many.  Otherwise the assistant message is
\* recorded; without tool calls it is the final answer.
StreamEnds ==
  /\ mode = "streaming"
  /\ \E u \in Usages :
       /\ Count(u)
       /\ \/ /\ OverBudget(u)
             /\ Return("budget", msgs)
             /\ UNCHANGED next
          \/ /\ ~OverBudget(u)
             /\ \E b \in Batches :
                  LET m == Append(msgs, Assistant(b)) IN
                  \/ /\ b = <<>>
                     /\ Return("answer", m)
                     /\ UNCHANGED next
                  \/ /\ b # <<>>
                     /\ mode' = "calling"
                     /\ msgs' = m
                     /\ next' = 1
                     /\ UNCHANGED <<history, result>>
  /\ UNCHANGED <<step, last, count, consent, registry, envVars, runs, executed>>

\* DupCallHook: the same call for the third time in a row.
Stuck(c) == c = last /\ count + 1 >= 3

\* ApprovalHook asks for a RiskHigh tool, which it looks up in the live
\* registry; a tool it does not find there passes.
NeedsConsent(c) == c \in live \cap HighRisk

\* A BeforeToolCall error is recorded as the result of the call and ends Run;
\* the calls behind it in the same message stay without a result.
Abort(res) == Return(res, Answered)

\* dispatchTool up to the tool: the hooks in the order agent.New registers.
Dispatch ==
  /\ mode = "calling"
  /\ LET c == Current IN
     /\ last' = c
     /\ count' = IF c = last THEN count + 1 ELSE 1
     /\ \/ /\ Stuck(c)
           /\ Abort("duplicate")
        \/ /\ ~Stuck(c) /\ c \in OverLimit
           /\ Abort("limit")
        \/ /\ ~Stuck(c) /\ c \notin OverLimit
           /\ mode' = IF NeedsConsent(c) THEN "asking" ELSE "executing"
           /\ UNCHANGED <<history, msgs, result>>
  /\ consent' = FALSE
  /\ UNCHANGED <<step, next, used, registry, envVars, runs, executed>>

\* The Approver returns: the operator's word, or the end of the context.
\* Either way of not approving is ErrApprovalDenied.
Approve ==
  /\ mode = "asking"
  /\ mode' = "executing"
  /\ consent' = TRUE
  /\ UNCHANGED <<history, msgs, step, next, last, count, used, registry,
                 envVars, result, runs, executed>>

Deny ==
  /\ mode = "asking"
  /\ Abort("denied")
  /\ UNCHANGED <<step, next, hookVars, registry, envVars, runs, executed>>

\* The Approver selects on ctx.Done too.
ContextDone == late \/ cancelled

ApprovalAbandoned ==
  /\ mode = "asking" /\ ContextDone
  /\ Abort(IF late THEN "denied_late" ELSE "denied_cancelled")
  /\ UNCHANGED <<step, next, hookVars, registry, envVars, runs, executed>>

\* runTool and AfterToolCall: an unknown tool and a tool that fails answer
\* with an error, a tool that is found runs; either way the run goes on.
Execute ==
  /\ mode = "executing"
  /\ executed' = Append(executed, [call |-> Current, consent |-> consent,
                                   found |-> Current \in registry])
  /\ msgs' = Answered
  /\ \/ /\ next < Len(Batch)
        /\ mode' = "calling"
        /\ next' = next + 1
        /\ UNCHANGED step
     \/ /\ next = Len(Batch)
        /\ mode' = "looping"
        /\ step' = step + 1
        /\ UNCHANGED next
  /\ UNCHANGED <<history, hookVars, registry, envVars, result, runs>>

-----------------------------------------------------------------------------
\* The environment: the deadline passes, the caller cancels, /setup installs
\* another registry.

DeadlinePasses ==
  /\ mode # "idle" /\ HasDeadline /\ ~late
  /\ late' = TRUE
  /\ UNCHANGED <<mode, history, msgs, step, next, hookVars, registry, live,
                 cancelled, swapped, result, runs, executed>>

Cancel ==
  /\ mode # "idle" /\ ~cancelled
  /\ cancelled' = TRUE
  /\ UNCHANGED <<mode, history, msgs, step, next, hookVars, registry, live, late,
                 swapped, result, runs, executed>>

SwapRegistry ==
  /\ \E r \in Registries \ {live} : live' = r
  /\ swapped' = TRUE
  /\ UNCHANGED <<mode, history, msgs, step, next, hookVars, registry, late,
                 cancelled, result, runs, executed>>

Loop ==
  \/ LoopHead \/ StreamFails \/ StreamEnds \/ Dispatch \/ ApprovalAbandoned
  \/ Execute

Next ==
  \/ StartRun \/ RefuseRun \/ Loop \/ Approve \/ Deny
  \/ DeadlinePasses \/ Cancel \/ SwapRegistry

\* Run goes on by itself: streams end, tools honour the context.  The clock
\* reaches a deadline.  Nothing makes the operator answer.
Fairness == WF_vars(Loop) /\ WF_vars(DeadlinePasses)

Spec == Init /\ [][Next]_vars
FairSpec == Spec /\ Fairness

-----------------------------------------------------------------------------
\* Properties.

Modes == {"idle", "looping", "streaming", "calling", "asking", "executing"}
Results == {"none", "answer", "max_steps", "timeout", "provider_error",
            "cancelled", "budget", "duplicate", "limit", "denied",
            "denied_late", "denied_cancelled", "refused"}
Messages == {System, User} \cup [role : {"assistant"}, calls : Seq(Calls)]
              \cup [role : {"tool"}, pos : Nat, index : Nat]

\* The types of all variables; a call is dispatched only from a message that
\* has it.
TypeOK ==
  /\ mode \in Modes
  /\ history \in Seq(Messages) /\ msgs \in Seq(Messages)
  /\ step \in 0..MaxSteps /\ next \in 1..MaxBatch
  /\ last \in Calls \cup {NoCall} /\ count \in 0..3
  /\ used \in Nat
  /\ registry \in Registries /\ live \in Registries
  /\ late \in BOOLEAN /\ cancelled \in BOOLEAN /\ swapped \in BOOLEAN
  /\ result \in Results /\ runs \in 0..MaxRuns /\ consent \in BOOLEAN
  /\ executed \in Seq([call : Calls, consent : BOOLEAN, found : BOOLEAN])
  /\ mode \in {"calling", "asking", "executing"} => next <= Len(Batch)

\* The positions of the assistant messages, and of the results of a call.
Turns == {p \in DOMAIN msgs : msgs[p].role = "assistant"}
ResultsOf(p, k) ==
  {q \in DOMAIN msgs : msgs[q].role = "tool" /\ msgs[q].pos = p /\ msgs[q].index = k}

\* Every call has one result at most, at its own place behind the message
\* that made it; and it has none only if the run ended before its turn or is
\* not there yet.  In particular no result answers a call of another message,
\* in the whole conversation, however its runs ended.
ResultsInPlace ==
  /\ \A p \in Turns : \A k \in 1..Len(msgs[p].calls) :
       LET missing == \/ p + k > Len(msgs)
                      \/ msgs[p + k].role = "user"
                      \/ \E j \in 1..k : p + j <= Len(msgs) /\ msgs[p + j].role = "user"
       IN  ResultsOf(p, k) = IF missing THEN {} ELSE {p + k}
  /\ \A q \in DOMAIN msgs : msgs[q].role = "tool" =>
       msgs[q].pos \in Turns /\ msgs[q].index \in 1..Len(msgs[msgs[q].pos].calls)

\* The model is asked again only when every call of this run has its result.
RequestsComplete ==
  mode = "streaming" =>
    \/ Last(msgs).role = "user"
    \/ /\ Turns # {}
       /\ Len(msgs) = LastAssistant + Len(Batch)

\* One run makes at most MaxSteps requests that are answered with calls.
StepsBounded ==
  Cardinality({p \in Turns : \A q \in p..Len(msgs) : msgs[q].role # "user"})
    <= MaxSteps

\* The same call is never executed three times in a row: not in one message,
\* and not over several.
NeverThrice ==
  \A i \in 1..(Len(executed) - 2) :
    ~(/\ executed[i].call = executed[i + 1].call
      /\ executed[i].call = executed[i + 2].call)

\* A RiskHigh tool runs only with the operator's consent to this very call,
\* given that the registry was not replaced while the run was under way.
ConsentFirst ==
  \A i \in DOMAIN executed :
    executed[i].call \in HighRisk /\ executed[i].found =>
      executed[i].consent \/ swapped

\* Once the cap is exceeded the Agent makes no request and executes nothing.
BudgetEndsRun == MaxTokens > 0 /\ used > MaxTokens => mode = "idle"

\* What the conversation holds: the history without system messages.
Spoken(h) == Unsystem(h)

\* No run loses what the conversation already held, however it ends.
HistoryKept == [][IsPrefix(Spoken(history), Spoken(history'))]_history

\* Every run returns, also when the operator never answers the approval
\* prompt: the deadline ends the wait.
RunReturns == mode # "idle" ~> mode = "idle"

\* A transcript that a provider accepts: results stand where they belong,
\* none is missing when the model is asked again, and a run adds no more
\* messages with calls to it than the step budget allows.
TranscriptWellFormed ==
  TypeOK /\ ResultsInPlace /\ RequestsComplete /\ StepsBounded

\* What the hooks and caps let through, over all the steps of a run.
GatesHold == ConsentFirst /\ NeverThrice /\ BudgetEndsRun
=============================================================================
