-------------------------- MODULE AgentLoop_proofs --------------------------
(***************************************************************************)
(* Theorems about AgentLoop, for any set of calls and registries, any      *)
(* batch size and any step budget; about ApprovalGate, for any number of   *)
(* turns, approvals, reviews and overlays; and about ProfileScope, for any *)
(* profiles, tools and one-shot runs.                                      *)
(*                                                                         *)
(* GatesHold speaks of the calls that were executed; what makes it hold is *)
(* in the state of the hooks while a call is on its way.  The invariant    *)
(* relates the two: DupCallHook's last and count to the end of executed,   *)
(* and the operator's consent to the call that waits to be executed.  The  *)
(* transcript has an invariant of its own, TalkInv: where each result      *)
(* stands, and which calls of the last message have theirs by now.         *)
(***************************************************************************)
EXTENDS AgentLoop, ApprovalGate, ProfileScope, TLAPS,
        SequenceTheorems, FiniteSetTheorems

-----------------------------------------------------------------------------
(***************************************************************************)
(* The inductive invariant.                                                *)
(***************************************************************************)

LoopTypeOK ==
  /\ mode \in Modes
  /\ count \in Nat /\ used \in Nat
  /\ \E S : executed \in Seq(S)

\* Between DupCallHook and runTool, for the call on its way.
Underway == mode \in {"asking", "executing"}

\* The last call executed, and whether it repeated the one before it.
LastDone == executed[Len(executed)].call
DoneTwice ==
  Len(executed) >= 2 /\ executed[Len(executed) - 1].call = LastDone

\* Outside a dispatch the hook has counted the calls executed last.
CountsDone ==
  mode \in {"looping", "streaming", "calling"} /\ Len(executed) > 0 =>
    /\ last = LastDone
    /\ count >= IF DoneTwice THEN 2 ELSE 1

\* In a dispatch it has counted the call on its way too.
CountsUnderway ==
  Underway =>
    /\ last = Current /\ count >= 1
    /\ Len(executed) > 0 /\ LastDone = last => count >= 2 /\ ~DoneTwice

\* Unless the registry was replaced, what is executed is what was asked about.
ConsentUnderway ==
  mode = "executing" => consent \/ swapped \/ ~NeedsConsent(Current)

OneRegistry == swapped \/ live = registry

GateInv ==
  /\ LoopTypeOK
  /\ CountsDone /\ CountsUnderway
  /\ ConsentUnderway /\ OneRegistry
  /\ GatesHold

LEMMA GateInitially == Init => GateInv
  <1> SUFFICES ASSUME Init PROVE GateInv
    OBVIOUS
  <1>1. <<>> \in Seq({}) /\ Len(<<>>) = 0
    OBVIOUS
  <1>2. LoopTypeOK
    BY <1>1 DEF Init, LoopTypeOK, Modes
  <1>3. GatesHold
    BY <1>1, AgentAssumption
    DEF Init, GatesHold, ConsentFirst, NeverThrice, BudgetEndsRun
  <1> QED
    BY <1>2, <1>3
    DEF Init, GateInv, CountsDone, CountsUnderway, Underway, ConsentUnderway,
        OneRegistry

-----------------------------------------------------------------------------
(***************************************************************************)
(* The steps.                                                              *)
(***************************************************************************)

\* Nothing is claimed of a run that has returned but what it executed.
LEMMA GateReturned ==
  ASSUME GateInv, mode' = "idle", executed' = executed,
         count' \in Nat, used' \in Nat,
         swapped' = swapped, live' = live, registry' = registry
  PROVE  GateInv'
  BY DEF GateInv, LoopTypeOK, Modes, CountsDone, CountsUnderway, Underway,
         ConsentUnderway, OneRegistry, GatesHold, ConsentFirst, NeverThrice,
         BudgetEndsRun

\* A turn begins with fresh hooks and nothing executed.
LEMMA GateStart == GateInv /\ StartRun => GateInv'
  <1> SUFFICES ASSUME GateInv, StartRun PROVE GateInv'
    OBVIOUS
  <1>1. <<>> \in Seq({}) /\ Len(<<>>) = 0
    OBVIOUS
  <1>2. executed' = <<>>
    BY DEF StartRun
  <1>3. LoopTypeOK'
    BY <1>1, <1>2 DEF StartRun, LoopTypeOK, Modes
  <1>4. GatesHold'
    BY <1>1, <1>2, AgentAssumption
    DEF StartRun, GatesHold, ConsentFirst, NeverThrice, BudgetEndsRun
  <1> QED
    BY <1>1, <1>2, <1>3, <1>4
    DEF StartRun, GateInv, CountsDone, CountsUnderway, Underway,
        ConsentUnderway, OneRegistry

\* The head of the loop returns or asks the model.
LEMMA GateHead == GateInv /\ LoopHead => GateInv'
  <1> SUFFICES ASSUME GateInv, LoopHead PROVE GateInv'
    OBVIOUS
  <1>1. CASE mode' = "idle"
    BY <1>1, GateReturned DEF LoopHead, GateInv, LoopTypeOK, hookVars, envVars
  <1>2. CASE mode' = "streaming"
    BY <1>2
    DEF LoopHead, GateInv, LoopTypeOK, Modes, CountsDone, LastDone, DoneTwice,
        CountsUnderway, Underway, ConsentUnderway, OneRegistry, GatesHold,
        ConsentFirst, NeverThrice, BudgetEndsRun, hookVars, envVars
  <1> QED
    BY <1>1, <1>2 DEF LoopHead, Return

\* The stream fails: the run returns.
LEMMA GateFails == GateInv /\ StreamFails => GateInv'
  <1> SUFFICES ASSUME GateInv, StreamFails PROVE GateInv'
    OBVIOUS
  <1>1. mode' = "idle"
    BY DEF StreamFails, Return
  <1>2. used' \in Nat
    BY AgentAssumption DEF StreamFails, Count, GateInv, LoopTypeOK
  <1> QED
    BY <1>1, <1>2, GateReturned DEF StreamFails, GateInv, LoopTypeOK, envVars

\* The stream ends: the run goes on only within its budget.
LEMMA GateEnds == GateInv /\ StreamEnds => GateInv'
  <1> SUFFICES ASSUME GateInv, StreamEnds PROVE GateInv'
    OBVIOUS
  <1>1. used' \in Nat
    BY AgentAssumption DEF StreamEnds, Count, GateInv, LoopTypeOK
  <1>2. CASE mode' = "idle"
    BY <1>1, <1>2, GateReturned DEF StreamEnds, GateInv, LoopTypeOK, envVars
  <1>3. CASE mode' = "calling"
    <2>1. MaxTokens > 0 => used' <= MaxTokens
      BY <1>3, AgentAssumption
      DEF StreamEnds, Return, Count, OverBudget, GateInv, LoopTypeOK
    <2>2. BudgetEndsRun'
      BY <2>1, <1>1, AgentAssumption DEF BudgetEndsRun
    <2> QED
      BY <1>1, <1>3, <2>2
      DEF StreamEnds, GateInv, LoopTypeOK, Modes, CountsDone, LastDone,
          DoneTwice, CountsUnderway, Underway, ConsentUnderway, OneRegistry,
          GatesHold, ConsentFirst, NeverThrice, envVars
  <1> QED
    BY <1>2, <1>3 DEF StreamEnds, Return

\* The hooks: a third call in a row ends the run, a call that needs consent
\* waits for it.
LEMMA GateDispatch == GateInv /\ Dispatch => GateInv'
  <1> SUFFICES ASSUME GateInv, Dispatch PROVE GateInv'
    OBVIOUS
  <1>1. count' \in Nat
    BY DEF Dispatch, GateInv, LoopTypeOK
  <1>2. CASE mode' = "idle"
    BY <1>1, <1>2, GateReturned DEF Dispatch, GateInv, LoopTypeOK, envVars
  <1>3. CASE mode' # "idle"
    <2>1. /\ mode = "calling" /\ ~Stuck(Current)
          /\ mode' = IF NeedsConsent(Current) THEN "asking" ELSE "executing"
          /\ msgs' = msgs /\ next' = next
          /\ last' = Current
          /\ count' = IF Current = last THEN count + 1 ELSE 1
          /\ executed' = executed /\ used' = used
          /\ UNCHANGED <<live, registry, swapped>>
      BY <1>3 DEF Dispatch, Abort, Return, envVars
    <2>2. Current' = Current
      BY <2>1 DEF Current, Batch, LastAssistant, SelectLastInSeq
    <2>3. LoopTypeOK'
      BY <2>1, <1>1 DEF GateInv, LoopTypeOK, Modes
    <2>4. CountsUnderway'
      BY <2>1, <2>2
      DEF GateInv, LoopTypeOK, CountsDone, LastDone, DoneTwice, CountsUnderway,
          Stuck
    <2>5. ConsentUnderway' /\ OneRegistry'
      BY <2>1, <2>2
      DEF GateInv, ConsentUnderway, OneRegistry, NeedsConsent
    <2>6. GatesHold'
      BY <2>1 DEF GateInv, GatesHold, ConsentFirst, NeverThrice, BudgetEndsRun
    <2> QED
      BY <2>1, <2>3, <2>4, <2>5, <2>6 DEF GateInv, CountsDone
  <1> QED
    BY <1>2, <1>3

\* The operator consents to the call on its way.
LEMMA GateApprove == GateInv /\ Approve => GateInv'
  <1> SUFFICES ASSUME GateInv, Approve PROVE GateInv'
    OBVIOUS
  <1>1. Current' = Current
    BY DEF Approve, Current, Batch, LastAssistant, SelectLastInSeq
  <1> QED
    BY <1>1
    DEF Approve, GateInv, LoopTypeOK, Modes, CountsDone, CountsUnderway,
        Underway, LastDone, DoneTwice, ConsentUnderway, OneRegistry, GatesHold,
        ConsentFirst, NeverThrice, BudgetEndsRun, envVars

\* runTool: the call joins those executed.
LEMMA GateExecute == GateInv /\ Execute => GateInv'
  <1> SUFFICES ASSUME GateInv, Execute PROVE GateInv'
    OBVIOUS
  <1> DEFINE done == [call |-> Current, consent |-> consent,
                      found |-> Current \in registry]
             n == Len(executed)
  <1>1. /\ mode = "executing" /\ mode' \in {"calling", "looping"}
        /\ executed' = Append(executed, done)
        /\ last' = last /\ count' = count /\ used' = used
        /\ UNCHANGED <<live, registry, swapped>>
    BY DEF Execute, hookVars, envVars
  <1>2. PICK S : executed \in Seq(S)
    BY DEF GateInv, LoopTypeOK
  <1>3. executed \in Seq(S \cup {done})
    BY <1>2
  <1>4. executed' \in Seq(S \cup {done})
    BY <1>1, <1>3
  <1>5. /\ n \in Nat /\ Len(executed') = n + 1
        /\ executed'[n + 1] = done
        /\ \A i \in 1..n : executed'[i] = executed[i]
    BY <1>1, <1>2
  <1>6. LoopTypeOK'
    BY <1>1, <1>4 DEF GateInv, LoopTypeOK, Modes
  <1>7. done.call = last /\ count >= 1
    BY <1>1 DEF GateInv, CountsUnderway, Underway
  <1>8. CountsDone'
    <2>1. LastDone' = last
      BY <1>5, <1>7 DEF LastDone
    <2>2. DoneTwice' => n > 0 /\ LastDone = last
      BY <1>5, <2>1 DEF DoneTwice, LastDone
    <2>3. DoneTwice' => count >= 2
      BY <1>1, <2>2 DEF GateInv, CountsUnderway, Underway
    <2> QED
      BY <1>1, <1>7, <2>1, <2>3 DEF CountsDone
  <1>9. NeverThrice'
    <2> SUFFICES ASSUME NEW i \in 1..(n - 1),
                        executed'[i].call = executed'[i + 1].call,
                        executed'[i].call = executed'[i + 2].call
                 PROVE  FALSE
      BY <1>5 DEF NeverThrice
    <2>1. CASE i < n - 1
      <3>1. /\ i \in 1..(n - 2) /\ i \in 1..n /\ i + 1 \in 1..n /\ i + 2 \in 1..n
        BY <1>5, <2>1
      <3>2. /\ executed[i].call = executed[i + 1].call
            /\ executed[i].call = executed[i + 2].call
        BY <1>5, <3>1
      <3> QED
        BY <3>1, <3>2 DEF GateInv, GatesHold, NeverThrice
    <2>2. CASE i = n - 1
      <3>1. n >= 2 /\ i = n - 1 /\ i \in 1..n /\ n \in 1..n
        BY <1>5, <2>2
      <3>2. executed[n - 1].call = last /\ executed[n].call = last
        <4>1. i + 1 = n /\ i + 2 = n + 1
          BY <3>1
        <4>2. /\ executed'[n - 1].call = executed'[n].call
              /\ executed'[n - 1].call = executed'[n + 1].call
          BY <3>1, <4>1
        <4>3. executed'[n - 1] = executed[n - 1] /\ executed'[n] = executed[n]
          BY <1>5, <3>1
        <4> QED
          BY <1>5, <1>7, <4>2, <4>3
      <3> QED
        BY <1>1, <3>1, <3>2
        DEF GateInv, CountsUnderway, Underway, LastDone, DoneTwice
    <2> QED
      BY <1>5, <2>1, <2>2
  <1>10. ConsentFirst'
    <2> SUFFICES ASSUME NEW i \in 1..(n + 1),
                        executed'[i].call \in HighRisk, executed'[i].found
                 PROVE  executed'[i].consent \/ swapped
      BY <1>1, <1>4, <1>5 DEF ConsentFirst
    <2>1. CASE i <= n
      <3>1. i \in DOMAIN executed /\ executed'[i] = executed[i]
        BY <1>2, <1>5, <2>1
      <3> QED
        BY <3>1 DEF GateInv, GatesHold, ConsentFirst
    <2>2. CASE i = n + 1
      <3>1. executed'[i] = done
        BY <1>5, <2>2
      <3>2. Current \in HighRisk /\ Current \in registry
        <4>1. done.call = Current /\ (done.found <=> Current \in registry)
          OBVIOUS
        <4>2. done.call \in HighRisk /\ done.found
          BY <3>1, Zenon
        <4> QED
          BY <4>1, <4>2, Zenon
      <3>3. consent \/ swapped
        BY <1>1, <3>2 DEF GateInv, ConsentUnderway, OneRegistry, NeedsConsent
      <3> QED
        BY <3>1, <3>3
    <2> QED
      BY <1>5, <2>1, <2>2
  <1> QED
    BY <1>1, <1>6, <1>8, <1>9, <1>10
    DEF GateInv, CountsUnderway, Underway, ConsentUnderway, OneRegistry,
        GatesHold, BudgetEndsRun

\* The environment changes nothing the gates rest on but the registry, and
\* says so.
LEMMA GateEnvironment ==
  GateInv /\ (DeadlinePasses \/ Cancel \/ SwapRegistry \/ RefuseRun) => GateInv'
  <1> SUFFICES ASSUME GateInv,
                      DeadlinePasses \/ Cancel \/ SwapRegistry \/ RefuseRun
               PROVE  GateInv'
    OBVIOUS
  <1>1. /\ UNCHANGED <<mode, msgs, next, last, count, used, registry, consent,
                       executed>>
        /\ swapped' \/ (swapped' = swapped /\ live' = live)
    BY DEF DeadlinePasses, Cancel, SwapRegistry, RefuseRun, hookVars, envVars
  <1>2. Current' = Current /\ LastDone' = LastDone /\ DoneTwice' = DoneTwice
    BY <1>1 DEF Current, Batch, LastAssistant, SelectLastInSeq, LastDone, DoneTwice
  <1>3. LoopTypeOK' /\ CountsDone' /\ CountsUnderway'
    BY <1>1, <1>2
    DEF GateInv, LoopTypeOK, CountsDone, CountsUnderway, Underway
  <1>4. ConsentUnderway' /\ OneRegistry'
    BY <1>1, <1>2 DEF GateInv, ConsentUnderway, OneRegistry, NeedsConsent
  <1>5. GatesHold'
    BY <1>1 DEF GateInv, GatesHold, ConsentFirst, NeverThrice, BudgetEndsRun
  <1> QED
    BY <1>3, <1>4, <1>5 DEF GateInv

\* Every step of the loop and of its environment keeps the invariant.
LEMMA GateStep == GateInv /\ [Next]_vars => GateInv'
  <1> SUFFICES ASSUME GateInv, [Next]_vars PROVE GateInv'
    OBVIOUS
  <1>1. CASE Deny \/ ApprovalAbandoned
    BY <1>1, GateReturned
    DEF Deny, ApprovalAbandoned, Abort, Return, hookVars, envVars, GateInv,
        LoopTypeOK
  <1>2. CASE UNCHANGED vars
    <2>1. Current' = Current
      BY <1>2 DEF vars, Current, Batch, LastAssistant, SelectLastInSeq
    <2> QED
      BY <1>2, <2>1
      DEF vars, GateInv, LoopTypeOK, CountsDone, CountsUnderway, Underway,
          LastDone, DoneTwice, ConsentUnderway, OneRegistry, NeedsConsent,
          GatesHold, ConsentFirst, NeverThrice, BudgetEndsRun
  <1> QED
    BY <1>1, <1>2, GateStart, GateHead, GateFails, GateEnds, GateDispatch,
       GateApprove, GateExecute, GateEnvironment
    DEF Next, Loop

-----------------------------------------------------------------------------
(***************************************************************************)
(* Theorems.                                                               *)
(***************************************************************************)

\* A RiskHigh tool runs only with consent, no call is executed three times in
\* a row over any number of messages, and a run that exceeded its token
\* budget does nothing any more: whatever the model asks for, the operator
\* answers and /setup installs meanwhile.
THEOREM GatesAlwaysHold == Spec => []GatesHold
  <1>1. GateInv => GatesHold
    BY DEF GateInv
  <1> QED
    BY <1>1, GateInitially, GateStep, PTL DEF Spec

-----------------------------------------------------------------------------
(***************************************************************************)
(* The transcript.  It begins with the one system message, grows at its    *)
(* end, and begins with the conversation so far while a run is on; every   *)
(* result stands as far behind its message as its call stands in it.       *)
(***************************************************************************)

Shaped(h) ==
  h # <<>> => h[1] = System /\ \A i \in 2..Len(h) : h[i].role # "system"

Begins(h, m) ==
  Len(h) <= Len(m) /\ \A i \in 1..Len(h) : m[i] = h[i]

\* A result stands behind its message, with nothing but results between; and
\* where no user message intervenes, a place behind a message holds a result.
Placed ==
  /\ \A p \in Turns : \A k \in 1..Len(msgs[p].calls) :
       p + k <= Len(msgs) /\ (\A j \in 1..k : msgs[p + j].role # "user") =>
         msgs[p + k] = Tool(p, k)
  /\ \A q \in DOMAIN msgs : msgs[q].role = "tool" =>
       /\ msgs[q].pos \in Turns
       /\ msgs[q].index \in 1..Len(msgs[msgs[q].pos].calls)
       /\ q = msgs[q].pos + msgs[q].index
       /\ \A j \in 1..msgs[q].index : msgs[msgs[q].pos + j].role = "tool"

\* l is the last assistant message.
IsLast(l) == l \in Turns /\ \A p \in Turns : p <= l

\* All calls of the run have their result.
AllAnswered ==
  /\ msgs # <<>>
  /\ \/ msgs[Len(msgs)].role = "user"
     \/ \E l \in Turns : IsLast(l) /\ Len(msgs) = l + Len(msgs[l].calls)

\* The calls of the last message before the next one have theirs.
InBatch ==
  \E l \in Turns :
    /\ IsLast(l)
    /\ Len(msgs) = l + next - 1 /\ next <= Len(msgs[l].calls)
    /\ \A j \in (l + 1)..Len(msgs) : msgs[j].role = "tool"

\* The assistant messages of the run.
Mine == {p \in Turns : \A q \in p..Len(msgs) : msgs[q].role # "user"}

Dispatching == {"calling", "asking", "executing"}

CountedIn ==
  Cardinality(Mine) <= IF mode = "idle" THEN MaxSteps
                       ELSE IF mode \in Dispatching THEN step + 1 ELSE step

TalkTypeOK ==
  /\ mode \in Modes
  /\ history \in Seq(Messages) /\ msgs \in Seq(Messages)
  /\ step \in 0..MaxSteps /\ next \in 1..MaxBatch
  /\ last \in Calls \cup {NoCall} /\ count \in 0..3
  /\ used \in Nat
  /\ registry \in Registries /\ live \in Registries
  /\ late \in BOOLEAN /\ cancelled \in BOOLEAN /\ swapped \in BOOLEAN
  /\ result \in Results /\ runs \in 0..MaxRuns /\ consent \in BOOLEAN
  /\ executed \in Seq([call : Calls, consent : BOOLEAN, found : BOOLEAN])

ShortBatches == \A p \in Turns : Len(msgs[p].calls) <= MaxBatch

TalkInv ==
  /\ TalkTypeOK
  /\ Shaped(history) /\ Shaped(msgs) /\ Begins(history, msgs)
  /\ mode = "idle" => msgs = history
  /\ mode # "idle" => msgs # <<>> /\ count <= 2
  /\ mode \in Dispatching \cup {"streaming"} => step < MaxSteps
  /\ ShortBatches /\ Placed
  /\ mode \in {"looping", "streaming"} => AllAnswered
  /\ mode \in Dispatching => InBatch
  /\ CountedIn

\* The kinds of messages.
LEMMA MessageKinds ==
  /\ System \in Messages /\ User \in Messages
  /\ System.role = "system" /\ User.role = "user"
  /\ \A b \in Seq(Calls) : /\ Assistant(b) \in Messages /\ Assistant(b).role = "assistant"
                           /\ Assistant(b).calls = b
  /\ \A p, k \in Nat : /\ Tool(p, k) \in Messages /\ Tool(p, k).role = "tool"
                       /\ Tool(p, k).pos = p /\ Tool(p, k).index = k
  /\ \A m \in Messages : /\ m.role = "assistant" => m.calls \in Seq(Calls)
                         /\ m.role = "tool" => m.pos \in Nat /\ m.index \in Nat
                         /\ m.role \in {"system", "user", "assistant", "tool"}
                         /\ m.role = "system" => m = System
  BY DEF Messages, System, User, Assistant, Tool

\* The calls of a message are Calls.
LEMMA CallsOf ==
  ASSUME msgs \in Seq(Messages), NEW p \in Turns
  PROVE  /\ p \in 1..Len(msgs) /\ msgs[p] \in Messages /\ msgs[p].role = "assistant"
         /\ msgs[p].calls \in Seq(Calls) /\ Len(msgs[p].calls) \in Nat
  <1>1. p \in 1..Len(msgs) /\ msgs[p] \in Messages /\ msgs[p].role = "assistant"
    BY DEF Turns
  <1>2. msgs[p].calls \in Seq(Calls)
    BY <1>1, MessageKinds
  <1> QED
    BY <1>1, <1>2

\* LastAssistant is the greatest of the assistant messages.
LEMMA TheLast ==
  ASSUME msgs \in Seq(Messages), NEW l \in Turns, IsLast(l)
  PROVE  LastAssistant = l /\ Batch = msgs[l].calls
  <1> DEFINE I == {i \in 1..Len(msgs) : msgs[i].role = "assistant"}
  <1>1. I = Turns
    BY DEF Turns
  <1>2. l \in I /\ \A y \in I : l >= y
    BY <1>1 DEF IsLast, Turns
  <1>3. \A x \in I : (\A y \in I : x >= y) => x = l
    BY <1>2
  <1>4. Max(I) = l
    BY <1>2, <1>3 DEF Max
  <1>5. LastAssistant = l
    BY <1>2, <1>4 DEF LastAssistant, SelectLastInSeq
  <1> QED
    BY <1>5 DEF Batch

\* What a message at the end leaves as it was.
LEMMA OneMessageMore ==
  ASSUME msgs \in Seq(Messages), NEW m \in Messages, msgs' = Append(msgs, m)
  PROVE  /\ msgs' \in Seq(Messages) /\ msgs' # <<>>
         /\ Len(msgs) \in Nat /\ Len(msgs') = Len(msgs) + 1
         /\ DOMAIN msgs = 1..Len(msgs) /\ DOMAIN msgs' = 1..(Len(msgs) + 1)
         /\ \A i \in 1..Len(msgs) : msgs'[i] = msgs[i] /\ msgs[i] \in Messages
         /\ msgs'[Len(msgs) + 1] = m
         /\ Turns \subseteq 1..Len(msgs)
         /\ Turns' = Turns \cup {i \in {Len(msgs) + 1} : m.role = "assistant"}
         /\ \A p \in Turns : msgs'[p] = msgs[p]
  <1>1. /\ msgs' \in Seq(Messages) /\ msgs' # <<>>
        /\ Len(msgs) \in Nat /\ Len(msgs') = Len(msgs) + 1
        /\ DOMAIN msgs = 1..Len(msgs) /\ DOMAIN msgs' = 1..(Len(msgs) + 1)
        /\ \A i \in 1..Len(msgs) : msgs'[i] = msgs[i] /\ msgs[i] \in Messages
        /\ msgs'[Len(msgs) + 1] = m
    OBVIOUS
  <1>2. Turns \subseteq 1..Len(msgs)
    BY <1>1 DEF Turns
  <1>3. Turns' = Turns \cup {i \in {Len(msgs) + 1} : m.role = "assistant"}
    BY <1>1 DEF Turns
  <1> QED
    BY <1>1, <1>2, <1>3

\* The results keep their places when a user speaks, when the model answers
\* with no call open, and when the next result comes.
LEMMA PlacedGrows ==
  ASSUME msgs \in Seq(Messages), Placed, NEW m \in Messages, msgs' = Append(msgs, m),
         next \in Nat \ {0},
         \/ m.role = "user"
         \/ m.role = "assistant" /\ AllAnswered
         \/ InBatch /\ m = Tool(LastAssistant, next)
  PROVE  Placed'
  <1> DEFINE n == Len(msgs)
  <1>0. /\ n \in Nat /\ Len(msgs') = n + 1
        /\ DOMAIN msgs = 1..n /\ DOMAIN msgs' = 1..(n + 1)
        /\ \A i \in 1..n : msgs'[i] = msgs[i] /\ msgs[i] \in Messages
        /\ msgs'[n + 1] = m
        /\ Turns \subseteq 1..n
        /\ Turns' = Turns \cup {i \in {n + 1} : m.role = "assistant"}
        /\ \A p \in Turns : msgs'[p] = msgs[p]
    BY OneMessageMore
  <1> HIDE DEF n
  \* Behind a message no other message with calls may follow without a user
  \* between.
  <1>1. ASSUME NEW p \in Turns, NEW k \in 1..Len(msgs[p].calls), p + k = n + 1,
               \A j \in 1..k : msgs'[p + j].role # "user"
        PROVE  msgs'[p + k] = Tool(p, k)
    <2>1. /\ p \in Nat /\ k \in Nat /\ p <= n /\ p >= 1 /\ msgs[p].role = "assistant"
          /\ Len(msgs[p].calls) \in Nat
      BY <1>0, CallsOf
    <2>2. \A j \in 1..(k - 1) : p + j \in 1..n /\ msgs[p + j].role # "user"
      <3>1. \A j \in 1..(k - 1) : p + j \in 1..n /\ j \in 1..k
        BY <1>0, <1>1, <2>1
      <3> QED
        BY <1>0, <1>1, <3>1
    <2>3. \A l \in Turns : p < l => FALSE
      <3> SUFFICES ASSUME NEW l \in Turns, p < l PROVE FALSE
        OBVIOUS
      <3>1. l \in 1..n /\ msgs[l].role = "assistant"
        BY <1>0, CallsOf DEF n
      <3>2. l - p \in 1..Len(msgs[p].calls) /\ l - p \in 1..(k - 1) /\ p + (l - p) = l
        BY <1>0, <1>1, <2>1, <3>1
      <3>3. p + (l - p) <= Len(msgs)
        BY <3>1, <3>2 DEF n
      <3>4. \A j \in 1..(l - p) : msgs[p + j].role # "user"
        <4>1. 1..(l - p) \subseteq 1..(k - 1)
          BY <2>1, <3>2
        <4> QED
          BY <2>2, <4>1
      <3>5. msgs[p + (l - p)] = Tool(p, l - p)
        BY <3>2, <3>3, <3>4 DEF Placed
      <3>6. l - p \in Nat
        BY <3>2
      <3> QED
        BY <2>1, <3>1, <3>2, <3>5, <3>6, MessageKinds
    <2>4. CASE m.role = "user"
      <3>1. k \in 1..k /\ msgs'[p + k] = m
        BY <1>0, <1>1
      <3> QED
        BY <1>1, <2>4, <3>1
    <2>5. CASE m.role = "assistant" /\ AllAnswered
      <3>1. CASE msgs[n].role = "user"
        <4>1. p < n
          <5>1. p # n
            BY <2>1, <3>1
          <5> QED
            BY <1>0, <2>1, <5>1
        <4>2. n - p \in 1..(k - 1) /\ p + (n - p) = n
          BY <1>0, <1>1, <2>1, <4>1
        <4> QED
          BY <2>2, <3>1, <4>2
      <3>2. CASE \E l \in Turns : IsLast(l) /\ n = l + Len(msgs[l].calls)
        <4>1. PICK l \in Turns : IsLast(l) /\ n = l + Len(msgs[l].calls)
          BY <3>2
        <4>2. l = p
          <5>1. p <= l /\ l \in Nat
            BY <1>0, <4>1 DEF IsLast
          <5>2. ~(p < l)
            BY <2>3
          <5> QED
            BY <2>1, <5>1, <5>2
        <4> QED
          BY <1>1, <2>1, <4>1, <4>2
      <3> QED
        BY <2>5, <3>1, <3>2 DEF AllAnswered, n
    <2>6. CASE InBatch /\ m = Tool(LastAssistant, next)
      <3>1. PICK l \in Turns : IsLast(l) /\ n = l + next - 1
        BY <2>6 DEF InBatch, n
      <3>2. l = p
        <4>1. p <= l /\ l \in Nat
          BY <1>0, <3>1 DEF IsLast
        <4>2. ~(p < l)
          BY <2>3
        <4> QED
          BY <2>1, <4>1, <4>2
      <3>3. LastAssistant = p
        BY <3>1, <3>2, TheLast
      <3>4. next = k
        BY <1>1, <2>1, <3>1, <3>2
      <3> QED
        BY <1>0, <1>1, <2>6, <3>3, <3>4
    <2> QED
      BY <2>4, <2>5, <2>6
  <1>2. ASSUME NEW p \in Turns', NEW k \in 1..Len(msgs'[p].calls),
               p + k <= n + 1, \A j \in 1..k : msgs'[p + j].role # "user"
        PROVE  msgs'[p + k] = Tool(p, k)
    <2>1. p \in Turns
      BY <1>0, <1>2
    <2>2. /\ p \in 1..n /\ msgs'[p] = msgs[p] /\ Len(msgs[p].calls) \in Nat
      BY <1>0, <2>1, CallsOf
    <2>3. CASE p + k = n + 1
      BY <1>1, <1>2, <2>1, <2>2, <2>3
    <2>4. CASE p + k <= n
      <3>1. \A j \in 1..k : p + j \in 1..n
        BY <1>0, <2>2, <2>4
      <3>2. \A j \in 1..k : msgs[p + j].role # "user"
        BY <1>0, <1>2, <3>1
      <3>3. msgs[p + k] = Tool(p, k)
        BY <1>2, <2>1, <2>2, <2>4, <3>2 DEF Placed, n
      <3>4. k \in 1..k
        BY <1>2
      <3> QED
        BY <1>0, <3>1, <3>3, <3>4
    <2> QED
      BY <1>0, <1>2, <2>2, <2>3, <2>4
  <1>3. ASSUME NEW q \in 1..(n + 1), msgs'[q].role = "tool"
        PROVE  /\ msgs'[q].pos \in Turns
               /\ msgs'[q].index \in 1..Len(msgs'[msgs'[q].pos].calls)
               /\ q = msgs'[q].pos + msgs'[q].index
               /\ \A j \in 1..msgs'[q].index : msgs'[msgs'[q].pos + j].role = "tool"
    <2>1. CASE q \in 1..n
      <3> DEFINE p == msgs[q].pos
                 k == msgs[q].index
      <3>1. msgs'[q] = msgs[q]
        BY <1>0, <2>1
      <3>2. /\ p \in Turns /\ k \in 1..Len(msgs[p].calls) /\ q = p + k
            /\ \A j \in 1..k : msgs[p + j].role = "tool"
        BY <1>0, <1>3, <2>1, <3>1 DEF Placed
      <3>3. p \in 1..n /\ msgs'[p] = msgs[p] /\ Len(msgs[p].calls) \in Nat
        BY <1>0, <3>2, CallsOf
      <3> HIDE DEF p, k
      <3>4. \A j \in 1..k : p + j \in 1..n
        BY <1>0, <2>1, <3>2, <3>3
      <3>5. \A j \in 1..k : msgs'[p + j].role = "tool"
        BY <1>0, <3>2, <3>4
      <3> QED
        BY <3>1, <3>2, <3>3, <3>5 DEF p, k
    <2>2. CASE q = n + 1
      <3>1. msgs'[q] = m
        BY <1>0, <2>2
      <3>2. InBatch /\ m = Tool(LastAssistant, next)
        BY <1>3, <3>1
      <3>3. PICK l \in Turns : /\ IsLast(l)
                               /\ n = l + next - 1 /\ next <= Len(msgs[l].calls)
                               /\ \A j \in (l + 1)..n : msgs[j].role = "tool"
        BY <3>2 DEF InBatch, n
      <3>4. LastAssistant = l
        BY <3>3, TheLast
      <3>5. l \in 1..n /\ msgs'[l] = msgs[l] /\ Len(msgs[l].calls) \in Nat
        BY <1>0, <3>3, CallsOf
      <3>6. m = Tool(l, next) /\ m.pos = l /\ m.index = next
        BY <3>2, <3>4, <3>5, MessageKinds
      <3>7. ASSUME NEW j \in 1..next PROVE msgs'[l + j].role = "tool"
        <4>1. CASE j = next
          <5>1. l + j = q
            BY <1>0, <2>2, <3>3, <3>5, <4>1
          <5> QED
            BY <1>3, <5>1
        <4>2. CASE j # next
          <5>1. l + j \in (l + 1)..n /\ l + j \in 1..n
            BY <1>0, <3>3, <3>5, <4>2
          <5> QED
            BY <1>0, <3>3, <5>1
        <4> QED
          BY <4>1, <4>2
      <3>8. /\ l \in Turns' /\ next \in 1..Len(msgs'[l].calls) /\ q = l + next
        BY <1>0, <2>2, <3>3, <3>5
      <3> QED
        BY <3>1, <3>6, <3>7, <3>8
    <2>3. q \in 1..n \/ q = n + 1
      BY <1>0
    <2> QED
      BY <2>1, <2>2, <2>3
  <1> QED
    BY <1>0, <1>2, <1>3 DEF Placed

\* Where every result has its place, ResultsInPlace says so.
LEMMA PlacedIsInPlace ==
  ASSUME msgs \in Seq(Messages), Placed
  PROVE  ResultsInPlace
  <1>1. ASSUME NEW q \in DOMAIN msgs, msgs[q].role = "tool"
        PROVE  msgs[q].pos \in Turns /\ msgs[q].index \in 1..Len(msgs[msgs[q].pos].calls)
    BY <1>1 DEF Placed
  <1>2. ASSUME NEW p \in Turns, NEW k \in 1..Len(msgs[p].calls)
        PROVE  LET missing == \/ p + k > Len(msgs)
                              \/ msgs[p + k].role = "user"
                              \/ \E j \in 1..k : p + j <= Len(msgs) /\ msgs[p + j].role = "user"
               IN  ResultsOf(p, k) = IF missing THEN {} ELSE {p + k}
    <2> DEFINE missing == \/ p + k > Len(msgs)
                          \/ msgs[p + k].role = "user"
                          \/ \E j \in 1..k : p + j <= Len(msgs) /\ msgs[p + j].role = "user"
    <2>1. p \in 1..Len(msgs) /\ Len(msgs) \in Nat /\ Len(msgs[p].calls) \in Nat /\ k \in 1..k
      BY CallsOf
    <2>2. ASSUME NEW q \in ResultsOf(p, k) PROVE q = p + k /\ ~missing
      <3>1. q \in 1..Len(msgs) /\ msgs[q].role = "tool" /\ msgs[q].pos = p /\ msgs[q].index = k
        BY DEF ResultsOf
      <3>2. /\ q = msgs[q].pos + msgs[q].index
            /\ \A j \in 1..msgs[q].index : msgs[msgs[q].pos + j].role = "tool"
        <4>1. q \in DOMAIN msgs
          BY DEF ResultsOf
        <4> QED
          BY <3>1, <4>1 DEF Placed
      <3>3. q = p + k /\ \A j \in 1..k : msgs[p + j].role = "tool"
        BY <3>1, <3>2
      <3> QED
        BY <2>1, <3>1, <3>3
    <2>3. ASSUME ~missing PROVE p + k \in ResultsOf(p, k)
      <3>1. p + k \in 1..Len(msgs) /\ \A j \in 1..k : p + j <= Len(msgs)
        BY <2>1, <2>3
      <3>2. msgs[p + k] = Tool(p, k)
        BY <2>3, <3>1 DEF Placed
      <3>3. p + k \in DOMAIN msgs
        BY <3>1
      <3>4. msgs[p + k].role = "tool" /\ msgs[p + k].pos = p /\ msgs[p + k].index = k
        BY <3>2 DEF Tool
      <3> QED
        BY <3>3, <3>4 DEF ResultsOf
    <2> QED
      BY <2>2, <2>3
  <1> QED
    BY <1>1, <1>2 DEF ResultsInPlace

\* What the provider is shown, and the types, follow from the invariant.
LEMMA TalkIsWellFormed == TalkInv => TranscriptWellFormed
  <1> SUFFICES ASSUME TalkInv PROVE TranscriptWellFormed
    OBVIOUS
  <1>1. msgs \in Seq(Messages) /\ TalkTypeOK
    BY DEF TalkInv, TalkTypeOK
  <1>2. TypeOK
    <2>1. ASSUME mode \in Dispatching PROVE next <= Len(Batch)
      <3>1. PICK l \in Turns : IsLast(l) /\ next <= Len(msgs[l].calls)
        BY <2>1 DEF TalkInv, InBatch
      <3> QED
        BY <1>1, <3>1, TheLast
    <2> QED
      BY <1>1, <2>1 DEF TypeOK, TalkTypeOK, Dispatching
  <1>3. ResultsInPlace
    BY <1>1, PlacedIsInPlace DEF TalkInv
  <1>4. RequestsComplete
    <2> SUFFICES ASSUME mode = "streaming"
                 PROVE  \/ msgs[Len(msgs)].role = "user"
                        \/ Turns # {} /\ Len(msgs) = LastAssistant + Len(Batch)
      BY DEF RequestsComplete, Last
    <2>1. CASE \E l \in Turns : IsLast(l) /\ Len(msgs) = l + Len(msgs[l].calls)
      BY <1>1, <2>1, TheLast
    <2> QED
      BY <2>1 DEF TalkInv, AllAnswered
  <1>5. StepsBounded
    <2>1. Cardinality(Mine) <= MaxSteps
      <3>1. step \in 0..MaxSteps /\ (mode \in Dispatching => step < MaxSteps)
        BY <1>1 DEF TalkInv, TalkTypeOK
      <3>2. Cardinality(Mine) \in Nat
        <4>1. IsFiniteSet(1..Len(msgs)) /\ Mine \subseteq 1..Len(msgs)
          <5>1. Turns \subseteq 1..Len(msgs) /\ Len(msgs) \in Nat
            BY <1>1 DEF Turns
          <5>2. Mine \subseteq Turns
            BY DEF Mine
          <5>3. IsFiniteSet(1..Len(msgs))
            BY <5>1, FS_Interval
          <5> QED
            BY <5>1, <5>2, <5>3
        <4> QED
          BY <4>1, FS_Subset, FS_CardinalityType
      <3> QED
        BY <3>1, <3>2, AgentAssumption DEF TalkInv, CountedIn
    <2> QED
      BY <2>1 DEF StepsBounded, Mine
  <1> QED
    BY <1>2, <1>3, <1>4, <1>5 DEF TranscriptWellFormed

\* The messages of the run, counted, after one more.
LEMMA MineGrows ==
  ASSUME msgs \in Seq(Messages), NEW m \in Messages, msgs' = Append(msgs, m)
  PROVE  /\ m.role = "user" => Cardinality(Mine') = 0
         /\ m.role = "tool" => Cardinality(Mine') = Cardinality(Mine)
         /\ Cardinality(Mine') <= Cardinality(Mine) + 1 \/ m.role = "user"
         /\ Cardinality(Mine) \in Nat /\ Cardinality(Mine') \in Nat
  <1> DEFINE n == Len(msgs)
  <1>0. /\ n \in Nat /\ Len(msgs') = n + 1
        /\ \A i \in 1..n : msgs'[i] = msgs[i]
        /\ msgs'[n + 1] = m
        /\ Turns \subseteq 1..n
        /\ Turns' = Turns \cup {i \in {n + 1} : m.role = "assistant"}
    BY OneMessageMore
  <1>1. Mine = {p \in Turns : \A q \in p..n : msgs[q].role # "user"}
    BY DEF Mine
  <1>2. Mine' = {p \in Turns' : \A q \in p..(n + 1) : msgs'[q].role # "user"}
    BY <1>0 DEF Mine
  <1> HIDE DEF n
  <1>3. IsFiniteSet(Mine) /\ Cardinality(Mine) \in Nat
    <2>1. IsFiniteSet(1..n)
      BY <1>0, FS_Interval
    <2>2. Mine \subseteq 1..n
      BY <1>0, <1>1
    <2> QED
      BY <2>1, <2>2, FS_Subset, FS_CardinalityType
  <1>4. CASE m.role = "user"
    <2>1. \A p \in Turns' : p \in 1..n
      BY <1>0, <1>4
    <2>2. \A p \in Turns' : n + 1 \in p..(n + 1)
      BY <1>0, <2>1
    <2>3. Mine' = {}
      BY <1>0, <1>2, <1>4, <2>2
    <2> QED
      BY <1>3, <1>4, <2>3, FS_EmptySet
  <1>5. CASE m.role # "user"
    <2>1. ASSUME NEW p \in Turns PROVE p \in Mine <=> p \in Mine'
      <3>1. p \in 1..n /\ p \in Turns'
        BY <1>0
      <3>2. p..(n + 1) = (p..n) \cup {n + 1} /\ p..n \subseteq 1..n
        BY <1>0, <3>1
      <3> QED
        BY <1>0, <1>1, <1>2, <1>5, <3>1, <3>2
    <2>2. Mine' \subseteq Mine \cup {n + 1} /\ Mine \subseteq Mine'
      BY <1>0, <1>1, <1>2, <2>1
    <2>3. m.role = "tool" => Mine' = Mine
      BY <1>0, <1>2, <2>1, <2>2
    <2>4. Mine' = Mine \/ Mine' = Mine \cup {n + 1}
      BY <2>2
    <2>5. IsFiniteSet(Mine \cup {n + 1}) /\ Cardinality(Mine \cup {n + 1}) \in
            {Cardinality(Mine), Cardinality(Mine) + 1}
      BY <1>3, FS_AddElement
    <2>6. Cardinality(Mine') \in {Cardinality(Mine), Cardinality(Mine) + 1}
      BY <2>4, <2>5
    <2>7. m.role = "tool" => Cardinality(Mine') = Cardinality(Mine)
      BY <2>3
    <2> HIDE DEF Mine
    <2> QED
      BY <1>3, <1>5, <2>6, <2>7
  <1> QED
    BY <1>4, <1>5

\* A run's own message joins the transcript.
LEMMA TalkGrows ==
  ASSUME TalkInv, mode # "idle", NEW m \in Messages, msgs' = Append(msgs, m),
         \/ m.role = "assistant" /\ AllAnswered /\ Len(m.calls) <= MaxBatch
         \/ InBatch /\ m = Tool(LastAssistant, next)
  PROVE  /\ msgs' \in Seq(Messages) /\ msgs' # <<>>
         /\ Shaped(msgs)' /\ Begins(history, msgs') /\ ShortBatches' /\ Placed'
         /\ m.role \in {"assistant", "tool"}
  <1>0. /\ msgs \in Seq(Messages) /\ msgs # <<>> /\ Shaped(msgs) /\ Begins(history, msgs)
        /\ ShortBatches /\ Placed /\ next \in Nat \ {0} /\ history \in Seq(Messages)
    BY AgentAssumption DEF TalkInv, TalkTypeOK
  <1>1. /\ msgs' \in Seq(Messages) /\ msgs' # <<>>
        /\ Len(msgs) \in Nat /\ Len(msgs') = Len(msgs) + 1
        /\ \A i \in 1..Len(msgs) : msgs'[i] = msgs[i]
        /\ msgs'[Len(msgs) + 1] = m
        /\ Turns' = Turns \cup {i \in {Len(msgs) + 1} : m.role = "assistant"}
        /\ \A p \in Turns : msgs'[p] = msgs[p]
    BY <1>0, OneMessageMore
  <1>2. m.role \in {"assistant", "tool"}
    <2>1. CASE InBatch /\ m = Tool(LastAssistant, next)
      BY <2>1 DEF Tool
    <2> QED
      BY <2>1
  <1>3. Shaped(msgs)'
    <2>1. 1 \in 1..Len(msgs)
      BY <1>0
    <2> QED
      BY <1>0, <1>1, <1>2, <2>1 DEF Shaped
  <1>4. Begins(history, msgs')
    <2>1. Len(history) \in Nat
      BY <1>0
    <2> QED
      BY <1>0, <1>1, <2>1 DEF Begins
  <1>5. ShortBatches'
    <2>1. m.role = "assistant" => Len(m.calls) <= MaxBatch
      <3>1. m = Tool(LastAssistant, next) => m.role = "tool"
        BY DEF Tool
      <3> QED
        BY <3>1
    <2> QED
      BY <1>0, <1>1, <2>1 DEF ShortBatches
  <1>6. Placed'
    BY <1>0, PlacedGrows
  <1> QED
    BY <1>1, <1>2, <1>3, <1>4, <1>5, <1>6

\* Run returns what it has.
LEMMA TalkReturned ==
  ASSUME TalkTypeOK', mode' = "idle", history' = msgs', Shaped(msgs)', ShortBatches',
         Placed', Cardinality(Mine') <= MaxSteps
  PROVE  TalkInv'
  <1>1. Begins(history', msgs')
    BY DEF Begins, TalkTypeOK
  <1>2. Shaped(history)'
    BY DEF Shaped
  <1> QED
    BY <1>1, <1>2 DEF TalkInv, CountedIn, Begins, Dispatching, Shaped

\* A conversation of that shape, replayed, loses its first message only.
LEMMA ReplayOfShaped ==
  ASSUME NEW h \in Seq(Messages), Shaped(h)
  PROVE  /\ h = <<>> => Unsystem(h) = <<>>
         /\ h # <<>> => /\ Unsystem(h) \in Seq(Messages)
                        /\ Len(Unsystem(h)) = Len(h) - 1
                        /\ \A k \in 1..(Len(h) - 1) : Unsystem(h)[k] = h[k + 1]
  <1> DEFINE n == Len(h)
             kept == {i \in DOMAIN h : ~IsSystem(h[i])}
             At(k) == CHOOSE i \in kept : Cardinality({j \in kept : j <= i}) = k
  <1>1. n \in Nat /\ DOMAIN h = 1..n /\ \A i \in 1..n : h[i] \in Messages
    OBVIOUS
  <1>2. Unsystem(h) = [k \in 1..Cardinality(kept) |-> h[At(k)]]
    BY DEF Unsystem
  <1>3. CASE h = <<>>
    <2>1. kept = {}
      BY <1>3
    <2>2. Cardinality(kept) = 0
      BY <2>1, FS_EmptySet
    <2> HIDE DEF kept, At
    <2>3. Unsystem(h) = [k \in 1..0 |-> h[At(k)]]
      BY <1>2, <2>2
    <2>4. 1..0 = {}
      OBVIOUS
    <2>5. Unsystem(h) \in [1..0 -> Messages]
      BY <2>3, <2>4
    <2>6. Unsystem(h) \in Seq(Messages) /\ Len(Unsystem(h)) = 0
      BY <2>5
    <2>7. Unsystem(h) = <<>>
      BY <2>6, EmptySeq
    <2> QED
      BY <1>3, <2>7
  <1>4. CASE h # <<>>
    <2>1. kept = 2..n
      <3>1. h[1] = System /\ \A i \in 2..n : h[i].role # "system"
        BY <1>4 DEF Shaped
      <3>2. IsSystem(h[1])
        BY <3>1 DEF IsSystem, System
      <3>3. \A i \in 1..n : i = 1 \/ i \in 2..n
        BY <1>1
      <3>4. 2..n \subseteq 1..n /\ 1 \notin 2..n
        BY <1>1
      <3> QED
        BY <1>1, <3>1, <3>2, <3>3, <3>4 DEF IsSystem
    <2>2. n >= 1 /\ Cardinality(kept) = n - 1
      <3>1. n >= 1
        BY <1>1, <1>4
      <3>2. Cardinality(2..n) = IF 2 > n THEN 0 ELSE n - 2 + 1
        BY <1>1, FS_Interval
      <3>3. Cardinality(2..n) = n - 1
        BY <1>1, <3>1, <3>2
      <3> HIDE DEF kept, n
      <3> QED
        BY <2>1, <3>1, <3>3
    <2>3. ASSUME NEW i \in kept
          PROVE  Cardinality({j \in kept : j <= i}) = i - 1
      <3>1. i \in 2..n /\ {j \in kept : j <= i} = 2..i
        BY <1>1, <2>1
      <3>2. i \in Int /\ i >= 2
        BY <1>1, <3>1
      <3>3. Cardinality(2..i) = IF 2 > i THEN 0 ELSE i - 2 + 1
        BY <3>2, FS_Interval
      <3>4. Cardinality(2..i) = i - 1
        BY <3>2, <3>3
      <3> HIDE DEF kept
      <3> QED
        BY <3>1, <3>4
    <2>4. ASSUME NEW k \in 1..(n - 1) PROVE At(k) = k + 1
      <3>1. k + 1 \in kept
        BY <1>1, <2>1
      <3>2. Cardinality({j \in kept : j <= k + 1}) = k
        BY <1>1, <2>3, <3>1
      <3>3. \A i \in kept : Cardinality({j \in kept : j <= i}) = k => i = k + 1
        BY <1>1, <2>1, <2>3
      <3> HIDE DEF kept
      <3> QED
        BY <3>1, <3>2, <3>3
    <2> HIDE DEF kept, At
    <2>5. Unsystem(h) = [k \in 1..(n - 1) |-> h[At(k)]]
      BY <1>2, <2>2
    <2>6. \A k \in 1..(n - 1) : h[At(k)] = h[k + 1] /\ h[k + 1] \in Messages
      BY <1>1, <2>4
    <2> QED
      BY <1>1, <1>4, <2>2, <2>5, <2>6
  <1> QED
    BY <1>3, <1>4

\* The conversation starts empty.
LEMMA TalkInitially == Init => TalkInv
  <1> SUFFICES ASSUME Init PROVE TalkInv
    OBVIOUS
  <1>1. TalkTypeOK
    <2>1. <<>> \in Seq(Messages) /\ <<>> \in Seq([call : Calls, consent : BOOLEAN, found : BOOLEAN])
      OBVIOUS
    <2>2. /\ 0 \in 0..MaxSteps /\ 1 \in 1..MaxBatch /\ 0 \in 0..MaxRuns
          /\ 0 \in 0..3 /\ 0 \in Nat
      BY AgentAssumption
    <2>3. "idle" \in Modes /\ "none" \in Results
      BY DEF Modes, Results
    <2>4. NoCall \in Calls \cup {NoCall} /\ FALSE \in BOOLEAN
      OBVIOUS
    <2> HIDE DEF Messages, Modes, Results
    <2> QED
      BY <2>1, <2>2, <2>3, <2>4 DEF Init, TalkTypeOK
  <1>2. Turns = {} /\ msgs = <<>> /\ history = <<>> /\ mode = "idle"
    BY DEF Init, Turns
  <1>3. Placed /\ ShortBatches
    BY <1>2 DEF Placed, ShortBatches
  <1>4. CountedIn
    <2>1. Mine = {}
      BY <1>2 DEF Mine
    <2> QED
      BY <1>2, <2>1, FS_EmptySet, AgentAssumption DEF CountedIn
  <1>5. Shaped(history) /\ Shaped(msgs) /\ Begins(history, msgs)
    BY <1>2 DEF Shaped, Begins
  <1> QED
    BY <1>1, <1>2, <1>3, <1>4, <1>5 DEF TalkInv, Dispatching

\* A run replays the whole conversation and adds what the user says.
LEMMA TalkStarts == TalkInv /\ StartRun => TalkInv'
  <1> SUFFICES ASSUME TalkInv, StartRun PROVE TalkInv'
    OBVIOUS
  <1>1. /\ history \in Seq(Messages) /\ msgs = history /\ Shaped(history)
        /\ Placed /\ ShortBatches /\ next \in Nat \ {0}
    BY AgentAssumption DEF TalkInv, TalkTypeOK, StartRun
  <1>2. /\ mode' = "looping" /\ history' = history /\ step' = 0 /\ count' = 0
        /\ msgs' = <<System>> \o Unsystem(history) \o <<User>>
    BY DEF StartRun, Replay
  <1>3. /\ msgs' \in Seq(Messages) /\ msgs' # <<>> /\ msgs'[Len(msgs')].role = "user"
        /\ Shaped(msgs)' /\ Begins(history, msgs') /\ ShortBatches' /\ Placed'
        /\ Cardinality(Mine') = 0
    <2>1. CASE history = <<>>
      <3>1. msgs' = <<System, User>>
        <4>1. Unsystem(history) = <<>>
          BY <1>1, <2>1, ReplayOfShaped
        <4>2. <<System>> \o <<>> \o <<User>> = <<System, User>>
          <5>1. <<System>> \in Seq(Messages) /\ <<User>> \in Seq(Messages)
            BY MessageKinds
          <5>2. <<System>> \o <<>> = <<System>>
            BY <5>1, ConcatEmptySeq
          <5>3. <<System>> \o <<User>> = <<System, User>>
            <6> DEFINE s == <<System>> \o <<User>>
                       t == <<System, User>>
            <6>1. /\ s \in Seq(Messages) /\ Len(s) = 2 /\ s[1] = System /\ s[2] = User
                  /\ t \in Seq(Messages) /\ Len(t) = 2 /\ t[1] = System /\ t[2] = User
              BY <5>1, MessageKinds
            <6> HIDE DEF s, t
            <6>2. \A i \in 1..Len(s) : s[i] = t[i]
              BY <6>1
            <6>3. s = t
              BY <6>1, <6>2, SeqEqual
            <6> QED
              BY <6>3 DEF s, t
          <5> QED
            BY <5>2, <5>3
        <4> QED
          BY <1>2, <4>1, <4>2
      <3>2. Len(msgs') = 2 /\ msgs'[1] = System /\ msgs'[2] = User /\ DOMAIN msgs' = 1..2
            /\ msgs' \in Seq(Messages) /\ msgs' # <<>>
        BY <3>1, MessageKinds
      <3>3. \A i \in 1..2 : i = 1 \/ i = 2
        OBVIOUS
      <3>4. \A i \in 1..2 : msgs'[i].role \notin {"assistant", "tool"}
        BY <3>2, <3>3, MessageKinds
      <3>5. Turns' = {}
        BY <3>2, <3>4 DEF Turns
      <3>6. Placed' /\ ShortBatches'
        BY <3>2, <3>4, <3>5 DEF Placed, ShortBatches
      <3>7. Mine' = {}
        BY <3>5 DEF Mine
      <3>8. Shaped(msgs)'
        <4>1. \A i \in 2..2 : i = 2
          OBVIOUS
        <4> QED
          BY <3>2, <4>1, MessageKinds DEF Shaped
      <3>9. Begins(history, msgs')
        BY <2>1, <3>2 DEF Begins
      <3> QED
        BY <3>2, <3>6, <3>7, <3>8, <3>9, FS_EmptySet, MessageKinds
    <2>2. CASE history # <<>>
      <3>1. msgs' = Append(msgs, User)
        <4> DEFINE h == history
                   u == Unsystem(history)
        <4>1. /\ u \in Seq(Messages) /\ Len(u) = Len(h) - 1
              /\ \A k \in 1..(Len(h) - 1) : u[k] = h[k + 1]
          BY <1>1, <2>2, ReplayOfShaped
        <4>2. Len(h) \in Nat /\ Len(h) >= 1 /\ h[1] = System /\ h \in Seq(Messages)
          BY <1>1, <2>2 DEF Shaped
        <4>3. msgs' = <<System>> \o u \o <<User>>
          BY <1>2
        <4> HIDE DEF h, u
        <4> DEFINE s == <<System>> \o u
        <4>4. System \in Messages /\ User \in Messages
          BY MessageKinds
        <4>5. /\ s \in Seq(Messages) /\ Len(s) = Len(h)
              /\ s[1] = System /\ \A k \in 1..(Len(h) - 1) : s[k + 1] = u[k]
          BY <4>1, <4>2, <4>4
        <4>6. \A k \in 1..Len(h) : s[k] = h[k]
          <5>1. ASSUME NEW k \in 1..Len(h), k # 1 PROVE s[k] = h[k]
            <6>1. k - 1 \in 1..(Len(h) - 1) /\ (k - 1) + 1 = k
              BY <4>2, <5>1
            <6> HIDE DEF s
            <6>2. s[(k - 1) + 1] = u[k - 1] /\ u[k - 1] = h[(k - 1) + 1]
              BY <4>1, <4>5, <6>1
            <6> QED
              BY <6>1, <6>2
          <5> QED
            BY <4>2, <4>5, <5>1
        <4> HIDE DEF s
        <4>7. s = h
          BY <4>2, <4>5, <4>6, SeqEqual
        <4>8. msgs' = h \o <<User>>
          BY <4>3, <4>7 DEF s
        <4> QED
          BY <1>1, <4>2, <4>8 DEF h
      <3>2. User \in Messages /\ User.role = "user"
        BY MessageKinds
      <3>3. /\ msgs' \in Seq(Messages) /\ msgs' # <<>>
            /\ Len(msgs) \in Nat /\ Len(msgs') = Len(msgs) + 1
            /\ \A i \in 1..Len(msgs) : msgs'[i] = msgs[i]
            /\ msgs'[Len(msgs) + 1] = User
            /\ Turns' = Turns
            /\ \A p \in Turns : msgs'[p] = msgs[p]
        BY <1>1, <3>1, <3>2, OneMessageMore
      <3>4. Placed'
        BY <1>1, <3>1, <3>2, PlacedGrows
      <3>5. Cardinality(Mine') = 0
        BY <1>1, <3>1, <3>2, MineGrows
      <3>6. ShortBatches'
        BY <1>1, <3>3 DEF ShortBatches
      <3>7. Shaped(msgs)'
        <4>1. 1 \in 1..Len(msgs)
          BY <1>1, <2>2
        <4> QED
          BY <1>1, <2>2, <3>2, <3>3, <4>1 DEF Shaped
      <3>8. Begins(history, msgs')
        BY <1>1, <3>3 DEF Begins
      <3> QED
        BY <3>2, <3>3, <3>4, <3>5, <3>6, <3>7, <3>8
    <2> QED
      BY <2>1, <2>2
  <1>4. TalkTypeOK'
    <2>1. TalkTypeOK
      BY DEF TalkInv
    <2>2. 0 \in 0..MaxSteps /\ 1 \in 1..MaxBatch /\ runs' \in 0..MaxRuns
      BY <2>1, AgentAssumption DEF TalkTypeOK, StartRun
    <2>3. <<>> \in Seq([call : Calls, consent : BOOLEAN, found : BOOLEAN])
      OBVIOUS
    <2>4. /\ "looping" \in Modes /\ NoCall \in Calls \cup {NoCall} /\ FALSE \in BOOLEAN
          /\ 0 \in 0..3 /\ 0 \in Nat
      BY DEF Modes
    <2> HIDE DEF Messages
    <2> QED
      BY <1>1, <1>3, <2>1, <2>2, <2>3, <2>4 DEF StartRun, TalkTypeOK
  <1>5. AllAnswered'
    BY <1>3 DEF AllAnswered
  <1>6. CountedIn'
    BY <1>2, <1>3 DEF CountedIn, Dispatching
  <1>7. Shaped(history)' /\ Begins(history, msgs)'
    BY <1>1, <1>2, <1>3 DEF Shaped, Begins
  <1>8. ~(mode' \in Dispatching \cup {"streaming"}) /\ mode' # "idle" /\ count' <= 2
    BY <1>2 DEF Dispatching
  <1> QED
    BY <1>2, <1>3, <1>4, <1>5, <1>6, <1>7, <1>8 DEF TalkInv

\* No run has more messages with calls than the budget.
LEMMA TalkCounted ==
  ASSUME TalkInv
  PROVE  /\ Cardinality(Mine) \in Nat /\ Cardinality(Mine) <= MaxSteps
         /\ mode \in Dispatching => Cardinality(Mine) <= step + 1 /\ step + 1 <= MaxSteps
         /\ mode \in {"looping", "streaming"} => Cardinality(Mine) <= step
  <1>1. /\ msgs \in Seq(Messages) /\ step \in 0..MaxSteps /\ MaxSteps \in Nat
        /\ mode \in Dispatching => step < MaxSteps
    BY AgentAssumption DEF TalkInv, TalkTypeOK
  <1>2. Cardinality(Mine) \in Nat
    <2>1. IsFiniteSet(1..Len(msgs)) /\ Mine \subseteq 1..Len(msgs)
      <3>1. Turns \subseteq 1..Len(msgs) /\ Len(msgs) \in Nat
        BY <1>1 DEF Turns
      <3>2. Mine \subseteq Turns
        BY DEF Mine
      <3>3. IsFiniteSet(1..Len(msgs))
        BY <3>1, FS_Interval
      <3> QED
        BY <3>1, <3>2, <3>3
    <2> QED
      BY <2>1, FS_Subset, FS_CardinalityType
  <1>3. Cardinality(Mine) <= IF mode = "idle" THEN MaxSteps
                             ELSE IF mode \in Dispatching THEN step + 1 ELSE step
    BY DEF TalkInv, CountedIn
  <1>4. mode \in {"looping", "streaming"} => mode \notin Dispatching /\ mode # "idle"
    BY DEF Dispatching
  <1>5. mode \in Dispatching => mode # "idle"
    BY DEF Dispatching
  <1> HIDE DEF Mine
  <1> QED
    BY <1>1, <1>2, <1>3, <1>4, <1>5

\* What depends on the transcript alone stays when it does.
LEMMA TalkUntouched ==
  ASSUME msgs' = msgs
  PROVE  /\ Turns' = Turns /\ Mine' = Mine
         /\ Placed => Placed'
         /\ ShortBatches => ShortBatches'
         /\ AllAnswered => AllAnswered'
         /\ Shaped(msgs) => Shaped(msgs)'
  BY DEF Turns, Mine, Placed, ShortBatches, AllAnswered, IsLast, Shaped

\* The loop ends, or asks the model again.
LEMMA TalkLoops == TalkInv /\ LoopHead => TalkInv'
  <1> SUFFICES ASSUME TalkInv, LoopHead PROVE TalkInv'
    OBVIOUS
  <1>1. /\ msgs' = msgs /\ mode = "looping" /\ TalkTypeOK /\ Placed /\ ShortBatches
        /\ Shaped(msgs) /\ AllAnswered /\ step' = step /\ count' = count
    BY DEF LoopHead, Return, TalkInv, hookVars
  <1>2. Placed' /\ ShortBatches' /\ Shaped(msgs)' /\ AllAnswered' /\ Mine' = Mine
    BY <1>1, TalkUntouched
  <1>3. TalkTypeOK'
    BY <1>1 DEF LoopHead, Return, TalkTypeOK, Modes, Results, hookVars, envVars
  <1>4. CASE mode' = "idle"
    <2>1. history' = msgs'
      BY <1>1, <1>4 DEF LoopHead, Return
    <2>2. Cardinality(Mine') <= MaxSteps
      BY <1>2, TalkCounted
    <2> QED
      BY <1>2, <1>3, <1>4, <2>1, <2>2, TalkReturned
  <1>5. CASE mode' = "streaming" /\ history' = history /\ StepsLeft
    <2>1. CountedIn'
      BY <1>1, <1>2, <1>5, TalkCounted DEF CountedIn, Dispatching
    <2>2. Shaped(history)' /\ Begins(history, msgs)'
      BY <1>1, <1>5 DEF TalkInv, Shaped, Begins
    <2>3. mode' \notin Dispatching /\ mode' # "idle" /\ step' < MaxSteps
          /\ msgs' # <<>> /\ count' <= 2
      BY <1>1, <1>5 DEF Dispatching, StepsLeft, TalkInv
    <2> QED
      BY <1>2, <1>3, <1>5, <2>1, <2>2, <2>3 DEF TalkInv
  <1> QED
    BY <1>1, <1>4, <1>5 DEF LoopHead, Return

\* A stream that fails leaves the transcript as it is.
LEMMA TalkFails == TalkInv /\ StreamFails => TalkInv'
  <1> SUFFICES ASSUME TalkInv, StreamFails PROVE TalkInv'
    OBVIOUS
  <1>1. /\ msgs' = msgs /\ history' = msgs' /\ mode' = "idle" /\ TalkTypeOK /\ Placed
        /\ ShortBatches /\ Shaped(msgs)
    BY DEF StreamFails, Return, TalkInv
  <1>2. Placed' /\ ShortBatches' /\ Shaped(msgs)' /\ Mine' = Mine
    BY <1>1, TalkUntouched
  <1>3. TalkTypeOK'
    <2>1. used' \in Nat
      BY <1>1, AgentAssumption DEF StreamFails, Count, TalkTypeOK
    <2>2. result' \in Results
      BY DEF StreamFails, Return, Results
    <2> QED
      BY <1>1, <2>1, <2>2 DEF StreamFails, TalkTypeOK, Modes, envVars
  <1>4. Cardinality(Mine') <= MaxSteps
    BY <1>2, TalkCounted
  <1> QED
    BY <1>1, <1>2, <1>3, <1>4, TalkReturned

\* The model answers: with calls, or for good.
LEMMA TalkAnswers == TalkInv /\ StreamEnds => TalkInv'
  <1> SUFFICES ASSUME TalkInv, StreamEnds PROVE TalkInv'
    OBVIOUS
  <1>1. /\ mode = "streaming" /\ TalkTypeOK /\ Placed /\ ShortBatches /\ step' = step
        /\ Shaped(msgs) /\ AllAnswered /\ step \in Nat /\ step + 1 <= MaxSteps
        /\ Cardinality(Mine) <= step /\ Cardinality(Mine) \in Nat
        /\ count' = count /\ count <= 2 /\ msgs \in Seq(Messages)
    BY AgentAssumption, TalkCounted DEF StreamEnds, TalkInv, TalkTypeOK
  <1>2. /\ used' \in Nat /\ step' = step /\ last' = last /\ count' = count
        /\ consent' = consent /\ registry' = registry /\ live' = live /\ late' = late
        /\ cancelled' = cancelled /\ swapped' = swapped /\ runs' = runs
        /\ executed' = executed
    BY <1>1, AgentAssumption DEF StreamEnds, Count, TalkTypeOK, envVars
  <1>3. ASSUME Return("budget", msgs), next' = next PROVE TalkInv'
    <2>1. /\ msgs' = msgs /\ history' = msgs' /\ mode' = "idle" /\ result' \in Results
      BY <1>3 DEF Return, Results
    <2>2. Placed' /\ ShortBatches' /\ Shaped(msgs)' /\ Mine' = Mine
      BY <1>1, <2>1, TalkUntouched
    <2>3. TalkTypeOK'
      BY <1>1, <1>2, <1>3, <2>1 DEF TalkTypeOK, Modes
    <2>4. Cardinality(Mine') <= MaxSteps
      BY <2>2, TalkCounted
    <2> QED
      BY <2>1, <2>2, <2>3, <2>4, TalkReturned
  <1>4. ASSUME NEW b \in Batches, msgs' = Append(msgs, Assistant(b))
        PROVE  /\ b \in Seq(Calls) /\ Len(b) \in 0..MaxBatch
               /\ msgs' \in Seq(Messages) /\ msgs' # <<>>
               /\ Shaped(msgs)' /\ Begins(history, msgs') /\ ShortBatches' /\ Placed'
               /\ Cardinality(Mine') <= step + 1
               /\ Len(msgs') = Len(msgs) + 1 /\ Len(msgs) \in Nat
               /\ msgs'[Len(msgs) + 1].calls = b
               /\ Turns' = Turns \cup {Len(msgs) + 1} /\ Turns \subseteq 1..Len(msgs)
    <2>1. b \in Seq(Calls) /\ Len(b) \in 0..MaxBatch
      <3>1. PICK k \in 0..MaxBatch : b \in [1..k -> Calls]
        BY DEF Batches
      <3> QED
        BY <3>1, AgentAssumption
    <2> DEFINE m == Assistant(b)
    <2>2. m \in Messages /\ m.role = "assistant" /\ m.calls = b
      BY <2>1, MessageKinds
    <2>3. Len(m.calls) <= MaxBatch
      BY <2>1, <2>2, AgentAssumption
    <2> HIDE DEF m
    <2>4. msgs' = Append(msgs, m)
      BY <1>4 DEF m
    <2>5. /\ msgs' \in Seq(Messages) /\ msgs' # <<>>
          /\ Shaped(msgs)' /\ Begins(history, msgs') /\ ShortBatches' /\ Placed'
      BY <1>1, <2>2, <2>3, <2>4, TalkGrows
    <2>6. Cardinality(Mine') <= step + 1
      <3>1. Cardinality(Mine') <= Cardinality(Mine) + 1 /\ Cardinality(Mine') \in Nat
        BY <1>1, <2>2, <2>4, MineGrows
      <3> HIDE DEF Mine
      <3> QED
        BY <1>1, <3>1
    <2>7. /\ Len(msgs') = Len(msgs) + 1 /\ Len(msgs) \in Nat
          /\ msgs'[Len(msgs) + 1].calls = b
          /\ Turns' = Turns \cup {Len(msgs) + 1} /\ Turns \subseteq 1..Len(msgs)
      BY <1>1, <2>2, <2>4, OneMessageMore
    <2> QED
      BY <2>1, <2>5, <2>6, <2>7
  <1>5. ASSUME NEW b \in Batches, Return("answer", Append(msgs, Assistant(b))), next' = next
        PROVE  TalkInv'
    <2>1. /\ msgs' = Append(msgs, Assistant(b)) /\ history' = msgs' /\ mode' = "idle"
          /\ result' \in Results
      BY <1>5 DEF Return, Results
    <2>2. /\ msgs' \in Seq(Messages) /\ Shaped(msgs)' /\ ShortBatches' /\ Placed'
          /\ Cardinality(Mine') <= step + 1
      BY <1>4, <2>1
    <2>3. TalkTypeOK'
      BY <1>1, <1>2, <1>5, <2>1, <2>2 DEF TalkTypeOK, Modes
    <2>4. Cardinality(Mine') <= MaxSteps
      <3>1. Cardinality(Mine') \in Nat
        BY <1>1, <2>1, MineGrows, MessageKinds, <1>4
      <3> HIDE DEF Mine
      <3> QED
        BY <1>1, <2>2, <3>1, AgentAssumption
    <2> QED
      BY <2>1, <2>2, <2>3, <2>4, TalkReturned
  <1>6. ASSUME NEW b \in Batches, b # <<>>, mode' = "calling",
               msgs' = Append(msgs, Assistant(b)), next' = 1,
               UNCHANGED <<history, result>>
        PROVE  TalkInv'
    <2>1. /\ b \in Seq(Calls) /\ Len(b) \in 0..MaxBatch
          /\ msgs' \in Seq(Messages) /\ msgs' # <<>>
          /\ Shaped(msgs)' /\ Begins(history, msgs') /\ ShortBatches' /\ Placed'
          /\ Cardinality(Mine') <= step + 1
          /\ Len(msgs') = Len(msgs) + 1 /\ Len(msgs) \in Nat
          /\ msgs'[Len(msgs) + 1].calls = b
          /\ Turns' = Turns \cup {Len(msgs) + 1} /\ Turns \subseteq 1..Len(msgs)
      BY <1>4, <1>6
    <2>2. TalkTypeOK'
      <3>1. next' \in 1..MaxBatch
        BY <1>6, AgentAssumption
      <3> QED
        BY <1>1, <1>2, <1>6, <2>1, <3>1 DEF TalkTypeOK, Modes
    <2>3. InBatch'
      <3> DEFINE l == Len(msgs) + 1
      <3>1. l \in Turns' /\ \A p \in Turns' : p <= l
        BY <2>1
      <3>2. Len(msgs') = l + next' - 1 /\ next' <= Len(msgs'[l].calls)
        BY <1>6, <2>1
      <3>3. \A j \in (l + 1)..Len(msgs') : msgs'[j].role = "tool"
        BY <2>1
      <3> HIDE DEF l
      <3> QED
        BY <3>1, <3>2, <3>3 DEF InBatch, IsLast
    <2>4. CountedIn'
      BY <1>1, <1>6, <2>1 DEF CountedIn, Dispatching
    <2>5. Shaped(history)' /\ Begins(history, msgs)'
      BY <1>6, <2>1 DEF TalkInv, Shaped, Begins
    <2>6. step' < MaxSteps /\ count' <= 2
      BY <1>1, AgentAssumption
    <2> QED
      BY <1>6, <2>1, <2>2, <2>3, <2>4, <2>5, <2>6 DEF TalkInv
  <1>7. PICK u \in Usages :
          \/ OverBudget(u) /\ Return("budget", msgs) /\ UNCHANGED next
          \/ /\ ~OverBudget(u)
             /\ \E b \in Batches :
                  LET m == Append(msgs, Assistant(b)) IN
                  \/ b = <<>> /\ Return("answer", m) /\ UNCHANGED next
                  \/ /\ b # <<>>
                     /\ mode' = "calling"
                     /\ msgs' = m
                     /\ next' = 1
                     /\ UNCHANGED <<history, result>>
    BY DEF StreamEnds
  <1> QED
    BY <1>3, <1>5, <1>6, <1>7

\* The result of the current call joins the transcript behind its message.
LEMMA TalkResult ==
  ASSUME TalkInv, mode \in Dispatching, msgs' = Answered
  PROVE  /\ Current \in Calls
         /\ msgs' \in Seq(Messages) /\ msgs' # <<>>
         /\ Shaped(msgs)' /\ Begins(history, msgs') /\ ShortBatches' /\ Placed'
         /\ Cardinality(Mine') <= step + 1 /\ step + 1 <= MaxSteps
         /\ \E l \in Turns :
              /\ IsLast(l) /\ IsLast(l)' /\ Batch = msgs[l].calls
              /\ msgs'[l] = msgs[l] /\ Len(msgs[l].calls) \in 0..MaxBatch
              /\ Len(msgs') = l + next /\ next <= Len(msgs[l].calls)
              /\ \A j \in (l + 1)..Len(msgs') : msgs'[j].role = "tool"
  <1>1. /\ msgs \in Seq(Messages) /\ next \in Nat /\ next >= 1 /\ mode # "idle" /\ InBatch
        /\ ShortBatches
    BY AgentAssumption DEF TalkInv, TalkTypeOK, Dispatching
  <1>2. PICK l \in Turns : /\ IsLast(l)
                           /\ Len(msgs) = l + next - 1 /\ next <= Len(msgs[l].calls)
                           /\ \A j \in (l + 1)..Len(msgs) : msgs[j].role = "tool"
    BY <1>1 DEF InBatch
  <1>3. LastAssistant = l /\ Batch = msgs[l].calls
    BY <1>1, <1>2, TheLast
  <1>4. /\ l \in 1..Len(msgs) /\ msgs[l].calls \in Seq(Calls)
        /\ Len(msgs[l].calls) \in Nat /\ Len(msgs[l].calls) <= MaxBatch
    BY <1>1, CallsOf DEF ShortBatches
  <1> DEFINE m == Tool(LastAssistant, next)
  <1>5. m \in Messages /\ m.role = "tool"
    BY <1>1, <1>3, <1>4, MessageKinds
  <1>6. msgs' = Append(msgs, m) /\ m = Tool(LastAssistant, next)
    BY DEF Answered
  <1> HIDE DEF m
  <1>7. /\ msgs' \in Seq(Messages) /\ msgs' # <<>>
        /\ Shaped(msgs)' /\ Begins(history, msgs') /\ ShortBatches' /\ Placed'
    BY <1>1, <1>5, <1>6, TalkGrows
  <1>8. Cardinality(Mine') <= step + 1 /\ step + 1 <= MaxSteps
    <2>1. Cardinality(Mine') = Cardinality(Mine)
      BY <1>1, <1>5, <1>6, MineGrows
    <2>2. Cardinality(Mine) <= step + 1 /\ step + 1 <= MaxSteps
      BY TalkCounted
    <2> HIDE DEF Mine
    <2> QED
      BY <2>1, <2>2
  <1>9. Current \in Calls
    BY <1>1, <1>2, <1>3, <1>4 DEF Current
  <1>10. /\ Len(msgs') = Len(msgs) + 1 /\ Len(msgs) \in Nat
         /\ \A i \in 1..Len(msgs) : msgs'[i] = msgs[i]
         /\ msgs'[Len(msgs) + 1] = m
         /\ Turns' = Turns
    BY <1>1, <1>5, <1>6, OneMessageMore
  <1>11. IsLast(l) /\ IsLast(l)'
    BY <1>2, <1>10 DEF IsLast
  <1>12. Len(msgs') = l + next /\ msgs'[l] = msgs[l]
    BY <1>1, <1>2, <1>4, <1>10
  <1>13. ASSUME NEW j \in (l + 1)..Len(msgs') PROVE msgs'[j].role = "tool"
    <2>1. CASE j = Len(msgs) + 1
      BY <1>5, <1>10, <2>1
    <2>2. CASE j # Len(msgs) + 1
      <3>1. j \in (l + 1)..Len(msgs) /\ j \in 1..Len(msgs)
        BY <1>4, <1>10, <2>2
      <3> QED
        BY <1>2, <1>10, <3>1
    <2> QED
      BY <2>1, <2>2
  <1> QED
    BY <1>2, <1>3, <1>4, <1>7, <1>8, <1>9, <1>11, <1>12, <1>13

\* A run that a hook or the operator ends leaves the result that says so.
LEMMA TalkAborted ==
  ASSUME TalkInv, mode \in Dispatching, NEW res \in Results, Abort(res), TalkTypeOK'
  PROVE  TalkInv'
  <1>1. msgs' = Answered /\ history' = msgs' /\ mode' = "idle"
    BY DEF Abort, Return
  <1>2. /\ Shaped(msgs)' /\ ShortBatches' /\ Placed' /\ msgs' \in Seq(Messages)
        /\ Cardinality(Mine') <= step + 1 /\ step + 1 <= MaxSteps
    BY <1>1, TalkResult
  <1>3. Cardinality(Mine') <= MaxSteps
    <2>1. Cardinality(Mine') \in Nat /\ step \in Nat /\ MaxSteps \in Nat
      <3>1. IsFiniteSet(1..Len(msgs'))
        BY <1>2, FS_Interval
      <3>2. Mine' \subseteq 1..Len(msgs')
        BY <1>2 DEF Mine, Turns
      <3>3. Cardinality(Mine') \in Nat
        BY <3>1, <3>2, FS_Subset, FS_CardinalityType
      <3> QED
        BY <3>3, AgentAssumption DEF TalkInv, TalkTypeOK
    <2> HIDE DEF Mine
    <2> QED
      BY <1>2, <2>1
  <1> QED
    BY <1>1, <1>2, <1>3, TalkReturned

\* The hooks let a call through or end the run.
LEMMA TalkDispatches == TalkInv /\ Dispatch => TalkInv'
  <1> SUFFICES ASSUME TalkInv, Dispatch PROVE TalkInv'
    OBVIOUS
  <1>1. /\ mode = "calling" /\ mode \in Dispatching /\ TalkTypeOK /\ InBatch
        /\ count \in 0..3 /\ count <= 2
    BY DEF Dispatch, TalkInv, TalkTypeOK, Dispatching
  <1>2. Current \in Calls
    <2>1. PICK l \in Turns : IsLast(l) /\ next <= Len(msgs[l].calls)
      BY <1>1 DEF InBatch
    <2>2. msgs \in Seq(Messages) /\ next \in Nat /\ next >= 1
      BY <1>1, AgentAssumption DEF TalkTypeOK
    <2>3. Batch = msgs[l].calls
      BY <2>1, <2>2, TheLast
    <2>4. msgs[l].calls \in Seq(Calls) /\ Len(msgs[l].calls) \in Nat
      BY <2>2, CallsOf
    <2> QED
      BY <2>1, <2>2, <2>3, <2>4 DEF Current
  <1>3. /\ last' = Current /\ count' = IF Current = last THEN count + 1 ELSE 1
        /\ consent' = FALSE /\ step' = step /\ next' = next /\ used' = used
        /\ registry' = registry /\ live' = live /\ late' = late /\ cancelled' = cancelled
        /\ swapped' = swapped /\ runs' = runs /\ executed' = executed
    BY DEF Dispatch, envVars
  <1>4. count' \in 0..3 /\ last' \in Calls \cup {NoCall}
    BY <1>1, <1>2, <1>3
  <1>5. ASSUME NEW res \in Results, Abort(res) PROVE TalkInv'
    <2>1. msgs' = Answered /\ history' = msgs' /\ mode' = "idle" /\ result' \in Results
      BY <1>5 DEF Abort, Return
    <2>2. msgs' \in Seq(Messages)
      BY <1>1, <2>1, TalkResult
    <2>3. TalkTypeOK'
      BY <1>1, <1>3, <1>4, <2>1, <2>2 DEF TalkTypeOK, Modes
    <2> QED
      BY <1>1, <1>5, <2>3, TalkAborted
  <1>6. ASSUME ~Stuck(Current), UNCHANGED <<history, msgs, result>>,
               mode' \in {"asking", "executing"}
        PROVE  TalkInv'
    <2>1. Placed' /\ ShortBatches' /\ Shaped(msgs)' /\ Mine' = Mine
      BY <1>6, TalkUntouched DEF TalkInv
    <2>2. TalkTypeOK'
      BY <1>1, <1>3, <1>4, <1>6 DEF TalkTypeOK, Modes
    <2>3. count' <= 2
      BY <1>1, <1>3, <1>6 DEF Stuck
    <2>4. InBatch'
      BY <1>1, <1>3, <1>6 DEF InBatch, IsLast, Turns
    <2>5. CountedIn'
      BY <1>1, <1>3, <1>6, <2>1, TalkCounted DEF CountedIn, Dispatching
    <2>6. Shaped(history)' /\ Begins(history, msgs)'
      BY <1>6 DEF TalkInv, Shaped, Begins
    <2>7. step' < MaxSteps /\ msgs' # <<>> /\ mode' \in Dispatching /\ mode' # "idle"
          /\ mode' \notin {"looping", "streaming"}
      BY <1>1, <1>3, <1>6 DEF TalkInv, Dispatching
    <2> QED
      BY <2>1, <2>2, <2>3, <2>4, <2>5, <2>6, <2>7 DEF TalkInv
  <1>7. "duplicate" \in Results /\ "limit" \in Results
    BY DEF Results
  <1> QED
    BY <1>5, <1>6, <1>7 DEF Dispatch

\* The operator, or the end of the context.
LEMMA TalkIsAsked == TalkInv /\ (Approve \/ Deny \/ ApprovalAbandoned) => TalkInv'
  <1>1. ASSUME TalkInv, Approve PROVE TalkInv'
    <2>1. /\ mode = "asking" /\ mode' = "executing" /\ msgs' = msgs /\ step' = step
          /\ next' = next /\ history' = history /\ count' = count
      BY <1>1 DEF Approve
    <2>2. Placed' /\ ShortBatches' /\ Shaped(msgs)' /\ Mine' = Mine
      BY <1>1, <2>1, TalkUntouched DEF TalkInv
    <2>3. TalkTypeOK'
      BY <1>1 DEF TalkInv, Approve, TalkTypeOK, Modes, envVars
    <2>4. InBatch'
      BY <1>1, <2>1 DEF TalkInv, Dispatching, InBatch, IsLast, Turns
    <2>5. CountedIn'
      BY <1>1, <2>1, <2>2, TalkCounted DEF CountedIn, Dispatching
    <2>6. Shaped(history)' /\ Begins(history, msgs)'
      BY <1>1, <2>1 DEF TalkInv, Shaped, Begins
    <2>7. step' < MaxSteps /\ msgs' # <<>> /\ mode' # "idle" /\ count' <= 2
          /\ mode' \notin {"looping", "streaming"}
      BY <1>1, <2>1 DEF TalkInv, Dispatching
    <2> QED
      BY <2>2, <2>3, <2>4, <2>5, <2>6, <2>7 DEF TalkInv
  <1>2. ASSUME TalkInv, Deny \/ ApprovalAbandoned PROVE TalkInv'
    <2>1. PICK res \in Results : Abort(res)
      <3>1. {"denied", "denied_late", "denied_cancelled"} \subseteq Results
        BY DEF Results
      <3> QED
        BY <1>2, <3>1 DEF Deny, ApprovalAbandoned
    <2>2. mode \in Dispatching /\ mode = "asking"
      BY <1>2 DEF Deny, ApprovalAbandoned, Dispatching
    <2>3. msgs' = Answered /\ history' = msgs' /\ mode' = "idle" /\ result' \in Results
      BY <2>1 DEF Abort, Return
    <2>4. msgs' \in Seq(Messages)
      BY <1>2, <2>2, <2>3, TalkResult
    <2>5. TalkTypeOK'
      <3>1. UNCHANGED <<step, next, hookVars, registry, envVars, runs, executed>>
        BY <1>2 DEF Deny, ApprovalAbandoned
      <3> QED
        BY <1>2, <2>3, <2>4, <3>1 DEF TalkInv, TalkTypeOK, Modes, hookVars, envVars
    <2> QED
      BY <1>2, <2>1, <2>2, <2>5, TalkAborted
  <1> QED
    BY <1>1, <1>2

\* A call runs; behind the last one of its message the next round begins.
LEMMA TalkExecutes == TalkInv /\ Execute => TalkInv'
  <1> SUFFICES ASSUME TalkInv, Execute PROVE TalkInv'
    OBVIOUS
  <1>1. /\ mode = "executing" /\ mode \in Dispatching /\ TalkTypeOK /\ msgs' = Answered
        /\ history' = history /\ count' = count /\ count <= 2 /\ step \in 0..MaxSteps
        /\ next \in 1..MaxBatch
    BY DEF Execute, TalkInv, TalkTypeOK, Dispatching, hookVars
  <1>2. /\ Current \in Calls
        /\ msgs' \in Seq(Messages) /\ msgs' # <<>>
        /\ Shaped(msgs)' /\ Begins(history, msgs') /\ ShortBatches' /\ Placed'
        /\ Cardinality(Mine') <= step + 1 /\ step + 1 <= MaxSteps
    BY <1>1, TalkResult
  <1>3. PICK l \in Turns :
              /\ IsLast(l) /\ IsLast(l)' /\ Batch = msgs[l].calls
              /\ msgs'[l] = msgs[l] /\ Len(msgs[l].calls) \in 0..MaxBatch
              /\ Len(msgs') = l + next /\ next <= Len(msgs[l].calls)
              /\ \A j \in (l + 1)..Len(msgs') : msgs'[j].role = "tool"
    BY <1>1, TalkResult
  <1>4. l \in Nat
    BY <1>1, CallsOf DEF TalkTypeOK
  <1>5. executed' \in Seq([call : Calls, consent : BOOLEAN, found : BOOLEAN])
    <2>1. /\ executed \in Seq([call : Calls, consent : BOOLEAN, found : BOOLEAN])
          /\ consent \in BOOLEAN
      BY <1>1 DEF TalkTypeOK
    <2> DEFINE e == [call |-> Current, consent |-> consent, found |-> Current \in registry]
    <2>2. e \in [call : Calls, consent : BOOLEAN, found : BOOLEAN]
      <3>1. (Current \in registry) \in BOOLEAN
        OBVIOUS
      <3> QED
        BY <1>2, <2>1, <3>1
    <2>3. executed' = Append(executed, e)
      BY DEF Execute
    <2> HIDE DEF e
    <2> QED
      BY <2>1, <2>2, <2>3
  <1>6. Shaped(history)' /\ Begins(history, msgs)'
    BY <1>1, <1>2 DEF TalkInv, Shaped, Begins
  <1>7. ASSUME next < Len(Batch), mode' = "calling", next' = next + 1, step' = step
        PROVE  TalkInv'
    <2>1. next' \in 1..MaxBatch
      BY <1>1, <1>3, <1>7, AgentAssumption
    <2>2. TalkTypeOK'
      BY <1>1, <1>2, <1>5, <1>7, <2>1 DEF TalkTypeOK, Modes, Execute, hookVars, envVars
    <2>3. InBatch'
      <3>1. Len(msgs') = l + next' - 1 /\ next' <= Len(msgs'[l].calls)
        BY <1>1, <1>3, <1>4, <1>7
      <3> QED
        BY <1>3, <3>1 DEF InBatch, IsLast
    <2>4. CountedIn'
      BY <1>2, <1>7 DEF CountedIn, Dispatching
    <2>5. step' < MaxSteps
      BY <1>1, <1>2, <1>7, AgentAssumption
    <2> QED
      BY <1>1, <1>2, <1>6, <1>7, <2>2, <2>3, <2>4, <2>5 DEF TalkInv
  <1>8. ASSUME next = Len(Batch), mode' = "looping", step' = step + 1, next' = next
        PROVE  TalkInv'
    <2>1. step' \in 0..MaxSteps
      BY <1>1, <1>2, <1>8, AgentAssumption
    <2>2. TalkTypeOK'
      BY <1>1, <1>2, <1>5, <1>8, <2>1 DEF TalkTypeOK, Modes, Execute, hookVars, envVars
    <2>3. AllAnswered'
      <3>1. Len(msgs') = l + Len(msgs'[l].calls)
        BY <1>3, <1>8
      <3> QED
        BY <1>2, <1>3, <3>1 DEF AllAnswered, IsLast
    <2>4. CountedIn'
      BY <1>2, <1>8 DEF CountedIn, Dispatching
    <2>5. mode' \notin Dispatching \cup {"streaming", "idle"}
      BY <1>8 DEF Dispatching
    <2> QED
      BY <1>1, <1>2, <1>6, <2>2, <2>3, <2>4, <2>5 DEF TalkInv
  <1> QED
    BY <1>7, <1>8 DEF Execute

\* The environment, and a run that is refused, leave the talk alone.
LEMMA TalkIsLeftAlone ==
  TalkInv /\ (RefuseRun \/ DeadlinePasses \/ Cancel \/ SwapRegistry \/ UNCHANGED vars)
    => TalkInv'
  <1> SUFFICES ASSUME TalkInv,
                      RefuseRun \/ DeadlinePasses \/ Cancel \/ SwapRegistry \/ UNCHANGED vars
               PROVE  TalkInv'
    OBVIOUS
  <1>1. UNCHANGED <<mode, history, msgs, step, next, count>>
    BY DEF RefuseRun, DeadlinePasses, Cancel, SwapRegistry, vars, hookVars
  <1>2. TalkTypeOK'
    <2>1. TalkTypeOK
      BY DEF TalkInv
    <2>2. CASE RefuseRun
      <3>1. runs' \in 0..MaxRuns /\ result' \in Results
        BY <2>1, <2>2, AgentAssumption DEF RefuseRun, TalkTypeOK, Results
      <3> QED
        BY <2>1, <2>2, <3>1 DEF RefuseRun, TalkTypeOK, hookVars, envVars
    <2>3. CASE DeadlinePasses
      BY <2>1, <2>3 DEF DeadlinePasses, TalkTypeOK, hookVars
    <2>4. CASE Cancel
      BY <2>1, <2>4 DEF Cancel, TalkTypeOK, hookVars
    <2>5. CASE SwapRegistry
      BY <2>1, <2>5 DEF SwapRegistry, TalkTypeOK, hookVars
    <2>6. CASE UNCHANGED vars
      BY <2>1, <2>6 DEF vars, TalkTypeOK
    <2> QED
      BY <2>2, <2>3, <2>4, <2>5, <2>6
  <1>3. Placed' /\ ShortBatches' /\ Shaped(msgs)' /\ Mine' = Mine
        /\ (AllAnswered => AllAnswered')
    BY <1>1, TalkUntouched DEF TalkInv
  <1>4. InBatch => InBatch'
    BY <1>1 DEF InBatch, IsLast, Turns
  <1>5. CountedIn'
    BY <1>1, <1>3 DEF TalkInv, CountedIn
  <1>6. Shaped(history)' /\ Begins(history, msgs)'
    BY <1>1 DEF TalkInv, Shaped, Begins
  <1> QED
    BY <1>1, <1>2, <1>3, <1>4, <1>5, <1>6 DEF TalkInv

\* Every step keeps the talk in order.
LEMMA TalkHolds == TalkInv /\ [Next]_vars => TalkInv'
  BY TalkStarts, TalkLoops, TalkFails, TalkAnswers, TalkDispatches, TalkIsAsked,
     TalkExecutes, TalkIsLeftAlone DEF Next, Loop

\* However the runs of a conversation end, its transcript is one a provider
\* accepts: every result stands at its place behind the message with its call,
\* none is missing when the model is asked again, and no run makes more
\* messages with calls than the step budget allows.
THEOREM TranscriptsAreWellFormed == Spec => []TranscriptWellFormed
  <1>1. Spec => []TalkInv
    BY TalkInitially, TalkHolds, PTL DEF Spec
  <1> QED
    BY <1>1, TalkIsWellFormed, PTL

\* What a longer transcript that begins with h says begins with what h says.
LEMMA SpokenGrows ==
  ASSUME NEW h \in Seq(Messages), NEW m \in Seq(Messages), Shaped(h), Shaped(m),
         Begins(h, m)
  PROVE  IsPrefix(Spoken(h), Spoken(m))
  <1>1. Len(h) \in Nat /\ Len(m) \in Nat /\ Len(h) <= Len(m)
    BY DEF Begins
  <1>2. CASE h = <<>>
    <2> DEFINE t == Unsystem(m)
    <2>1. Spoken(h) = <<>> /\ Spoken(m) = t
      BY <1>2, ReplayOfShaped DEF Spoken
    <2>2. t \in Seq(Messages)
      BY ReplayOfShaped
    <2> HIDE DEF t
    <2>3. Len(<<>>) <= Len(t) /\ SubSeq(<<>>, 1, Len(<<>>)) = SubSeq(t, 1, Len(<<>>))
      <3>1. SubSeq(t, 1, 0) = <<>> /\ SubSeq(<<>>, 1, 0) = <<>>
        BY <2>2
      <3> QED
        BY <2>2, <3>1
    <2> QED
      BY <2>1, <2>3 DEF IsPrefix
  <1>3. CASE h # <<>>
    <2> DEFINE s == Unsystem(h)
               t == Unsystem(m)
    <2>1. m # <<>> /\ Len(h) >= 1
      BY <1>1, <1>3
    <2>2. /\ s \in Seq(Messages) /\ Len(s) = Len(h) - 1
          /\ \A k \in 1..(Len(h) - 1) : s[k] = h[k + 1]
      BY <1>3, ReplayOfShaped
    <2>3. /\ t \in Seq(Messages) /\ Len(t) = Len(m) - 1
          /\ \A k \in 1..(Len(m) - 1) : t[k] = m[k + 1]
      BY <2>1, ReplayOfShaped
    <2>4. Spoken(h) = s /\ Spoken(m) = t
      BY DEF Spoken
    <2> HIDE DEF s, t
    <2>5. Len(s) <= Len(t) /\ Len(s) \in Nat
      BY <1>1, <2>1, <2>2, <2>3
    <2>6. \A k \in 1..Len(s) : s[k] = t[k]
      <3>1. ASSUME NEW k \in 1..Len(s) PROVE s[k] = t[k]
        <4>1. k + 1 \in 1..Len(h) /\ k \in 1..(Len(h) - 1) /\ k \in 1..(Len(m) - 1)
          BY <1>1, <2>1, <2>2
        <4>2. m[k + 1] = h[k + 1]
          BY <4>1 DEF Begins
        <4> QED
          BY <2>2, <2>3, <4>1, <4>2
      <3> QED
        BY <3>1
    <2>7. SubSeq(s, 1, Len(s)) = SubSeq(t, 1, Len(s))
      <3> DEFINE a == SubSeq(s, 1, Len(s))
                 b == SubSeq(t, 1, Len(s))
      <3>1. /\ a \in Seq(Messages) /\ Len(a) = Len(s) /\ \A k \in 1..Len(s) : a[k] = s[k]
            /\ b \in Seq(Messages) /\ Len(b) = Len(s) /\ \A k \in 1..Len(s) : b[k] = t[k]
        BY <2>2, <2>3, <2>5
      <3> HIDE DEF a, b
      <3>2. a = b
        BY <2>6, <3>1, SeqEqual
      <3> QED
        BY <3>2 DEF a, b
    <2> QED
      BY <2>4, <2>5, <2>7 DEF IsPrefix
  <1> QED
    BY <1>2, <1>3

\* No run loses what the conversation already held: whatever ends it, the
\* conversation it returns begins with the one it was given.
THEOREM NoRunLosesHistory == Spec => HistoryKept
  <1>1. ASSUME TalkInv, TalkInv', [Next]_vars
        PROVE  [IsPrefix(Spoken(history), Spoken(history'))]_history
    <2> SUFFICES ASSUME history' # history
                 PROVE  IsPrefix(Spoken(history), Spoken(history'))
      OBVIOUS
    <2>1. /\ history \in Seq(Messages) /\ Shaped(history) /\ msgs \in Seq(Messages)
          /\ Begins(history, msgs)
      BY <1>1 DEF TalkInv, TalkTypeOK
    <2>2. history' \in Seq(Messages) /\ Shaped(history')
      BY <1>1 DEF TalkInv, TalkTypeOK, Shaped
    <2>3. PICK res : \E m : Return(res, m)
      BY <1>1 DEF Next, Loop, vars, StartRun, RefuseRun, LoopHead, StreamFails, StreamEnds,
         Dispatch, Approve, Deny, ApprovalAbandoned, Abort, Execute, DeadlinePasses, Cancel,
         SwapRegistry
    <2>4. history' = msgs' /\ mode' = "idle"
      BY <2>3 DEF Return
    <2>5. Begins(history, msgs')
      <3>1. msgs' = msgs \/ \E m \in Messages : msgs' = Append(msgs, m)
        <4>1. CASE \E b \in Batches : msgs' = Append(msgs, Assistant(b))
          <5>1. \A b \in Batches : Assistant(b) \in Messages
            <6>1. \A b \in Batches : b \in Seq(Calls)
              BY AgentAssumption DEF Batches
            <6> QED
              BY <6>1, MessageKinds
          <5> QED
            BY <4>1, <5>1
        <4>2. CASE msgs' = Answered /\ mode \in Dispatching
          <5>1. next \in Nat /\ InBatch
            BY <1>1, <4>2 DEF TalkInv, TalkTypeOK
          <5>2. PICK l \in Turns : IsLast(l)
            BY <5>1 DEF InBatch
          <5>3. LastAssistant = l /\ l \in Nat
            BY <2>1, <5>2, TheLast, CallsOf
          <5>4. Tool(LastAssistant, next) \in Messages
            BY <5>1, <5>3, MessageKinds
          <5> QED
            BY <4>2, <5>4 DEF Answered
        <4>3. \/ msgs' = msgs
              \/ \E b \in Batches : msgs' = Append(msgs, Assistant(b))
              \/ msgs' = Answered /\ mode \in Dispatching
          BY <1>1, <2>4 DEF Next, Loop, vars, StartRun, RefuseRun, LoopHead, StreamFails,
             StreamEnds, Dispatch, Approve, Deny, ApprovalAbandoned, Abort, Execute,
             DeadlinePasses, Cancel, SwapRegistry, Return, Dispatching
        <4> QED
          BY <4>1, <4>2, <4>3
      <3>2. \A m \in Messages : msgs' = Append(msgs, m) => Begins(history, msgs')
        BY <2>1 DEF Begins
      <3> QED
        BY <2>1, <3>1, <3>2
    <2> QED
      BY <2>1, <2>2, <2>4, <2>5, SpokenGrows
  <1>2. Spec => []TalkInv
    BY TalkInitially, TalkHolds, PTL DEF Spec
  <1> QED
    BY <1>1, <1>2, PTL DEF Spec, HistoryKept

-----------------------------------------------------------------------------
(***************************************************************************)
(* ApprovalGate.  What the screen shows is an old turn's affair as soon as *)
(* the turn gives up, so the invariant follows a question from the turn's  *)
(* channel to the banner and to the reply: the channel holds at most the   *)
(* turn's last request and the end; a request that is on its way is not    *)
(* shown and has no answer; what is shown is the last request of a turn    *)
(* that has not gone on, and has no answer either.                         *)
(***************************************************************************)

Places == {"none", "working", "waiting", "leaving", "over"}

ApprovalTypeOK ==
  /\ shown \in Requests \cup {Nothing}
  /\ turn \in Nat /\ behind \in Nat /\ started \in Nat
  /\ started + behind <= MaxTurns
  /\ at \in [TurnIds -> Places]
  /\ asks \in [TurnIds -> 0..MaxAsks]
  /\ DOMAIN chan = TurnIds
  /\ DOMAIN stopped = TurnIds
  /\ reply \in [Requests -> {"empty", "yes", "no"}]

\* The loop reads the one turn that is not over, and what it has sent.
TurnInv ==
  /\ turn <= started
  /\ \A r \in TurnIds :
       /\ r > started => at[r] = "none" /\ chan[r] = <<>> /\ ~stopped[r]
       /\ at[r] \in {"working", "waiting", "leaving"} => turn = r
       /\ chan[r] # <<>> => turn = r
  /\ turnOn => turn # 0
  /\ turn # 0 /\ ~stopped[turn] => turnOn
  /\ typing => turn = 0

\* A request on its way has not been shown and has no answer.
OnTheWay(r) ==
  /\ asks[r] >= 1
  /\ reply[Request(r)] = "empty"
  /\ shown # Request(r)

\* What a channel may hold, at most the turn's last request and the end.
ChannelInv ==
  \A r \in TurnIds :
    \/ chan[r] = <<>>
    \/ chan[r] = <<Over>> /\ at[r] = "over"
    \/ chan[r] = <<Request(r)>> /\ at[r] \in {"waiting", "leaving"} /\ OnTheWay(r)
    \/ chan[r] = <<Request(r), Over>> /\ at[r] = "over" /\ OnTheWay(r)

\* The question that is up is the last of its turn, which has not gone on.
ShownInv ==
  shown # Nothing =>
    \E r \in TurnIds :
      /\ shown = Request(r) /\ asks[r] >= 1
      /\ at[r] # "working" /\ r <= started
      /\ reply[shown] = "empty"

ReplyInv ==
  /\ \A r \in TurnIds, n \in 1..MaxAsks :
       n > asks[r] => reply[<<r, n>>] = "empty"
  /\ \A q \in Requests : reply[q] = "yes" => q \in agreed
  /\ \A r \in TurnIds : at[r] = "waiting" => asks[r] >= 1

ApprovalInv ==
  /\ ApprovalTypeOK /\ TurnInv /\ ChannelInv /\ ShownInv /\ ReplyInv
  /\ ConsentIsHers /\ QuestionsUp

-----------------------------------------------------------------------------
\* A channel holds a few events: what Append, Head and Tail make of them.

LEMMA ShortChannels ==
  /\ \A a : Append(<<>>, a) = <<a>> /\ Head(<<a>>) = a /\ Tail(<<a>>) = <<>>
  /\ \A a, b : /\ Append(<<a>>, b) = <<a, b>>
               /\ Head(<<a, b>>) = a /\ Tail(<<a, b>>) = <<b>>
  /\ \A a, b : <<a>> # <<>> /\ <<a, b>> # <<>>
  <1>1. \A a : Append(<<>>, a) = <<a>> /\ Head(<<a>>) = a /\ Tail(<<a>>) = <<>>
    OBVIOUS
  <1>2. \A a, b : Append(<<a>>, b) = <<a, b>>
    <2> TAKE a, b
    <2> DEFINE S == {a, b}
    <2>1. a \in S /\ b \in S /\ <<a>> \in Seq(S) /\ <<a, b>> \in Seq(S)
      OBVIOUS
    <2>2. /\ Append(<<a>>, b) \in Seq(S)
          /\ Len(Append(<<a>>, b)) = 2
          /\ Append(<<a>>, b)[1] = a /\ Append(<<a>>, b)[2] = b
      <3> HIDE DEF S
      <3> QED
        BY <2>1, AppendProperties
    <2>3. /\ Len(<<a, b>>) = 2 /\ <<a, b>>[1] = a /\ <<a, b>>[2] = b
      OBVIOUS
    <2> HIDE DEF S
    <2>4. \A i \in 1..2 : Append(<<a>>, b)[i] = <<a, b>>[i]
      BY <2>2, <2>3
    <2> QED
      BY <2>1, <2>2, <2>3, <2>4, SeqEqual, Zenon
  <1>3. \A a, b : Head(<<a, b>>) = a /\ Tail(<<a, b>>) = <<b>>
    OBVIOUS
  <1>4. \A a, b : <<a>> # <<>> /\ <<a, b>> # <<>>
    OBVIOUS
  <1> QED
    BY <1>1, <1>2, <1>3, <1>4

LEMMA RequestFacts ==
  ASSUME NEW r \in TurnIds
  PROVE  /\ ApprovalTypeOK /\ asks[r] >= 1 => Request(r) \in Requests
         /\ Request(r) # Over /\ Request(r) # Nothing
         /\ Request(r)[1] = r /\ Request(r)[2] = asks[r]
         /\ \A s \in TurnIds : s # r => Request(s) # Request(r)
  BY ApprovalAssumption DEF ApprovalTypeOK, Request, Requests, TurnIds, Over, Nothing

LEMMA ApprovalInitially == ApprovalInit => ApprovalInv
  <1> SUFFICES ASSUME ApprovalInit PROVE ApprovalInv
    OBVIOUS
  <1> USE DEF ApprovalInit
  <1>1. ApprovalTypeOK
    BY ApprovalAssumption DEF ApprovalTypeOK, Places, Requests
  <1>2. TurnInv /\ ChannelInv
    BY DEF TurnInv, ChannelInv, TurnIds
  <1>3. ShownInv /\ ConsentIsHers /\ QuestionsUp
    BY DEF ShownInv, ConsentIsHers, QuestionsUp
  <1>4. ReplyInv
    BY DEF ReplyInv, Requests
  <1> QED
    BY <1>1, <1>2, <1>3, <1>4 DEF ApprovalInv

\* runAgent, called by submitMsg or by the end of a turn.
LEMMA StartTyped ==
  ASSUME ApprovalTypeOK, StartTurn, started < MaxTurns
  PROVE  /\ started' = started + 1 /\ started' \in TurnIds
         /\ turn' = started' /\ turnOn'
         /\ at' \in [TurnIds -> Places]
         /\ at'[started'] = "working"
         /\ \A r \in TurnIds : r # started' => at'[r] = at[r]
  BY ApprovalAssumption DEF StartTurn, ApprovalTypeOK, TurnIds, Places

LEMMA DispatchTyped ==
  ASSUME ApprovalTypeOK, DispatchBehind
  PROVE  /\ turn' \in Nat
         /\ behind' \in Nat /\ started' \in Nat
         /\ started' + behind' <= MaxTurns
         /\ at' \in [TurnIds -> Places]
  <1>1. CASE behind = 0
    BY <1>1 DEF DispatchBehind, ApprovalTypeOK
  <1>2. CASE behind # 0
    <2>1. started < MaxTurns /\ StartTurn /\ behind' = behind - 1
      BY <1>2, ApprovalAssumption DEF DispatchBehind, ApprovalTypeOK
    <2> QED
      BY <1>2, <2>1, StartTyped DEF ApprovalTypeOK, TurnIds
  <1> QED
    BY <1>1, <1>2

LEMMA TypeStep == ApprovalInv /\ [ApprovalNext]_approvalVars => ApprovalTypeOK'
  <1> SUFFICES ASSUME ApprovalInv, [ApprovalNext]_approvalVars
               PROVE  ApprovalTypeOK'
    OBVIOUS
  <1>0. ApprovalTypeOK
    BY DEF ApprovalInv
  <1> USE <1>0 DEF ApprovalTypeOK, modelVarsA, turnVars, witnessVars
  <1>1. CASE SubmitPrompt
    <2>1. CASE turnOn \/ behind > 0
      BY <1>1, <2>1, ApprovalAssumption DEF SubmitPrompt
    <2>2. CASE ~(turnOn \/ behind > 0)
      <3>1. StartTurn /\ started < MaxTurns /\ behind' = behind
        BY <1>1, <2>2, ApprovalAssumption DEF SubmitPrompt
      <3>2. started' + behind' <= MaxTurns /\ behind = 0
        BY <3>1, <2>2, StartTyped DEF TurnIds
      <3> QED
        BY <1>1, <2>2, <3>1, <3>2, StartTyped DEF SubmitPrompt, TurnIds
    <2> QED
      BY <2>1, <2>2
  <1>2. CASE HandleRequest
    <2>1. turn \in TurnIds /\ chan[turn] # <<>> /\ Head(chan[turn]) # Over
      BY <1>2, ApprovalAssumption DEF HandleRequest, ApprovalInv, TurnInv, TurnIds
    <2>2. Head(chan[turn]) = Request(turn) /\ asks[turn] >= 1
      BY <2>1, ShortChannels DEF ApprovalInv, ChannelInv, OnTheWay
    <2>3. shown' \in Requests
      BY <1>2, <2>1, <2>2, RequestFacts DEF HandleRequest
    <2> QED
      BY <1>2, <2>3 DEF HandleRequest
  <1>3. CASE HandleOver
    <2>1. CASE DispatchBehind
      BY <1>3, <2>1, DispatchTyped DEF HandleOver
    <2>2. CASE ~DispatchBehind
      BY <1>3, <2>2 DEF HandleOver
    <2> QED
      BY <2>1, <2>2
  <1>4. CASE TypingEnds
    BY <1>4, DispatchTyped DEF TypingEnds
  <1>5. CASE Review
    BY <1>5 DEF Review
  <1>6. CASE Stop
    BY <1>6, ApprovalAssumption DEF Stop
  <1>7. CASE OpenOverlay \/ PickerArrives \/ CloseOverlay
    BY <1>7 DEF OpenOverlay, PickerArrives, CloseOverlay
  <1>8. CASE \E yes \in BOOLEAN : Judge(yes)
    BY <1>8 DEF Judge
  <1>9. CASE \E yes \in BOOLEAN : AnswerRequest(yes)
    BY <1>9 DEF AnswerRequest, ReplyTo
  <1>10. ASSUME NEW r \in TurnIds, AskApproval(r)
         PROVE  ApprovalTypeOK'
    BY <1>10, ApprovalAssumption DEF AskApproval, Places
  <1>11. ASSUME NEW r \in TurnIds, TakeAnswer(r)
         PROVE  ApprovalTypeOK'
    BY <1>11 DEF TakeAnswer, ReplyTo, Places
  <1>12. ASSUME NEW r \in TurnIds, GiveUp(r) \/ Leave(r)
         PROVE  ApprovalTypeOK'
    BY <1>12 DEF GiveUp, Leave, Places
  <1>13. ASSUME NEW r \in TurnIds, StopArrives(r) \/ DeadlineArrives(r)
         PROVE  ApprovalTypeOK'
    BY <1>13 DEF StopArrives, DeadlineArrives
  <1>14. CASE UNCHANGED approvalVars
    BY <1>14 DEF approvalVars
  <1> QED
    BY <1>1, <1>2, <1>3, <1>4, <1>5, <1>6, <1>7, <1>8, <1>9, <1>10, <1>11,
       <1>12, <1>13, <1>14 DEF ApprovalNext

LEMMA TurnStep ==
  ApprovalInv /\ [ApprovalNext]_approvalVars => TurnInv'
  <1> SUFFICES ASSUME ApprovalInv, [ApprovalNext]_approvalVars
               PROVE  TurnInv'
    OBVIOUS
  <1>0. ApprovalTypeOK /\ TurnInv /\ ChannelInv
    BY DEF ApprovalInv
  <1>a. ASSUME StartTurn, started < MaxTurns, ~typing', turn = 0,
               UNCHANGED <<chan, stopped>>
        PROVE  TurnInv'
    <2>1. /\ started' = started + 1 /\ turn' = started' /\ turnOn'
          /\ at'[started'] = "working"
          /\ \A r \in TurnIds : r # started' => at'[r] = at[r]
      BY <1>0, <1>a, StartTyped
    <2>2. \A r \in TurnIds : /\ at[r] \notin {"working", "waiting", "leaving"}
                             /\ chan[r] = <<>>
      BY <1>0, <1>a DEF TurnInv, TurnIds
    <2>3. \A r \in TurnIds :
             /\ r > started' => at'[r] = "none" /\ chan'[r] = <<>> /\ ~stopped'[r]
             /\ at'[r] \in {"working", "waiting", "leaving"} => turn' = r
             /\ chan'[r] # <<>> => turn' = r
      BY <1>0, <1>a, <2>1, <2>2 DEF TurnInv, ApprovalTypeOK, TurnIds
    <2> QED
      BY <1>a, <2>1, <2>3, <1>0 DEF TurnInv, ApprovalTypeOK
  <1>b. ASSUME DispatchBehind, ~typing', UNCHANGED stopped,
               \/ turn = 0 /\ UNCHANGED chan
               \/ /\ turn # 0 /\ at[turn] = "over"
                  /\ chan' = [chan EXCEPT ![turn] = <<>>]
        PROVE  TurnInv'
    <2>1. \A r \in TurnIds : /\ at[r] \notin {"working", "waiting", "leaving"}
                             /\ chan'[r] = <<>>
      <3>1. CASE turn = 0 /\ UNCHANGED chan
        BY <1>0, <3>1 DEF TurnInv, TurnIds
      <3>2. CASE /\ turn # 0 /\ at[turn] = "over"
                 /\ chan' = [chan EXCEPT ![turn] = <<>>]
        BY <1>0, <3>2 DEF TurnInv, ApprovalTypeOK
      <3> QED
        BY <1>b, <3>1, <3>2
    <2>2. CASE behind = 0
      BY <1>0, <1>b, <2>1, <2>2
      DEF DispatchBehind, TurnInv, ApprovalTypeOK
    <2>3. CASE behind # 0
      <3>1. StartTurn /\ started < MaxTurns
        BY <1>0, <1>b, <2>3, ApprovalAssumption
        DEF DispatchBehind, ApprovalTypeOK
      <3>2. /\ started' = started + 1 /\ turn' = started' /\ turnOn'
            /\ at'[started'] = "working"
            /\ \A r \in TurnIds : r # started' => at'[r] = at[r]
        BY <1>0, <3>1, StartTyped
      <3>3. \A r \in TurnIds :
             /\ r > started' => at'[r] = "none" /\ chan'[r] = <<>> /\ ~stopped'[r]
             /\ at'[r] \in {"working", "waiting", "leaving"} => turn' = r
             /\ chan'[r] # <<>> => turn' = r
        BY <1>0, <1>b, <2>1, <3>2 DEF TurnInv, ApprovalTypeOK, TurnIds
      <3> QED
        BY <1>0, <1>b, <3>2, <3>3 DEF TurnInv, ApprovalTypeOK
    <2> QED
      BY <2>2, <2>3
  <1>1. CASE SubmitPrompt
    <2>1. CASE turnOn \/ behind > 0
      BY <1>0, <1>1, <2>1 DEF SubmitPrompt, TurnInv
    <2>2. CASE ~(turnOn \/ behind > 0)
      <3>1. turn = 0
        BY <1>0, <1>1, <2>2 DEF SubmitPrompt, NothingLingers, TurnInv
      <3>2. /\ StartTurn /\ started < MaxTurns /\ ~typing'
            /\ UNCHANGED <<chan, stopped>>
        BY <1>0, <1>1, <2>2, ApprovalAssumption DEF SubmitPrompt, ApprovalTypeOK
      <3> QED
        BY <1>a, <3>1, <3>2
    <2> QED
      BY <2>1, <2>2
  <1>2. CASE HandleRequest
    BY <1>0, <1>2, ShortChannels
    DEF HandleRequest, TurnInv, ApprovalTypeOK, ChannelInv, TurnIds
  <1>3. CASE HandleOver
    <2>1. turn \in TurnIds /\ turn # 0 /\ chan[turn] # <<>> /\ Head(chan[turn]) = Over
      BY <1>0, <1>3, ApprovalAssumption
      DEF HandleOver, TurnInv, TurnIds, ApprovalTypeOK
    <2>2. chan[turn] = <<Over>> /\ at[turn] = "over"
      BY <1>0, <2>1, ShortChannels, RequestFacts DEF ChannelInv
    <2>3. chan' = [chan EXCEPT ![turn] = <<>>] /\ UNCHANGED stopped
      BY <1>3, <2>2, ShortChannels DEF HandleOver
    <2>4. CASE ~typing' /\ DispatchBehind
      BY <1>b, <2>1, <2>2, <2>3, <2>4
    <2>5. CASE typing' = TRUE /\ turnOn' = FALSE /\ turn' = 0
               /\ UNCHANGED <<behind, at, started>>
      BY <1>0, <2>1, <2>2, <2>3, <2>5 DEF TurnInv, ApprovalTypeOK, TurnIds
    <2> QED
      BY <1>3, <2>4, <2>5 DEF HandleOver
  <1>4. CASE TypingEnds
    BY <1>0, <1>4, <1>b DEF TypingEnds, TurnInv
  <1>5. CASE Review
    BY <1>0, <1>5 DEF Review, turnVars, TurnInv
  <1>6. CASE Stop
    <2>1. CASE turn = 0
      BY <1>0, <1>6, <2>1 DEF Stop, TurnInv
    <2>2. CASE turn # 0
      <3>1. stopped' = [stopped EXCEPT ![turn] = TRUE] /\ turn \in TurnIds
        BY <1>0, <1>6, <2>2, ApprovalAssumption
        DEF Stop, TurnInv, ApprovalTypeOK, TurnIds
      <3>2. stopped'[turn]
        BY <1>0, <3>1 DEF ApprovalTypeOK
      <3>3. \A r \in TurnIds : r > started => ~stopped'[r]
        BY <1>0, <3>1 DEF TurnInv, ApprovalTypeOK, TurnIds
      <3> QED
        BY <1>0, <1>6, <2>2, <3>2, <3>3 DEF Stop, TurnInv
    <2> QED
      BY <2>1, <2>2
  <1>7. CASE OpenOverlay \/ PickerArrives \/ CloseOverlay
    <2>1. typing' => typing
      BY <1>7, Zenon DEF OpenOverlay, PickerArrives, CloseOverlay
    <2>2. UNCHANGED <<turn, started, at, chan, stopped, turnOn>>
      BY <1>7 DEF OpenOverlay, PickerArrives, CloseOverlay, turnVars
    <2> QED
      BY <1>0, <2>1, <2>2 DEF TurnInv
  <1>8. CASE \E yes \in BOOLEAN : Judge(yes)
    BY <1>0, <1>8 DEF Judge, turnVars, TurnInv
  <1>9. CASE \E yes \in BOOLEAN : AnswerRequest(yes)
    BY <1>0, <1>9 DEF AnswerRequest, TurnInv
  <1>10. ASSUME NEW r \in TurnIds, AskApproval(r)
         PROVE  TurnInv'
    BY <1>0, <1>10 DEF AskApproval, modelVarsA, TurnInv, ApprovalTypeOK, TurnIds
  <1>11. ASSUME NEW r \in TurnIds, TakeAnswer(r)
         PROVE  TurnInv'
    BY <1>0, <1>11 DEF TakeAnswer, modelVarsA, TurnInv, ApprovalTypeOK, TurnIds
  <1>12. ASSUME NEW r \in TurnIds, GiveUp(r)
         PROVE  TurnInv'
    BY <1>0, <1>12 DEF GiveUp, modelVarsA, TurnInv, ApprovalTypeOK, TurnIds
  <1>13. ASSUME NEW r \in TurnIds, Leave(r)
         PROVE  TurnInv'
    BY <1>0, <1>13 DEF Leave, modelVarsA, TurnInv, ApprovalTypeOK, TurnIds
  <1>14. ASSUME NEW r \in TurnIds, StopArrives(r) \/ DeadlineArrives(r)
         PROVE  TurnInv'
    BY <1>0, <1>14 DEF StopArrives, DeadlineArrives, modelVarsA, TurnInv
  <1>15. CASE UNCHANGED approvalVars
    BY <1>0, <1>15 DEF approvalVars, modelVarsA, turnVars, TurnInv
  <1> QED
    BY <1>1, <1>2, <1>3, <1>4, <1>5, <1>6, <1>7, <1>8, <1>9, <1>10, <1>11,
       <1>12, <1>13, <1>14, <1>15 DEF ApprovalNext

\* A step of one turn leaves the channels and requests of the others alone.
LEMMA OthersKept ==
  ASSUME ApprovalTypeOK, ChannelInv, NEW r \in TurnIds,
         \A s \in TurnIds : s # r =>
            /\ chan'[s] = chan[s] /\ at'[s] = at[s] /\ asks'[s] = asks[s]
            /\ asks[s] >= 1 => reply'[Request(s)] = reply[Request(s)],
         shown' = shown,
         NEW s \in TurnIds, s # r
  PROVE  \/ chan'[s] = <<>>
         \/ chan'[s] = <<Over>> /\ at'[s] = "over"
         \/ chan'[s] = <<Request(s)>>' /\ at'[s] \in {"waiting", "leaving"} /\ OnTheWay(s)'
         \/ chan'[s] = <<Request(s), Over>>' /\ at'[s] = "over" /\ OnTheWay(s)'
  <1>1. Request(s)' = Request(s)
    BY DEF Request
  <1> QED
    BY <1>1 DEF ChannelInv, OnTheWay

LEMMA ChannelStep ==
  ApprovalInv /\ [ApprovalNext]_approvalVars => ChannelInv'
  <1> SUFFICES ASSUME ApprovalInv, [ApprovalNext]_approvalVars
               PROVE  ChannelInv'
    OBVIOUS
  <1>0. ApprovalTypeOK /\ TurnInv /\ ChannelInv /\ ShownInv /\ ReplyInv
    BY DEF ApprovalInv
  <1>a. ASSUME \/ UNCHANGED at
               \/ started < MaxTurns /\ StartTurn,
               UNCHANGED <<asks, reply>>,
               shown' \in {shown, Nothing},
               \/ UNCHANGED chan
               \/ /\ turn \in TurnIds
                  /\ chan' = [chan EXCEPT ![turn] = <<>>]
        PROVE  ChannelInv'
    <2> SUFFICES ASSUME NEW r \in TurnIds, chan'[r] # <<>>
                 PROVE  \/ chan'[r] = <<Over>> /\ at'[r] = "over"
                        \/ /\ chan'[r] = <<Request(r)>>' /\ OnTheWay(r)'
                           /\ at'[r] \in {"waiting", "leaving"}
                        \/ /\ chan'[r] = <<Request(r), Over>>' /\ OnTheWay(r)'
                           /\ at'[r] = "over"
      BY DEF ChannelInv
    <2>1. chan'[r] = chan[r]
      BY <1>0, <1>a DEF ApprovalTypeOK
    <2>2. at'[r] = at[r]
      <3>1. r <= started
        BY <1>0, <2>1 DEF TurnInv, TurnIds, ApprovalTypeOK
      <3>2. CASE started < MaxTurns /\ StartTurn
        BY <1>0, <3>1, <3>2, StartTyped DEF ApprovalTypeOK, TurnIds
      <3> QED
        BY <1>a, <3>2
    <2>3. Request(r)' = Request(r)
      BY <1>a DEF Request
    <2>4. OnTheWay(r) => OnTheWay(r)'
      BY <1>0, <1>a, <2>3, RequestFacts DEF OnTheWay
    <2> QED
      BY <1>0, <2>1, <2>2, <2>3, <2>4 DEF ChannelInv
  <1>b. ASSUME DispatchBehind
        PROVE  UNCHANGED at \/ (started < MaxTurns /\ StartTurn)
    BY <1>0, <1>b, ApprovalAssumption DEF DispatchBehind, ApprovalTypeOK
  <1>1. CASE SubmitPrompt
    <2>1. UNCHANGED at \/ (started < MaxTurns /\ StartTurn)
      BY <1>0, <1>1, ApprovalAssumption DEF SubmitPrompt, ApprovalTypeOK
    <2> QED
      BY <1>1, <1>a, <2>1 DEF SubmitPrompt
  <1>2. CASE HandleRequest
    <2>1. turn \in TurnIds /\ chan[turn] # <<>> /\ Head(chan[turn]) # Over
      BY <1>0, <1>2, ApprovalAssumption
      DEF HandleRequest, TurnInv, TurnIds, ApprovalTypeOK
    <2>2. \/ chan[turn] = <<Request(turn)>>
          \/ chan[turn] = <<Request(turn), Over>> /\ at[turn] = "over"
      BY <1>0, <2>1, ShortChannels DEF ChannelInv
    <2>3. \/ chan'[turn] = <<>>
          \/ chan'[turn] = <<Over>> /\ at'[turn] = "over"
      <3>1. chan'[turn] = Tail(chan[turn]) /\ at'[turn] = at[turn]
        BY <1>0, <1>2, <2>1 DEF HandleRequest, ApprovalTypeOK
      <3>2. Tail(chan[turn]) = <<>> \/ (Tail(chan[turn]) = <<Over>> /\ at[turn] = "over")
        BY <2>2, ShortChannels, Zenon
      <3> QED
        BY <3>1, <3>2
    <2>4. \A r \in TurnIds : r # turn => chan'[r] = <<>>
      BY <1>0, <1>2 DEF HandleRequest, TurnInv, ApprovalTypeOK
    <2> QED
      BY <2>3, <2>4 DEF ChannelInv
  <1>3. CASE HandleOver
    <2>1. turn \in TurnIds /\ chan[turn] # <<>> /\ Head(chan[turn]) = Over
      BY <1>0, <1>3, ApprovalAssumption
      DEF HandleOver, TurnInv, TurnIds, ApprovalTypeOK
    <2>2. chan[turn] = <<Over>>
      BY <1>0, <2>1, ShortChannels, RequestFacts DEF ChannelInv
    <2>3. chan' = [chan EXCEPT ![turn] = <<>>] /\ UNCHANGED <<shown, asks, reply>>
      BY <1>3, <2>2, ShortChannels DEF HandleOver
    <2>4. UNCHANGED at \/ (started < MaxTurns /\ StartTurn)
      BY <1>3, <1>b DEF HandleOver
    <2> QED
      BY <1>a, <2>1, <2>3, <2>4
  <1>4. CASE TypingEnds
    BY <1>4, <1>a, <1>b DEF TypingEnds
  <1>5. CASE Review \/ Stop
    BY <1>5, <1>a DEF Review, Stop, turnVars
  <1>6. CASE OpenOverlay \/ PickerArrives \/ CloseOverlay
    BY <1>6, <1>a DEF OpenOverlay, PickerArrives, CloseOverlay, turnVars
  <1>7. CASE \E yes \in BOOLEAN : Judge(yes)
    BY <1>7, <1>a DEF Judge, turnVars
  <1>8. ASSUME NEW yes \in BOOLEAN, AnswerRequest(yes)
        PROVE  ChannelInv'
    <2>1. \A r \in TurnIds : OnTheWay(r) => OnTheWay(r)'
      <3> SUFFICES ASSUME NEW r \in TurnIds, OnTheWay(r)
                   PROVE  OnTheWay(r)'
        OBVIOUS
      <3>1. Request(r)' = Request(r) /\ Request(r) \in Requests
        BY <1>0, <1>8, RequestFacts DEF AnswerRequest, Request, OnTheWay
      <3>2. reply'[Request(r)] = reply[Request(r)]
        BY <1>0, <1>8, <3>1 DEF AnswerRequest, ReplyTo, OnTheWay, ApprovalTypeOK
      <3> QED
        BY <1>8, <3>1, <3>2, RequestFacts DEF AnswerRequest, OnTheWay
    <2>2. \A r \in TurnIds : Request(r)' = Request(r)
      BY <1>8 DEF AnswerRequest, Request
    <2> QED
      BY <1>0, <1>8, <2>1, <2>2 DEF AnswerRequest, ChannelInv
  <1>9. ASSUME NEW r \in TurnIds, AskApproval(r)
        PROVE  ChannelInv'
    <2>1. chan[r] = <<>> /\ asks'[r] = asks[r] + 1 /\ at'[r] = "waiting"
      BY <1>0, <1>9 DEF AskApproval, ChannelInv, ApprovalTypeOK
    <2>2. Request(r)' = <<r, asks[r] + 1>>
      BY <2>1 DEF Request
    <2>3. chan'[r] = <<>> \/ chan'[r] = <<Request(r)>>'
      BY <1>0, <1>9, <2>1, <2>2, ShortChannels DEF AskApproval, ApprovalTypeOK
    <2>4. OnTheWay(r)'
      <3>1. reply[<<r, asks[r] + 1>>] = "empty"
        BY <1>0, <1>9, ApprovalAssumption DEF ReplyInv, AskApproval, ApprovalTypeOK
      <3>2. shown # <<r, asks[r] + 1>>
        BY <1>0, <1>9 DEF ShownInv, AskApproval, Request, Nothing, ApprovalTypeOK
      <3> QED
        BY <1>0, <1>9, <2>1, <2>2, <3>1, <3>2
        DEF OnTheWay, AskApproval, modelVarsA, ApprovalTypeOK
    <2>5. \A s \in TurnIds : s # r =>
            /\ chan'[s] = chan[s] /\ at'[s] = at[s] /\ asks'[s] = asks[s]
            /\ reply'[Request(s)] = reply[Request(s)]
      BY <1>0, <1>9 DEF AskApproval, ApprovalTypeOK
    <2>6. shown' = shown
      BY <1>9 DEF AskApproval, modelVarsA
    <2> QED
      BY <1>0, <2>1, <2>3, <2>4, <2>5, <2>6, OthersKept DEF ChannelInv
  <1>10. ASSUME NEW r \in TurnIds, TakeAnswer(r)
         PROVE  ChannelInv'
    <2>1. reply[Request(r)] # "empty" /\ at[r] = "waiting" /\ asks[r] >= 1
      BY <1>0, <1>10 DEF TakeAnswer, ReplyTo, ReplyInv
    <2>2. chan[r] = <<>> /\ chan' = chan
      BY <1>0, <1>10, <2>1 DEF ChannelInv, OnTheWay, TakeAnswer
    <2>3. \A s \in TurnIds : s # r =>
            /\ chan'[s] = chan[s] /\ at'[s] = at[s] /\ asks'[s] = asks[s]
            /\ asks[s] >= 1 => reply'[Request(s)] = reply[Request(s)]
      BY <1>0, <1>10, <2>1, <2>2, RequestFacts DEF TakeAnswer, ReplyTo, ApprovalTypeOK
    <2>4. shown' = shown
      BY <1>10 DEF TakeAnswer, modelVarsA
    <2> QED
      BY <1>0, <2>2, <2>3, <2>4, OthersKept DEF ChannelInv
  <1>11. ASSUME NEW r \in TurnIds, GiveUp(r)
         PROVE  ChannelInv'
    <2>1. \A s \in TurnIds : Request(s)' = Request(s) /\ (OnTheWay(s) => OnTheWay(s)')
      BY <1>11 DEF GiveUp, OnTheWay, Request, modelVarsA
    <2>2. \A s \in TurnIds : s # r => at'[s] = at[s]
      BY <1>0, <1>11 DEF GiveUp, ApprovalTypeOK
    <2>3. at[r] = "waiting" /\ at'[r] = "leaving" /\ chan' = chan
      BY <1>0, <1>11 DEF GiveUp, ApprovalTypeOK
    <2> QED
      BY <1>0, <2>1, <2>2, <2>3 DEF ChannelInv
  <1>12. ASSUME NEW r \in TurnIds, Leave(r)
         PROVE  ChannelInv'
    <2>1. \A s \in TurnIds : Request(s)' = Request(s) /\ (OnTheWay(s) => OnTheWay(s)')
      BY <1>12 DEF Leave, OnTheWay, Request, modelVarsA
    <2>2. \A s \in TurnIds : s # r => at'[s] = at[s] /\ chan'[s] = chan[s]
      BY <1>0, <1>12 DEF Leave, ApprovalTypeOK
    <2>3. at[r] # "over" /\ at'[r] = "over" /\ chan'[r] = Append(chan[r], Over)
      BY <1>0, <1>12 DEF Leave, ApprovalTypeOK
    <2>4. chan[r] = <<>> \/ (chan[r] = <<Request(r)>> /\ OnTheWay(r))
      BY <1>0, <2>3 DEF ChannelInv
    <2>5. chan'[r] = <<Over>> \/ (chan'[r] = <<Request(r), Over>> /\ OnTheWay(r))
      BY <2>3, <2>4, ShortChannels
    <2> QED
      BY <1>0, <2>1, <2>2, <2>3, <2>5 DEF ChannelInv
  <1>13. ASSUME NEW r \in TurnIds, StopArrives(r) \/ DeadlineArrives(r)
         PROVE  ChannelInv'
    BY <1>13, <1>a DEF StopArrives, DeadlineArrives, modelVarsA
  <1>14. CASE UNCHANGED approvalVars
    BY <1>14, <1>a DEF approvalVars, modelVarsA, turnVars
  <1> QED
    BY <1>1, <1>2, <1>3, <1>4, <1>5, <1>6, <1>7, <1>8, <1>9, <1>10, <1>11,
       <1>12, <1>13, <1>14 DEF ApprovalNext

\* What keeps the question of a turn up.
LEMMA ShownKept ==
  ASSUME ApprovalTypeOK, ShownInv,
         shown' = shown, asks' = asks, reply' = reply, started' = started,
         \A r \in TurnIds : at'[r] = "working" => at[r] = "working"
  PROVE  ShownInv'
  BY DEF ShownInv, Request

LEMMA ShownStarted ==
  ASSUME ApprovalTypeOK, ShownInv, StartTurn, started < MaxTurns,
         shown' = shown, asks' = asks, reply' = reply
  PROVE  ShownInv'
  <1> SUFFICES ASSUME shown # Nothing
               PROVE  \E r \in TurnIds :
                        /\ shown' = Request(r)' /\ asks'[r] >= 1
                        /\ at'[r] # "working" /\ r <= started'
                        /\ reply'[shown'] = "empty"
    BY DEF ShownInv
  <1>1. PICK r \in TurnIds : /\ shown = Request(r) /\ asks[r] >= 1
                             /\ at[r] # "working" /\ r <= started
                             /\ reply[shown] = "empty"
    BY DEF ShownInv
  <1>2. r # started' /\ at'[r] = at[r] /\ r <= started'
    BY <1>1, StartTyped DEF ApprovalTypeOK, TurnIds
  <1>3. shown' = Request(r)'
    BY <1>1 DEF Request
  <1> QED
    BY <1>1, <1>2, <1>3

LEMMA ShownStep ==
  ApprovalInv /\ [ApprovalNext]_approvalVars => ShownInv'
  <1> SUFFICES ASSUME ApprovalInv, [ApprovalNext]_approvalVars
               PROVE  ShownInv'
    OBVIOUS
  <1>0. ApprovalTypeOK /\ TurnInv /\ ChannelInv /\ ShownInv /\ ReplyInv
    BY DEF ApprovalInv
  <1>a. ASSUME DispatchBehind, UNCHANGED <<shown, asks, reply>>
        PROVE  ShownInv'
    <2>1. CASE behind = 0
      BY <1>0, <1>a, <2>1, ShownKept DEF DispatchBehind
    <2>2. CASE behind # 0
      <3>1. StartTurn /\ started < MaxTurns
        BY <1>0, <1>a, <2>2, ApprovalAssumption DEF DispatchBehind, ApprovalTypeOK
      <3> QED
        BY <1>0, <1>a, <3>1, ShownStarted
    <2> QED
      BY <2>1, <2>2
  <1>1. CASE SubmitPrompt
    <2>1. CASE turnOn \/ behind > 0
      BY <1>0, <1>1, <2>1, ShownKept DEF SubmitPrompt
    <2>2. CASE ~(turnOn \/ behind > 0)
      <3>1. StartTurn /\ started < MaxTurns
        BY <1>0, <1>1, <2>2, ApprovalAssumption DEF SubmitPrompt, ApprovalTypeOK
      <3> QED
        BY <1>0, <1>1, <3>1, ShownStarted DEF SubmitPrompt
    <2> QED
      BY <2>1, <2>2
  <1>2. CASE HandleRequest
    <2>1. turn \in TurnIds /\ chan[turn] # <<>> /\ Head(chan[turn]) # Over
      BY <1>0, <1>2, ApprovalAssumption
      DEF HandleRequest, TurnInv, TurnIds, ApprovalTypeOK
    <2>2. Head(chan[turn]) = Request(turn) /\ OnTheWay(turn) /\ at[turn] # "working"
      BY <1>0, <2>1, ShortChannels DEF ChannelInv
    <2>3. shown' = Request(turn)' /\ asks' = asks /\ reply' = reply /\ at' = at
          /\ started' = started /\ turn' = turn
      BY <1>2, <2>2 DEF HandleRequest, Request
    <2>4. Request(turn)' = Request(turn)
      BY <2>3 DEF Request
    <2>5. turn <= started
      BY <1>0 DEF TurnInv
    <2>6. /\ turn \in TurnIds /\ shown' = Request(turn)' /\ asks'[turn] >= 1
          /\ at'[turn] # "working" /\ turn <= started' /\ reply'[shown'] = "empty"
      BY <2>1, <2>2, <2>3, <2>4, <2>5 DEF OnTheWay
    <2> DEFINE r == turn
    <2>7. Request(r)' = <<turn', asks'[turn']>>
      BY DEF Request
    <2> QED
      BY <2>3, <2>6, <2>7 DEF ShownInv, Request
  <1>3. CASE HandleOver
    <2>1. UNCHANGED <<shown, asks, reply>>
      BY <1>3 DEF HandleOver
    <2>2. CASE DispatchBehind
      BY <1>a, <2>1, <2>2
    <2>3. CASE UNCHANGED <<behind, at, started>>
      BY <1>0, <2>1, <2>3, ShownKept
    <2> QED
      BY <1>3, <2>2, <2>3 DEF HandleOver
  <1>4. CASE TypingEnds
    BY <1>4, <1>a DEF TypingEnds
  <1>5. CASE Review
    BY <1>0, <1>5, ShownKept DEF Review, turnVars
  <1>6. CASE Stop
    BY <1>6 DEF Stop, ShownInv
  <1>7. CASE OpenOverlay \/ PickerArrives \/ CloseOverlay
    BY <1>0, <1>7, ShownKept DEF OpenOverlay, PickerArrives, CloseOverlay, turnVars
  <1>8. CASE \E yes \in BOOLEAN : Judge(yes)
    BY <1>0, <1>8, ShownKept DEF Judge, turnVars
  <1>9. CASE \E yes \in BOOLEAN : AnswerRequest(yes)
    BY <1>9 DEF AnswerRequest, ShownInv
  <1>10. ASSUME NEW r \in TurnIds, AskApproval(r)
         PROVE  ShownInv'
    <2>1. at[r] = "working" /\ UNCHANGED <<shown, started, reply>>
      BY <1>10 DEF AskApproval, modelVarsA
    <2>2. \A s \in TurnIds : at[s] # "working" =>
            /\ at'[s] = at[s] /\ asks'[s] = asks[s] /\ Request(s)' = Request(s)
      BY <1>0, <1>10, <2>1 DEF AskApproval, ApprovalTypeOK, Request
    <2> QED
      BY <1>0, <2>1, <2>2 DEF ShownInv
  <1>11. ASSUME NEW r \in TurnIds, TakeAnswer(r)
         PROVE  ShownInv'
    <2>1. shown # Request(r) \/ shown = Nothing
      BY <1>0, <1>11, RequestFacts DEF TakeAnswer, ReplyTo, ShownInv
    <2>2. UNCHANGED <<shown, started, asks>>
      BY <1>11 DEF TakeAnswer, modelVarsA
    <2>3. \A s \in TurnIds : s # r => at'[s] = at[s]
      BY <1>0, <1>11 DEF TakeAnswer, ApprovalTypeOK
    <2>4. \A q \in Requests : reply[q] = "empty" => reply'[q] = "empty"
      BY <1>0, <1>11 DEF TakeAnswer, ApprovalTypeOK
    <2>5. \A s \in TurnIds : Request(s)' = Request(s)
      BY <2>2 DEF Request
    <2>6. shown \in Requests \/ shown = Nothing
      BY <1>0 DEF ApprovalTypeOK
    <2> QED
      BY <1>0, <2>1, <2>2, <2>3, <2>4, <2>5, <2>6 DEF ShownInv
  <1>12. ASSUME NEW r \in TurnIds, GiveUp(r) \/ Leave(r)
         PROVE  ShownInv'
    <2>1. UNCHANGED <<shown, started, asks, reply>>
      BY <1>12 DEF GiveUp, Leave, modelVarsA
    <2>2. \A s \in TurnIds : at'[s] = "working" => at[s] = "working"
      BY <1>0, <1>12 DEF GiveUp, Leave, ApprovalTypeOK
    <2> QED
      BY <1>0, <2>1, <2>2, ShownKept
  <1>13. ASSUME NEW r \in TurnIds, StopArrives(r) \/ DeadlineArrives(r)
         PROVE  ShownInv'
    BY <1>0, <1>13, ShownKept DEF StopArrives, DeadlineArrives, modelVarsA
  <1>14. CASE UNCHANGED approvalVars
    BY <1>0, <1>14, ShownKept DEF approvalVars, modelVarsA, turnVars
  <1> QED
    BY <1>1, <1>2, <1>3, <1>4, <1>5, <1>6, <1>7, <1>8, <1>9, <1>10, <1>11,
       <1>12, <1>13, <1>14 DEF ApprovalNext

\* What keeps a yes with the question it answered.
LEMMA ReplyKept ==
  ASSUME ReplyInv, asks' = asks, reply' = reply, agreed' = agreed,
         \A r \in TurnIds : at'[r] = "waiting" => at[r] = "waiting"
  PROVE  ReplyInv'
  BY DEF ReplyInv

LEMMA ReplyStep ==
  ApprovalInv /\ [ApprovalNext]_approvalVars => ReplyInv'
  <1> SUFFICES ASSUME ApprovalInv, [ApprovalNext]_approvalVars
               PROVE  ReplyInv'
    OBVIOUS
  <1>0. ApprovalTypeOK /\ TurnInv /\ ChannelInv /\ ShownInv /\ ReplyInv
    BY DEF ApprovalInv
  <1>a. ASSUME UNCHANGED at \/ (started < MaxTurns /\ StartTurn),
               UNCHANGED <<asks, reply, agreed>>
        PROVE  ReplyInv'
    <2>1. CASE UNCHANGED at
      BY <1>0, <1>a, <2>1, ReplyKept
    <2>2. CASE started < MaxTurns /\ StartTurn
      <3>1. \A r \in TurnIds : at'[r] = "waiting" => at[r] = "waiting"
        BY <1>0, <2>2, StartTyped
      <3> QED
        BY <1>0, <1>a, <3>1, ReplyKept
    <2> QED
      BY <1>a, <2>1, <2>2
  <1>b. ASSUME DispatchBehind
        PROVE  UNCHANGED at \/ (started < MaxTurns /\ StartTurn)
    BY <1>0, <1>b, ApprovalAssumption DEF DispatchBehind, ApprovalTypeOK
  <1>1. CASE SubmitPrompt
    <2>1. UNCHANGED at \/ (started < MaxTurns /\ StartTurn)
      BY <1>0, <1>1, ApprovalAssumption DEF SubmitPrompt, ApprovalTypeOK
    <2> QED
      BY <1>1, <1>a, <2>1 DEF SubmitPrompt, witnessVars
  <1>2. CASE HandleRequest
    BY <1>2, <1>a DEF HandleRequest, witnessVars
  <1>3. CASE HandleOver
    <2>1. UNCHANGED at \/ (started < MaxTurns /\ StartTurn)
      BY <1>3, <1>b DEF HandleOver
    <2> QED
      BY <1>3, <1>a, <2>1 DEF HandleOver, witnessVars
  <1>4. CASE TypingEnds
    BY <1>4, <1>a, <1>b DEF TypingEnds, witnessVars
  <1>5. CASE Review \/ Stop
    BY <1>5, <1>a DEF Review, Stop, turnVars, witnessVars
  <1>6. CASE OpenOverlay \/ PickerArrives \/ CloseOverlay
    BY <1>6, <1>a DEF OpenOverlay, PickerArrives, CloseOverlay, turnVars, witnessVars
  <1>7. CASE \E yes \in BOOLEAN : Judge(yes)
    BY <1>7, <1>a DEF Judge, turnVars, witnessVars
  <1>8. ASSUME NEW yes \in BOOLEAN, AnswerRequest(yes)
        PROVE  ReplyInv'
    <2>1. PICK r \in TurnIds : shown = Request(r) /\ asks[r] >= 1
      BY <1>0, <1>8 DEF AnswerRequest, ShownInv
    <2>2. shown \in Requests /\ shown = <<r, asks[r]>>
      BY <1>0, <2>1, RequestFacts DEF Request
    <2>3. /\ \A q \in Requests : q # shown => reply'[q] = reply[q]
          /\ reply'[shown] = "yes" => shown \in agreed'
          /\ agreed \subseteq agreed'
      BY <1>0, <1>8, <2>2 DEF AnswerRequest, ReplyTo, ApprovalTypeOK
    <2>4. \A s \in TurnIds, n \in 1..MaxAsks :
            n > asks[s] => reply'[<<s, n>>] = "empty"
      BY <1>0, <2>2, <2>3 DEF ReplyInv, Requests, ApprovalTypeOK
    <2>5. \A q \in Requests : reply'[q] = "yes" => q \in agreed'
      BY <1>0, <2>3 DEF ReplyInv
    <2>6. UNCHANGED <<at, asks>>
      BY <1>8 DEF AnswerRequest
    <2> QED
      BY <1>0, <2>4, <2>5, <2>6 DEF ReplyInv
  <1>9. ASSUME NEW r \in TurnIds, AskApproval(r)
        PROVE  ReplyInv'
    <2>1. UNCHANGED <<reply, agreed>>
      BY <1>9 DEF AskApproval, witnessVars
    <2>2. \A s \in TurnIds : /\ asks'[s] >= asks[s] /\ asks'[s] \in 0..MaxAsks
                             /\ at'[s] = "waiting" => at[s] = "waiting" \/ asks'[s] >= 1
      BY <1>0, <1>9, ApprovalAssumption DEF AskApproval, ApprovalTypeOK
    <2>3. \A s \in TurnIds : asks[s] \in 0..MaxAsks
      BY <1>0 DEF ApprovalTypeOK
    <2>4. \A s \in TurnIds, n \in 1..MaxAsks :
            n > asks'[s] => reply'[<<s, n>>] = "empty"
      BY <1>0, <2>1, <2>2, <2>3, ApprovalAssumption DEF ReplyInv
    <2>5. \A q \in Requests : reply'[q] = "yes" => q \in agreed'
      BY <1>0, <2>1 DEF ReplyInv
    <2>6. \A s \in TurnIds : at'[s] = "waiting" => asks'[s] >= 1
      BY <1>0, <2>2, <2>3, ApprovalAssumption DEF ReplyInv
    <2> QED
      BY <2>4, <2>5, <2>6 DEF ReplyInv
  <1>10. ASSUME NEW r \in TurnIds, TakeAnswer(r)
         PROVE  ReplyInv'
    <2>1. UNCHANGED <<asks, agreed>>
      BY <1>10 DEF TakeAnswer
    <2>2. \A s \in TurnIds : at'[s] = "waiting" => at[s] = "waiting"
      BY <1>0, <1>10 DEF TakeAnswer, ApprovalTypeOK
    <2>3. \A q \in Requests : reply'[q] = reply[q] \/ reply'[q] = "empty"
      BY <1>0, <1>10 DEF TakeAnswer, ApprovalTypeOK
    <2> QED
      BY <1>0, <2>1, <2>2, <2>3 DEF ReplyInv, Requests
  <1>11. ASSUME NEW r \in TurnIds, GiveUp(r) \/ Leave(r)
         PROVE  ReplyInv'
    <2>1. UNCHANGED <<asks, reply, agreed>>
      BY <1>11 DEF GiveUp, Leave, witnessVars
    <2>2. \A s \in TurnIds : at'[s] = "waiting" => at[s] = "waiting"
      BY <1>0, <1>11 DEF GiveUp, Leave, ApprovalTypeOK
    <2> QED
      BY <1>0, <2>1, <2>2, ReplyKept
  <1>12. ASSUME NEW r \in TurnIds, StopArrives(r) \/ DeadlineArrives(r)
         PROVE  ReplyInv'
    BY <1>12, <1>a DEF StopArrives, DeadlineArrives, witnessVars
  <1>13. CASE UNCHANGED approvalVars
    BY <1>13, <1>a DEF approvalVars, turnVars, witnessVars
  <1> QED
    BY <1>1, <1>2, <1>3, <1>4, <1>5, <1>6, <1>7, <1>8, <1>9, <1>10, <1>11,
       <1>12, <1>13 DEF ApprovalNext

\* Only TakeAnswer lets a call through, on a yes that was given to it.
LEMMA ConsentStep ==
  ApprovalInv /\ [ApprovalNext]_approvalVars => ConsentIsHers'
  <1> SUFFICES ASSUME ApprovalInv, [ApprovalNext]_approvalVars
               PROVE  ConsentIsHers'
    OBVIOUS
  <1>0. ApprovalTypeOK /\ ReplyInv /\ ConsentIsHers
    BY DEF ApprovalInv
  <1>1. ASSUME NEW r \in TurnIds, TakeAnswer(r)
        PROVE  ConsentIsHers'
    <2>1. agreed' = agreed /\ at[r] = "waiting"
      BY <1>1 DEF TakeAnswer
    <2>2. CASE reply[Request(r)] = "yes"
      <3>1. Request(r) \in agreed
        BY <1>0, <2>1, <2>2, RequestFacts DEF ReplyInv
      <3> QED
        BY <1>0, <1>1, <2>1, <2>2, <3>1 DEF TakeAnswer, ReplyTo, ConsentIsHers
    <2>3. CASE reply[Request(r)] # "yes"
      BY <1>0, <1>1, <2>1, <2>3 DEF TakeAnswer, ReplyTo, ConsentIsHers
    <2> QED
      BY <2>2, <2>3
  <1>2. ASSUME NEW yes \in BOOLEAN, Judge(yes) \/ AnswerRequest(yes)
        PROVE  ConsentIsHers'
    <2>1. ran' = ran /\ agreed \subseteq agreed'
      BY <1>2 DEF Judge, AnswerRequest, witnessVars
    <2> QED
      BY <1>0, <2>1 DEF ConsentIsHers
  <1>3. ASSUME UNCHANGED witnessVars
        PROVE  ConsentIsHers'
    BY <1>0, <1>3 DEF witnessVars, ConsentIsHers
  <1>4. CASE \/ SubmitPrompt \/ HandleRequest \/ HandleOver \/ TypingEnds
             \/ Review \/ Stop \/ OpenOverlay \/ PickerArrives \/ CloseOverlay
    BY <1>4, <1>3, Zenon
    DEF SubmitPrompt, HandleRequest, HandleOver, TypingEnds, Review, Stop,
        OpenOverlay, PickerArrives, CloseOverlay, witnessVars
  <1>5. ASSUME NEW r \in TurnIds,
               \/ AskApproval(r) \/ GiveUp(r) \/ StopArrives(r)
               \/ DeadlineArrives(r) \/ Leave(r)
        PROVE  ConsentIsHers'
    BY <1>5, <1>3 DEF AskApproval, GiveUp, StopArrives, DeadlineArrives, Leave
  <1>6. CASE UNCHANGED approvalVars
    BY <1>6, <1>3 DEF approvalVars
  <1> QED
    BY <1>1, <1>2, <1>4, <1>5, <1>6 DEF ApprovalNext

\* A waiting turn whose channel, request and answer are kept is still waited on.
LEMMA UpKept ==
  ASSUME QuestionsUp, TurnInv',
         UNCHANGED <<shown, asks, chan, reply>>,
         \A r \in TurnIds : /\ at'[r] = "waiting" => at[r] = "waiting"
                            /\ ~stopped'[r] => ~stopped[r]
  PROVE  QuestionsUp'
  <1> SUFFICES ASSUME NEW r \in TurnIds, at'[r] = "waiting", ~stopped'[r],
                      reply'[ReplyTo(Request(r))'] = "empty"
               PROVE  /\ turn' = r /\ turnOn'
                      /\ \/ shown' = Request(r)'
                         \/ chan'[r] # <<>> /\ Head(chan'[r]) = Request(r)'
    BY DEF QuestionsUp
  <1>1. turn' = r /\ turnOn'
    BY DEF TurnInv, TurnIds
  <1>2. Request(r)' = Request(r) /\ ReplyTo(Request(r))' = ReplyTo(Request(r))
    BY DEF Request, ReplyTo
  <1> QED
    BY <1>1, <1>2 DEF QuestionsUp

LEMMA QuestionStep ==
  ApprovalInv /\ [ApprovalNext]_approvalVars => QuestionsUp'
  <1> SUFFICES ASSUME ApprovalInv, [ApprovalNext]_approvalVars
               PROVE  QuestionsUp'
    OBVIOUS
  <1>0. /\ ApprovalTypeOK /\ TurnInv /\ ChannelInv /\ QuestionsUp
        /\ TurnInv' /\ ApprovalTypeOK'
    BY TurnStep, TypeStep DEF ApprovalInv
  <1>a. ASSUME \A r \in TurnIds : at'[r] # "waiting"
        PROVE  QuestionsUp'
    BY <1>a DEF QuestionsUp
  <1>b. ASSUME turn = 0 \/ at[turn] = "over",
               UNCHANGED at \/ (started < MaxTurns /\ StartTurn)
        PROVE  QuestionsUp'
    <2>1. \A r \in TurnIds : at[r] # "waiting"
      BY <1>0, <1>b DEF TurnInv, TurnIds
    <2>2. \A r \in TurnIds : at'[r] # "waiting"
      BY <1>0, <1>b, <2>1, StartTyped
    <2> QED
      BY <1>a, <2>2
  <1>c. ASSUME DispatchBehind
        PROVE  UNCHANGED at \/ (started < MaxTurns /\ StartTurn)
    BY <1>0, <1>c, ApprovalAssumption DEF DispatchBehind, ApprovalTypeOK
  <1>1. CASE SubmitPrompt
    <2>1. CASE turnOn \/ behind > 0
      BY <1>0, <1>1, <2>1, UpKept DEF SubmitPrompt
    <2>2. CASE ~(turnOn \/ behind > 0)
      <3>1. turn = 0
        BY <1>0, <1>1, <2>2 DEF SubmitPrompt, NothingLingers, TurnInv
      <3>2. StartTurn /\ started < MaxTurns
        BY <1>0, <1>1, <2>2, ApprovalAssumption DEF SubmitPrompt, ApprovalTypeOK
      <3> QED
        BY <1>b, <3>1, <3>2
    <2> QED
      BY <2>1, <2>2
  <1>2. CASE HandleRequest
    <2> SUFFICES ASSUME NEW r \in TurnIds, at'[r] = "waiting", ~stopped'[r]
                 PROVE  turn' = r /\ turnOn' /\ shown' = Request(r)'
      BY DEF QuestionsUp
    <2>1. turn' = r /\ turnOn' /\ turn = r
      BY <1>0, <1>2 DEF HandleRequest, TurnInv, TurnIds
    <2>2. chan[r] # <<>> /\ Head(chan[r]) # Over /\ shown' = Head(chan[r])
          /\ asks' = asks
      BY <1>2, <2>1 DEF HandleRequest
    <2>3. Head(chan[r]) = Request(r)
      BY <1>0, <2>2, ShortChannels DEF ChannelInv
    <2> QED
      BY <2>1, <2>2, <2>3 DEF Request
  <1>3. CASE HandleOver
    <2>1. turn \in TurnIds /\ chan[turn] # <<>> /\ Head(chan[turn]) = Over
      BY <1>0, <1>3, ApprovalAssumption
      DEF HandleOver, TurnInv, TurnIds, ApprovalTypeOK
    <2>2. at[turn] = "over"
      BY <1>0, <2>1, ShortChannels, RequestFacts DEF ChannelInv
    <2>3. UNCHANGED at \/ (started < MaxTurns /\ StartTurn)
      BY <1>3, <1>c DEF HandleOver
    <2> QED
      BY <1>b, <2>2, <2>3
  <1>4. CASE TypingEnds
    BY <1>0, <1>4, <1>b, <1>c DEF TypingEnds, TurnInv
  <1>5. CASE Review
    BY <1>0, <1>5, UpKept DEF Review, turnVars
  <1>6. CASE Stop
    <2> SUFFICES ASSUME NEW r \in TurnIds, at'[r] = "waiting"
                 PROVE  stopped'[r]
      BY DEF QuestionsUp
    <2>1. turn = r /\ r # 0
      BY <1>0, <1>6 DEF Stop, TurnInv, TurnIds
    <2> QED
      BY <1>0, <1>6, <2>1 DEF Stop, ApprovalTypeOK
  <1>7. CASE OpenOverlay \/ PickerArrives \/ CloseOverlay
    BY <1>0, <1>7, UpKept DEF OpenOverlay, PickerArrives, CloseOverlay, turnVars
  <1>8. CASE \E yes \in BOOLEAN : Judge(yes)
    BY <1>0, <1>8, UpKept DEF Judge, turnVars
  <1>9. ASSUME NEW yes \in BOOLEAN, AnswerRequest(yes)
        PROVE  QuestionsUp'
    <2> SUFFICES ASSUME NEW r \in TurnIds, at'[r] = "waiting", ~stopped'[r],
                        reply'[Request(r)'] = "empty"
                 PROVE  /\ turn' = r /\ turnOn'
                        /\ chan'[r] # <<>> /\ Head(chan'[r]) = Request(r)'
      BY DEF QuestionsUp, ReplyTo
    <2>1. turn' = r /\ turnOn'
      BY <1>0 DEF TurnInv, TurnIds
    <2>2. UNCHANGED <<at, asks, chan, stopped>> /\ Request(r)' = Request(r)
      BY <1>9 DEF AnswerRequest, Request
    <2>3. shown # Request(r)
      BY <1>0, <1>9, <2>2 DEF AnswerRequest, ReplyTo, ApprovalTypeOK, Nothing
    <2>4. reply[Request(r)] = "empty"
      BY <1>0, <1>9, <2>2, <2>3 DEF AnswerRequest, ReplyTo, ApprovalTypeOK
    <2> QED
      BY <1>0, <2>1, <2>2, <2>3, <2>4 DEF QuestionsUp, ReplyTo
  <1>10. ASSUME NEW r \in TurnIds, AskApproval(r)
         PROVE  QuestionsUp'
    <2> SUFFICES ASSUME NEW s \in TurnIds, at'[s] = "waiting", ~stopped'[s]
                 PROVE  /\ turn' = s /\ turnOn'
                        /\ chan'[s] # <<>> /\ Head(chan'[s]) = Request(s)'
      BY DEF QuestionsUp
    <2>1. turn' = s /\ turnOn' /\ stopped' = stopped /\ turn' = turn
      BY <1>0, <1>10 DEF TurnInv, TurnIds, AskApproval, modelVarsA
    <2>2. at[r] = "working" /\ turn = r /\ s = r
      BY <1>0, <1>10, <2>1 DEF TurnInv, AskApproval
    <2>3. chan[r] = <<>>
      BY <1>0, <2>2 DEF ChannelInv
    <2>4. chan'[r] = Append(<<>>, <<r, asks'[r]>>)
      BY <1>0, <1>10, <2>1, <2>2, <2>3 DEF AskApproval, ApprovalTypeOK
    <2> QED
      BY <2>1, <2>2, <2>4, ShortChannels DEF Request
  <1>11. ASSUME NEW r \in TurnIds, TakeAnswer(r) \/ GiveUp(r) \/ Leave(r)
         PROVE  QuestionsUp'
    <2>1. turn = r /\ at'[r] # "waiting"
      BY <1>0, <1>11 DEF TurnInv, TakeAnswer, GiveUp, Leave, ApprovalTypeOK
    <2>2. \A s \in TurnIds : s # r => at'[s] = at[s] /\ at[s] # "waiting"
      BY <1>0, <1>11, <2>1 DEF TurnInv, TakeAnswer, GiveUp, Leave, ApprovalTypeOK
    <2> QED
      BY <1>a, <2>1, <2>2
  <1>12. ASSUME NEW r \in TurnIds, StopArrives(r) \/ DeadlineArrives(r)
         PROVE  QuestionsUp'
    BY <1>0, <1>12, UpKept DEF StopArrives, DeadlineArrives, modelVarsA
  <1>13. CASE UNCHANGED approvalVars
    BY <1>0, <1>13, UpKept DEF approvalVars, modelVarsA, turnVars
  <1> QED
    BY <1>1, <1>2, <1>3, <1>4, <1>5, <1>6, <1>7, <1>8, <1>9, <1>10, <1>11,
       <1>12, <1>13 DEF ApprovalNext

-----------------------------------------------------------------------------
\* For any number of turns, approvals, reviews and overlays: the yes to a
\* question lets through the call that was asked about and no other, the
\* channel of the question that is up has room for its answer, and a turn that
\* waits has its question up or next in line (run.go's approver, the approval
\* banner and the keys of app.go).
THEOREM ApprovalsAlwaysReachHer == ApprovalSpec => []ApprovalsReachHer
  <1>1. ApprovalInit => ApprovalInv
    BY ApprovalInitially
  <1>2. ApprovalInv /\ [ApprovalNext]_approvalVars => ApprovalInv'
    BY TypeStep, TurnStep, ChannelStep, ShownStep, ReplyStep, ConsentStep,
       QuestionStep DEF ApprovalInv
  <1>3. ApprovalInv => ApprovalsReachHer
    BY DEF ApprovalInv, ShownInv, ApprovalsReachHer, ReplyHasRoom, ReplyTo
  <1> QED
    BY <1>1, <1>2, <1>3, PTL DEF ApprovalSpec

-----------------------------------------------------------------------------
(***************************************************************************)
(* Permission profiles: what a one-shot run holds, between being given its *)
(* rules and saving its history, does not depend on the files any more.    *)
(***************************************************************************)

\* What a one-shot run holds between its steps.
ScopeHeld(x) ==
  /\ x.phase = "new" => x.name = NoName
  /\ x.phase \in {"new", "ask", "chat"} => x.called = {} /\ x.reg = {}
  /\ x.phase \in {"ask", "askReg"} => x.name = NoName
  /\ x.phase \in {"chat", "chatReg", "running", "done"} =>
       (x.name # NoName => x.rules # NoRules)
  /\ x.called \subseteq FilterRegistry(x.rules)
  /\ x.reg \subseteq FilterRegistry(x.rules)
  /\ x.phase \in {"running", "done"} => x.lines = EffectiveLines(x.rules)
  /\ x.phase = "running" => x.model \subseteq MaskerOrDefault(x.rules)
  /\ x.phase = "done" => x.model \subseteq x.disk

ScopeInv == ProfileTypeOK /\ \A r \in Runs : ScopeHeld(run[r])

\* A registry, a limit and a masker have their types; no profile narrows nothing.
LEMMA ScopeTypes ==
  /\ \A p \in AllRules :
       /\ FilterRegistry(p) \in SUBSET ScopeTools
       /\ EffectiveLines(p) \in Nat
       /\ MaskerOrDefault(p) \in Masks
       /\ MaskedBy(p) \in Masks
       /\ MaskedBy(p) \subseteq MaskerOrDefault(p)
  /\ FilterRegistry(NoRules) = ScopeTools
  /\ NoRules \in AllRules
  /\ Baseline \in Masks
<1>1. NoRules \in AllRules
  BY DEF AllRules
<1>2. FilterRegistry(NoRules) = ScopeTools
  BY ProfileScopeAssumption DEF FilterRegistry
<1>3. Baseline \in Masks
  BY DEF Masks
<1>4. ASSUME NEW p \in AllRules
      PROVE  /\ FilterRegistry(p) \in SUBSET ScopeTools
             /\ MaskerOrDefault(p) \in Masks
             /\ MaskedBy(p) \in Masks
             /\ MaskedBy(p) \subseteq MaskerOrDefault(p)
  BY DEF FilterRegistry, MaskerOrDefault, MaskedBy, Masks
<1>5. ASSUME NEW p \in AllRules
      PROVE  EffectiveLines(p) \in Nat
  BY ProfileScopeAssumption DEF EffectiveLines
<1>. QED  BY <1>1, <1>2, <1>3, <1>4, <1>5

\* Whatever the files hold, what is loaded is the rules of a file or none.
LEMMA LoadedRules ==
  ASSUME ProfileTypeOK
  PROVE  LoadActive \in AllRules /\ \A n : Load(n) \in AllRules
BY DEF LoadActive, Load, AllRules

\* `cloudy profile` and the editor leave the runs and the terminal UI alone.
LEMMA CommandKeepsScope ==
  ASSUME ScopeInv, CommandNext
  PROVE  ScopeInv' /\ UNCHANGED <<ui, run>>
<1>. USE ProfileScopeAssumption
<1>1. ProfileTypeOK' /\ UNCHANGED <<ui, run>>
  <2>. ProfileTypeOK
    BY DEF ScopeInv
  <2>1. CASE \E n \in ProfileNames : NewLooks(n)
    BY <2>1 DEF NewLooks, ProfileTypeOK, fileVars
  <2>2. CASE \E n \in ProfileNames : UseLoads(n)
    BY <2>2 DEF UseLoads, ProfileTypeOK, fileVars
  <2>3. CASE NewSaves
    <3>1. rulesIn' \in [ProfileNames -> Rules \cup {Unreadable, Missing}]
      BY <2>3 DEF NewSaves, ProfileTypeOK
    <3>. QED  BY <2>3, <3>1 DEF NewSaves, ProfileTypeOK, NoCommand
  <2>4. CASE UseTruncates
    BY <2>4 DEF UseTruncates, ProfileTypeOK
  <2>5. CASE UseWrites
    BY <2>5 DEF UseWrites, ProfileTypeOK, NoCommand
  <2>6. CASE NoneClears
    BY <2>6 DEF NoneClears, ProfileTypeOK
  <2>7. CASE CommandDies
    BY <2>7 DEF CommandDies, ProfileTypeOK, NoCommand, fileVars
  <2>8. CASE \E n \in ProfileNames, c \in Rules \cup {Unreadable, Missing} : Edit(n, c)
    BY <2>8 DEF Edit, ProfileTypeOK
  <2>. QED  BY <2>1, <2>2, <2>3, <2>4, <2>5, <2>6, <2>7, <2>8 DEF CommandNext
<1>. QED  BY <1>1 DEF ScopeInv, ScopeHeld

UiRecords ==
  [phase : {"off", "boot", "idle", "loaded", "running"}, tools : SUBSET ScopeTools,
   lines : Nat, turn : AllRules, reg : SUBSET ScopeTools, disk : Masks]

\* The terminal UI leaves the runs alone.
LEMMA UiKeepsScope ==
  ASSUME ScopeInv, UiNext
  PROVE  ScopeInv' /\ UNCHANGED run
<1>. USE ProfileScopeAssumption
<1>1. ProfileTypeOK' /\ UNCHANGED run
  <2>. ProfileTypeOK
    BY DEF ScopeInv
  <2>a. /\ LoadActive \in AllRules
        /\ FilterRegistry(LoadActive) \in SUBSET ScopeTools
        /\ EffectiveLines(LoadActive) \in Nat
        /\ MaskerOrDefault(LoadActive) \in Masks
        /\ NoRules \in AllRules /\ Baseline \in Masks
    BY LoadedRules, ScopeTypes
  <2>b. SnapshotMasks \in Masks
    BY ScopeTypes DEF SnapshotMasks, ProfileTypeOK
  <2>c. ui \in UiRecords
    BY DEF ProfileTypeOK, UiRecords
  <2>1. CASE BootTools
    BY <2>1, <2>a DEF BootTools, ProfileTypeOK, NoUi, fileVars
  <2>2. CASE BootLimits
    BY <2>2, <2>a DEF BootLimits, ProfileTypeOK, fileVars
  <2>3. CASE TurnLoads
    <3>1. ui' \in UiRecords
      <4>1. PICK ph \in {"idle", "loaded"} :
              ui' = [ui EXCEPT !.turn = LoadActive, !.phase = ph]
        BY <2>3 DEF TurnLoads
      <4>. QED  BY <4>1, <2>a, <2>c DEF UiRecords
    <3>2. turnsRun' \in 0..MaxTurnsRun
      BY <2>3 DEF TurnLoads, ProfileTypeOK
    <3>. QED  BY <2>3, <3>1, <3>2 DEF TurnLoads, ProfileTypeOK, UiRecords, fileVars
  <2>4. CASE TurnRuns
    BY <2>4 DEF TurnRuns, ProfileTypeOK, fileVars
  <2>5. CASE TurnEnds
    <3>1. ui' \in UiRecords
      <4>1. PICK disk \in {ui.disk, SnapshotMasks} :
              ui' = [ui EXCEPT !.phase = "idle", !.disk = disk]
        BY <2>5 DEF TurnEnds
      <4>2. disk \in Masks
        BY <4>1, <2>b, <2>c DEF UiRecords
      <4>. QED  BY <4>1, <4>2, <2>c DEF UiRecords
    <3>. QED  BY <2>5, <3>1 DEF TurnEnds, ProfileTypeOK, UiRecords, fileVars
  <2>6. CASE CompactSaves
    BY <2>6, <2>a DEF CompactSaves, ProfileTypeOK, fileVars
  <2>7. CASE SetupRebuilds
    BY <2>7, <2>a DEF SetupRebuilds, ProfileTypeOK, fileVars
  <2>8. CASE UiQuits
    BY <2>8, <2>a DEF UiQuits, ProfileTypeOK, NoUi, fileVars
  <2>. QED  BY <2>1, <2>2, <2>3, <2>4, <2>5, <2>6, <2>7, <2>8 DEF UiNext
<1>. QED  BY <1>1 DEF ScopeInv, ScopeHeld

RunRecords ==
  [phase : {"new", "ask", "chat", "askReg", "chatReg", "running", "done", "failed"},
   name : ProfileNames \cup {NoName}, rules : AllRules, reg : SUBSET ScopeTools,
   lines : Nat, called : SUBSET ScopeTools, model : Masks, disk : Masks]

\* A step of a run changes its own record, and may install a registry.
LEMMA OneRunMoves ==
  ASSUME ScopeInv, NEW r \in Runs, NEW rec \in RunRecords, ScopeHeld(rec),
         run' = [run EXCEPT ![r] = rec],
         UNCHANGED <<rulesIn, marker, pinned, command, edits, commandsRun, turnsRun, ui>>,
         installed' \in SUBSET ScopeTools
  PROVE  ScopeInv'
<1>1. ProfileTypeOK'
  BY DEF ScopeInv, ProfileTypeOK, RunRecords
<1>2. run'[r] = rec /\ \A s \in Runs \ {r} : run'[s] = run[s]
  BY DEF ScopeInv, ProfileTypeOK
<1>3. \A s \in Runs : ScopeHeld(run[s])
  BY DEF ScopeInv
<1>4. \A s \in Runs : ScopeHeld(run'[s])
  BY <1>2, <1>3
<1>5. \A s \in Runs : ScopeHeld(run[s])'
  BY <1>4 DEF ScopeHeld, FilterRegistry, EffectiveLines, MaskerOrDefault
<1>. QED  BY <1>1, <1>5 DEF ScopeInv

\* A run keeps the scope of its rules, whatever the others do.
LEMMA RunKeepsScope ==
  ASSUME ScopeInv, RunNext
  PROVE  ScopeInv' /\ UNCHANGED ui
<1>1. PICK r \in Runs :
       \/ \E n \in ProfileNames \cup {NoName} : ChatLoads(r, n)
       \/ AskLoads(r) \/ RunStarts(r) \/ RunSaves(r) \/ RunFails(r)
       \/ \E allowed \in SkillTools : RunBuilds(r, allowed)
       \/ \E t \in ScopeTools : RunCalls(r, t)
  BY DEF RunNext
<1>. DEFINE old == run[r]
<1>2. /\ old \in RunRecords /\ ScopeHeld(old)
      /\ installed \in SUBSET ScopeTools
  BY DEF ScopeInv, ProfileTypeOK, RunRecords
<1>3. LoadActive \in AllRules /\ \A n : Load(n) \in AllRules
  BY LoadedRules DEF ScopeInv
<1>4. SUFFICES ASSUME TRUE
               PROVE  \E rec \in RunRecords :
                        /\ ScopeHeld(rec)
                        /\ run' = [run EXCEPT ![r] = rec]
                        /\ UNCHANGED <<rulesIn, marker, pinned, command, edits, commandsRun,
                                       turnsRun, ui>>
                        /\ installed' \in SUBSET ScopeTools
  BY OneRunMoves
<1>5. CASE \E n \in ProfileNames \cup {NoName} : ChatLoads(r, n)
  <2>1. PICK n \in ProfileNames \cup {NoName} : ChatLoads(r, n)
    BY <1>5
  <2>. DEFINE rec == [old EXCEPT !.name = n, !.rules = Load(n),
         !.phase = IF n # NoName /\ Load(n) = NoRules THEN "failed" ELSE "chat"]
  <2>2. rec \in RunRecords
    BY <1>2, <1>3 DEF RunRecords
  <2>3. ScopeHeld(rec)
    BY <1>2, <2>1 DEF ScopeHeld, ChatLoads, RunRecords
  <2>4. run' = [run EXCEPT ![r] = rec]
    BY <2>1 DEF ChatLoads
  <2>. QED  BY <1>2, <2>1, <2>2, <2>3, <2>4 DEF ChatLoads, fileVars
<1>6. CASE AskLoads(r)
  <2>. DEFINE rec == [old EXCEPT !.rules = LoadActive, !.phase = "ask"]
  <2>1. rec \in RunRecords
    BY <1>2, <1>3 DEF RunRecords
  <2>2. ScopeHeld(rec)
    BY <1>2, <1>6 DEF ScopeHeld, AskLoads, RunRecords
  <2>3. run' = [run EXCEPT ![r] = rec]
    BY <1>6 DEF AskLoads
  <2>. QED  BY <1>2, <1>6, <2>1, <2>2, <2>3 DEF AskLoads, fileVars
<1>7. CASE \E allowed \in SkillTools : RunBuilds(r, allowed)
  <2>1. PICK allowed \in SkillTools : RunBuilds(r, allowed)
    BY <1>7
  <2>. DEFINE reg == FilterRegistry(RebuildRules(r))
              rec == [old EXCEPT !.reg = reg \cap allowed,
                        !.phase = IF old.phase = "ask" THEN "askReg" ELSE "chatReg"]
  <2>2. RebuildRules(r) \in AllRules
    BY <1>2, <1>3 DEF RebuildRules, RunRecords
  <2>3. reg \in SUBSET ScopeTools /\ reg \subseteq FilterRegistry(old.rules)
    \* Rules that are loaded late narrow a run that was given none.
    <3>1. CASE RebuildRules(r) = old.rules
      BY <2>2, <3>1, ScopeTypes
    <3>2. CASE old.rules = NoRules
      BY <2>2, <3>2, ScopeTypes
    <3>. QED  BY <3>1, <3>2 DEF RebuildRules
  <2>4. rec \in RunRecords
    BY <1>2, <2>3 DEF RunRecords
  <2>5. ScopeHeld(rec)
    <3>1. /\ rec.rules = old.rules /\ rec.called = old.called /\ rec.name = old.name
          /\ rec.reg \subseteq reg
          /\ rec.phase = IF old.phase = "ask" THEN "askReg" ELSE "chatReg"
          /\ old.phase \in {"ask", "chat"}
      BY <1>2, <2>1 DEF RunRecords, RunBuilds
    <3>. QED  BY <1>2, <2>3, <3>1 DEF ScopeHeld
  <2>6. run' = [run EXCEPT ![r] = rec]
    BY <2>1 DEF RunBuilds
  <2>7. installed' \in SUBSET ScopeTools
    BY <1>2, <2>1, <2>3 DEF RunBuilds
  <2>. QED  BY <2>1, <2>4, <2>5, <2>6, <2>7 DEF RunBuilds, fileVars
<1>8. CASE RunStarts(r)
  <2>. DEFINE p == old.rules
              rec == [old EXCEPT
                !.lines = EffectiveLines(p),
                !.phase = IF PatternsOf[p] = "bad" THEN "failed" ELSE "running",
                !.model = IF old.phase = "chatReg" /\ PatternsOf[p] = "none"
                            THEN Baseline ELSE MaskedBy(p)]
  <2>1. p \in AllRules
    BY <1>2 DEF RunRecords
  <2>2. rec \in RunRecords
    BY <1>2, <2>1, ScopeTypes DEF RunRecords
  <2>3. rec.model \subseteq MaskerOrDefault(p)
    BY <1>2, <2>1, ScopeTypes DEF RunRecords, MaskerOrDefault
  <2>4. ScopeHeld(rec)
    <3>1. /\ rec.rules = p /\ rec.called = old.called /\ rec.name = old.name
          /\ rec.reg = old.reg /\ rec.lines = EffectiveLines(p)
          /\ rec.phase \in {"failed", "running"}
          /\ old.phase \in {"askReg", "chatReg"}
      BY <1>2, <1>8 DEF RunRecords, RunStarts
    <3>. QED  BY <1>2, <2>3, <3>1 DEF ScopeHeld
  <2>5. run' = [run EXCEPT ![r] = rec]
    BY <1>8 DEF RunStarts
  <2>. QED  BY <1>2, <1>8, <2>2, <2>4, <2>5 DEF RunStarts, fileVars
<1>9. CASE \E t \in ScopeTools : RunCalls(r, t)
  <2>1. PICK t \in ScopeTools : RunCalls(r, t)
    BY <1>9
  <2>. DEFINE rec == [old EXCEPT !.called = @ \cup {t}]
  <2>2. rec \in RunRecords
    BY <1>2 DEF RunRecords
  <2>3. ScopeHeld(rec)
    BY <1>2, <2>1 DEF ScopeHeld, RunCalls, RegistryOf, RunRecords
  <2>4. run' = [run EXCEPT ![r] = rec]
    BY <2>1 DEF RunCalls
  <2>. QED  BY <1>2, <2>1, <2>2, <2>3, <2>4 DEF RunCalls, fileVars
<1>10. CASE RunSaves(r)
  <2>. DEFINE rec == [old EXCEPT !.phase = "done", !.disk = MaskerOrDefault(old.rules)]
  <2>1. rec \in RunRecords
    BY <1>2, ScopeTypes DEF RunRecords
  <2>2. ScopeHeld(rec)
    <3>1. /\ rec.rules = old.rules /\ rec.called = old.called /\ rec.name = old.name
          /\ rec.reg = old.reg /\ rec.lines = old.lines /\ rec.model = old.model
          /\ rec.phase = "done" /\ rec.disk = MaskerOrDefault(old.rules)
          /\ old.phase = "running"
      BY <1>2, <1>10 DEF RunRecords, RunSaves
    <3>. QED  BY <1>2, <3>1 DEF ScopeHeld
  <2>3. run' = [run EXCEPT ![r] = rec]
    BY <1>10 DEF RunSaves
  <2>. QED  BY <1>2, <1>10, <2>1, <2>2, <2>3 DEF RunSaves, fileVars
<1>11. CASE RunFails(r)
  <2>. DEFINE rec == [NoRun EXCEPT !.phase = "failed"]
  <2>1. rec \in RunRecords
    BY ScopeTypes DEF RunRecords, NoRun, Masks
  <2>2. ScopeHeld(rec)
    BY DEF ScopeHeld, NoRun
  <2>3. run' = [run EXCEPT ![r] = rec]
    BY <1>11 DEF RunFails
  <2>. HIDE DEF rec
  <2>. QED  BY <1>2, <1>11, <2>1, <2>2, <2>3 DEF RunFails, fileVars
<1>. QED  BY <1>1, <1>5, <1>6, <1>7, <1>8, <1>9, <1>10, <1>11

-----------------------------------------------------------------------------
LEMMA ScopeInitially ==
  ASSUME ProfileInit
  PROVE  ScopeInv
<1>1. ProfileTypeOK
  <2>1. NoRun \in RunRecords
    BY ScopeTypes DEF RunRecords, NoRun, Masks
  <2>2. NoUi \in UiRecords
    BY ScopeTypes DEF UiRecords, NoUi
  <2>3. run \in [Runs -> RunRecords] /\ ui \in UiRecords
    BY <2>1, <2>2 DEF ProfileInit
  <2>. QED
    BY <2>3, ProfileScopeAssumption
    DEF ProfileInit, ProfileTypeOK, NoCommand, RunRecords, UiRecords
<1>2. \A r \in Runs : ScopeHeld(run[r])
  BY DEF ProfileInit, ScopeHeld, NoRun
<1>. QED  BY <1>1, <1>2 DEF ScopeInv

LEMMA ScopeStep ==
  ASSUME ScopeInv, [ProfileNext]_profileVars
  PROVE  ScopeInv'
<1>1. CASE UNCHANGED profileVars
  BY <1>1 DEF ScopeInv, ScopeHeld, ProfileTypeOK, profileVars
<1>. QED  BY <1>1, CommandKeepsScope, UiKeepsScope, RunKeepsScope DEF ProfileNext

\* The end of a turn writes nothing that is less masked than the turn.
LEMMA TurnSavesMasked ==
  ASSUME ScopeInv, [ProfileNext]_profileVars,
         ui.phase = "running", ui'.phase = "idle", ui'.disk # ui.disk
  PROVE  MaskedBy(ui.turn) \subseteq ui'.disk
<1>1. UiNext
  BY CommandKeepsScope, RunKeepsScope DEF ProfileNext, profileVars
<1>2. ui \in UiRecords
  BY DEF ScopeInv, ProfileTypeOK, UiRecords
<1>3. CASE TurnEnds
  BY <1>2, <1>3, ScopeTypes DEF TurnEnds, SnapshotMasks, UiRecords
<1>4. CASE SetupRebuilds \/ UiQuits
  BY <1>2, <1>4 DEF SetupRebuilds, UiQuits, NoUi, UiRecords
<1>. QED
  BY <1>1, <1>3, <1>4
  DEF UiNext, BootTools, BootLimits, TurnLoads, TurnRuns, CompactSaves

\* Whatever the files of the profiles hold and whoever changes them meanwhile, a
\* one-shot run calls only what the rules it was given allow, has their limit,
\* and saves nothing less masked than what the model saw; nor does a turn of
\* the terminal UI.
THEOREM ProfilesAreHonoured == ProfileSpec => ProfilesHonoured
<1>1. ProfileInit => ScopeInv
  BY ScopeInitially
<1>2. ScopeInv /\ [ProfileNext]_profileVars => ScopeInv'
  BY ScopeStep
<1>3. ScopeInv => ProfileTypeOK /\ RunsKeepTheirScope /\ RunsSavedMasked
  BY DEF ScopeInv, ScopeHeld, RunsKeepTheirScope, RunsSavedMasked
<1>4. ScopeInv /\ [ProfileNext]_profileVars =>
        [ui.phase = "running" /\ ui'.phase = "idle" /\ ui'.disk # ui.disk
           => MaskedBy(ui.turn) \subseteq ui'.disk]_profileVars
  BY TurnSavesMasked
<1>. QED
  BY <1>1, <1>2, <1>3, <1>4, PTL DEF ProfileSpec, ProfilesHonoured, TurnsSavedMasked
=============================================================================
