----------------------------- MODULE Fallback -----------------------------
(***************************************************************************)
(* The chain of language-model providers behind one Provider               *)
(* (core/llm/fallback.go) and the circuit breaker of each candidate        *)
(* (core/llm/circuit.go).  The turns of a session and the summarizer of    *)
(* /compact are its callers, and each breaker is shared by all of them.    *)
(*                                                                         *)
(* A chunk is "data" (text, a tool call or usage), "done" or "err".  What  *)
(* a candidate sends is a choice: up to MaxData chunks and one of the two  *)
(* ends, which the parser of an adapter sends last.  The 16 places of the  *)
(* channel of an adapter and the 17 of the channel behind it are one       *)
(* buffer, of OutCap chunks, behind the goroutine of wrapChunks: a chunk   *)
(* that waits in front of it is one the parser has not sent yet.  Time is  *)
(* a clock that stops at EndOfTime.                                        *)
(***************************************************************************)
EXTENDS Naturals, Sequences, FiniteSets

CONSTANTS
  Callers,     \* concurrent users of the provider
  ChainLen,    \* len(FallbackProvider.chain)
  Threshold,   \* FallbackOptions.Threshold
  Window,      \* FallbackOptions.Window, in ticks
  OutCap,      \* capacity of the channels between parser and reader
  MaxData,     \* bound: data chunks of a stream
  EndOfTime    \* bound: the last tick of the clock

ASSUME FallbackAssumption ==
  /\ IsFiniteSet(Callers)
  /\ ChainLen \in Nat \ {0}
  /\ Threshold \in Nat \ {0}
  /\ Window \in Nat \ {0}
  /\ OutCap \in Nat \ {0}
  /\ MaxData \in Nat
  /\ EndOfTime \in Nat

VARIABLES
  clock,      \* time.Now
  failures,   \* candidate -> breaker.failures
  pc,         \* caller -> where its Stream is
  cand,       \* caller -> the index i of the loop of Stream
  cancelled,  \* caller -> ctx.Err() # nil
  unsent,     \* caller -> data chunks the candidate may still send
  parsing,    \* caller -> the candidate has not closed its channel
  hand,       \* caller -> what wrapChunks has received and not sent, at most one
  out,        \* caller -> the channel wrapChunks returned
  outOpen,    \* caller -> that channel is not closed
  reader      \* caller -> the loop over the chunks in streamAssistantTurn

requestVars == <<pc, cand, cancelled>>
streamVars == <<unsent, parsing, hand, out, outOpen, reader>>
fallbackVars == <<clock, failures, requestVars, streamVars>>

Candidates == 1..ChainLen
Chunks == {"data", "done", "err"}
Ends == {"done", "err"}
ReaderStates == {"off", "reading", "ended", "refused"}

FallbackTypeOK ==
  /\ clock \in 0..EndOfTime
  /\ failures \in [Candidates -> Seq(0..EndOfTime)]
  /\ pc \in [Callers -> {"idle", "check", "call", "stream"}]
  /\ cand \in [Callers -> 1..ChainLen + 1]
  /\ \A r \in Callers : pc[r] \in {"call", "stream"} => cand[r] \in Candidates
  /\ cancelled \in [Callers -> BOOLEAN]
  /\ unsent \in [Callers -> 0..MaxData]
  /\ hand \in [Callers -> Seq(Chunks)]
  /\ out \in [Callers -> Seq(Chunks)]
  /\ \A r \in Callers : Len(hand[r]) <= 1 /\ Len(out[r]) <= OutCap
  /\ parsing \in [Callers -> BOOLEAN]
  /\ outOpen \in [Callers -> BOOLEAN]
  /\ reader \in [Callers -> ReaderStates]

FallbackInit ==
  /\ clock = 0
  /\ failures = [c \in Candidates |-> <<>>]
  /\ pc = [r \in Callers |-> "idle"]
  /\ cand = [r \in Callers |-> 1]
  /\ cancelled = [r \in Callers |-> FALSE]
  /\ unsent = [r \in Callers |-> 0]
  /\ parsing = [r \in Callers |-> FALSE]
  /\ hand = [r \in Callers |-> <<>>]
  /\ out = [r \in Callers |-> <<>>]
  /\ outOpen = [r \in Callers |-> FALSE]
  /\ reader = [r \in Callers |-> "off"]

---------------------------------------------------------------------------
(* The breaker.  Both operations read the clock under the mutex.            *)

\* time.Time.After(cutoff), with cutoff = now - window
Recent(t) == t + Window > clock

\* Variant: failures are kept for good.
PrunedNever(s) == s

\* The loop of pruneLocked drops stamps from the front up to the first one
\* that is recent, and looks no further.
Pruned(s) ==
  LET kept == {i \in 1..Len(s) : \E j \in 1..i : Recent(s[j])}
  IN  SubSeq(s, Len(s) - Cardinality(kept) + 1, Len(s))

Charge(c) == failures' = [failures EXCEPT ![c] = Pruned(Append(@, clock))]

LooksOpen(c) == Len(Pruned(failures[c])) >= Threshold

---------------------------------------------------------------------------
(* Stream: the walk along the chain.                                       *)

Begin(r) ==
  /\ pc[r] = "idle"
  /\ pc' = [pc EXCEPT ![r] = "check"]
  /\ UNCHANGED <<clock, failures, cand, cancelled, streamVars>>

\* A caller without a request keeps no index and no context.
GiveUp(r) ==
  /\ pc' = [pc EXCEPT ![r] = "idle"]
  /\ cand' = [cand EXCEPT ![r] = 1]
  /\ cancelled' = [cancelled EXCEPT ![r] = FALSE]

\* The head of the loop: the context first, then the breaker, which prunes.
Check(r) ==
  /\ pc[r] = "check"
  /\ cand[r] \in Candidates
  /\ ~cancelled[r]
  /\ failures' = [failures EXCEPT ![cand[r]] = Pruned(@)]
  /\ IF LooksOpen(cand[r])
     THEN cand' = [cand EXCEPT ![r] = @ + 1] /\ UNCHANGED pc
     ELSE pc' = [pc EXCEPT ![r] = "call"] /\ UNCHANGED cand
  /\ UNCHANGED <<clock, cancelled, streamVars>>

ReturnCancelled(r) ==
  /\ pc[r] = "check" /\ cand[r] \in Candidates /\ cancelled[r]
  /\ GiveUp(r)
  /\ UNCHANGED <<clock, failures, streamVars>>

ReturnExhausted(r) ==
  /\ pc[r] = "check" /\ cand[r] = ChainLen + 1
  /\ GiveUp(r)
  /\ UNCHANGED <<clock, failures, streamVars>>

\* Variant: cancellation is taken for a failure of the provider.
CountsAlways(r) == TRUE

Counts(r) == ~cancelled[r]

\* candidate.Stream returns an error, which counts unless the context is done.
CallFails(r) ==
  /\ pc[r] = "call"
  /\ IF Counts(r) THEN Charge(cand[r]) ELSE UNCHANGED failures
  /\ pc' = [pc EXCEPT ![r] = "check"]
  /\ cand' = [cand EXCEPT ![r] = @ + 1]
  /\ UNCHANGED <<clock, cancelled, streamVars>>

\* candidate.Stream returns a channel, and wrapChunks starts its goroutine.
CallStreams(r) ==
  /\ pc[r] = "call"
  /\ pc' = [pc EXCEPT ![r] = "stream"]
  /\ cancelled' = [cancelled EXCEPT ![r] = FALSE]
  /\ unsent' = [unsent EXCEPT ![r] = MaxData]
  /\ parsing' = [parsing EXCEPT ![r] = TRUE]
  /\ outOpen' = [outOpen EXCEPT ![r] = TRUE]
  /\ reader' = [reader EXCEPT ![r] = "reading"]
  /\ UNCHANGED <<clock, failures, cand, hand, out>>

---------------------------------------------------------------------------
(* The stream: the parser of the candidate, wrapChunks, the reader.         *)

\* wrapChunks takes a chunk from the candidate's channel; an error counts,
\* whatever its cause.
Receive(r, chunk) ==
  /\ outOpen[r] /\ hand[r] = <<>>
  /\ hand' = [hand EXCEPT ![r] = <<chunk>>]
  /\ IF chunk = "err" THEN Charge(cand[r]) ELSE UNCHANGED failures
  /\ UNCHANGED <<clock, requestVars, out, outOpen, reader>>

ParserSends(r) ==
  /\ parsing[r] /\ unsent[r] > 0
  /\ Receive(r, "data")
  /\ unsent' = [unsent EXCEPT ![r] = @ - 1]
  /\ UNCHANGED parsing

\* The last chunk and the close.  A parser that sees the context done, or
\* whose read fails, ends with an error.
ParserEnds(r, last) ==
  /\ parsing[r]
  /\ Receive(r, last)
  /\ parsing' = [parsing EXCEPT ![r] = FALSE]
  /\ UNCHANGED unsent

HasRoom(r) == Len(out[r]) < OutCap

\* out <- c waits for room, and for nothing else.
Forward(r) ==
  /\ hand[r] # <<>>
  /\ HasRoom(r)
  /\ out' = [out EXCEPT ![r] = @ \o hand[r]]
  /\ hand' = [hand EXCEPT ![r] = <<>>]
  /\ UNCHANGED <<clock, failures, requestVars, unsent, parsing, outOpen, reader>>

\* Variant: no defer close(out).
NeverCloses(r) == FALSE

CloseOut(r) ==
  /\ outOpen[r] /\ ~parsing[r] /\ hand[r] = <<>>
  /\ outOpen' = [outOpen EXCEPT ![r] = FALSE]
  /\ UNCHANGED <<clock, failures, requestVars, unsent, parsing, hand, out, reader>>

\* streamAssistantTurn reads a chunk: an error or Done ends its loop, and so
\* does a hook that refuses the usage of a data chunk.
Read(r) ==
  /\ reader[r] = "reading" /\ out[r] # <<>>
  /\ out' = [out EXCEPT ![r] = Tail(@)]
  /\ \/ Head(out[r]) \in Ends /\ reader' = [reader EXCEPT ![r] = "ended"]
     \/ Head(out[r]) = "data" /\ UNCHANGED reader
     \/ Head(out[r]) = "data" /\ reader' = [reader EXCEPT ![r] = "refused"]
  /\ UNCHANGED <<clock, failures, requestVars, unsent, parsing, hand, outOpen>>

\* The caller is done, and so is the goroutine of wrapChunks.
Finish(r) ==
  /\ pc[r] = "stream" /\ reader[r] \in {"ended", "refused"} /\ ~outOpen[r]
  /\ GiveUp(r)
  /\ reader' = [reader EXCEPT ![r] = "off"]
  /\ unsent' = [unsent EXCEPT ![r] = 0]
  /\ out' = [out EXCEPT ![r] = <<>>]
  /\ UNCHANGED <<clock, failures, parsing, hand, outOpen>>

---------------------------------------------------------------------------
\* The context is cancelled while Stream runs.  Once there is a stream nothing
\* here looks at it (the parser may end with an error at any time), so that
\* CallStreams forgets it.
Cancel(r) ==
  /\ pc[r] \in {"check", "call"} /\ ~cancelled[r]
  /\ cancelled' = [cancelled EXCEPT ![r] = TRUE]
  /\ UNCHANGED <<clock, failures, pc, cand, streamVars>>

FallbackTick ==
  /\ clock < EndOfTime
  /\ clock' = clock + 1
  /\ UNCHANGED <<failures, requestVars, streamVars>>

CallerStep(r) ==
  Check(r) \/ ReturnCancelled(r) \/ ReturnExhausted(r) \/ CallFails(r)
  \/ CallStreams(r) \/ Read(r) \/ Finish(r)

ParserStep(r) == ParserSends(r) \/ \E last \in Ends : ParserEnds(r, last)

ForwarderStep(r) == Forward(r) \/ CloseOut(r)

FallbackNext ==
  \/ \E r \in Callers : Begin(r) \/ Cancel(r)
  \/ \E r \in Callers : CallerStep(r) \/ ParserStep(r) \/ ForwarderStep(r)
  \/ FallbackTick

FallbackFairness ==
  \A r \in Callers : /\ WF_fallbackVars(CallerStep(r))
                     /\ WF_fallbackVars(ParserStep(r))
                     /\ WF_fallbackVars(ForwarderStep(r))

FallbackSpec == FallbackInit /\ [][FallbackNext]_fallbackVars /\ FallbackFairness

---------------------------------------------------------------------------
\* A dead endpoint is left alone: whatever the callers do side by side, a
\* breaker never holds more failures of one window than the threshold lets
\* through plus one for each caller that had passed the check before.
OutageBounded ==
  \A c \in Candidates : Len(failures[c]) <= Threshold - 1 + Cardinality(Callers)

\* The breaker tells the truth: it looks open exactly while Threshold of its
\* failures are younger than Window, so that a candidate is back in use as
\* soon as its failures have aged, and not before.
OpenIsRecent ==
  \A c \in Candidates :
    LooksOpen(c) <=>
      Cardinality({i \in DOMAIN failures[c] : Recent(failures[c][i])}) >= Threshold

\* A failure is charged to the candidate that failed, once, and never by a
\* caller that gave up before it had a stream.
BlameIsDue ==
  [][\A c \in Candidates :
       failures'[c] # failures[c] /\ Len(failures'[c]) > Len(Pruned(failures[c]))
       => \E r \in Callers :
            /\ cand[r] = c
            /\ \/ pc[r] = "call" /\ pc'[r] = "check" /\ ~cancelled[r]
               \/ pc[r] = "stream" /\ hand'[r] = <<"err">> /\ hand[r] = <<>>]_fallbackVars

\* Every request comes to its end and leaves no goroutine behind, unless its
\* reader was refused more usage in the middle of the stream: it then stops
\* reading, and parser and forwarder may wait for it forever.
RequestEnds ==
  \A r \in Callers : pc[r] # "idle" ~> (pc[r] = "idle" \/ reader[r] = "refused")

\* The breakers tell the truth about their providers and protect them.
BreakersHonest == FallbackTypeOK /\ OutageBounded /\ OpenIsRecent
===========================================================================
