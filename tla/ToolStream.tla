---------------------------- MODULE ToolStream ----------------------------
(***************************************************************************)
(* How the tool calls of one turn come out of a provider's event stream:   *)
(* the parseSSE of each adapter (core/llm/openai, openai_compat, which     *)
(* moonshot repeats, anthropic, google) and the loop over the chunks in    *)
(* streamAssistantTurn (core/agent/agent.go).                              *)
(*                                                                         *)
(* The model (external) makes up to MaxCalls calls; its server writes them *)
(* as lines, in one of the styles its API has.  The arguments of call k    *)
(* are a JSON object that arrives in pieces <<k, 1>>, <<k, 2>>, ...: only   *)
(* all of them in order are valid JSON.  Text and usage, which the parsers *)
(* pass on as they come, are left out.                                     *)
(***************************************************************************)
EXTENDS Naturals, Sequences, FiniteSets

CONSTANTS
  Dialects,    \* the adapters to check
  Tools,       \* names of tools
  MaxCalls,    \* bound: calls of a turn
  MaxPieces    \* bound: pieces of the arguments of a call

ASSUME ToolStreamAssumption ==
  /\ Dialects \subseteq {"openai", "compat", "anthropic", "google"}
  /\ MaxCalls \in Nat
  /\ MaxPieces \in Nat

VARIABLES
  dialect,    \* the adapter in use
  style,      \* how the server writes the calls
  calls,      \* what the model called: a sequence of [name, pieces]
  at,         \* the next entry on the wire: line (from 0) of call
  blocks,     \* toolAccum, or toolBlocks with argsBuf: index -> call so far
  turn,       \* toolCalls and currentTC of streamAssistantTurn
  ended       \* "no", "last" or "short" while the accumulated calls are sent
              \* after [DONE] or without it, "done", "cut" or "error"

wireVars == <<dialect, style, calls>>
toolStreamVars == <<wireVars, at, blocks, turn, ended>>

---------------------------------------------------------------------------
(* The wire (external).                                                    *)

Made == UNION {[1..n -> [name : Tools, pieces : 0..MaxPieces]] : n \in 0..MaxCalls}

\* An OpenAI server writes one entry per line, the first one with empty
\* arguments; other servers put the first piece, or all calls, into one line.
Styles(d) ==
  CASE d = "anthropic" -> {"blocks"}
    [] d = "google"    -> {"parts"}
    [] OTHER           -> {"plain", "eager", "together"}

Prefix(k, n) == [p \in 1..n |-> <<k, p>>]
Whole(k) == Prefix(k, calls[k].pieces)
Piece(k, p) == IF p \in 1..calls[k].pieces THEN <<<<k, p>>>> ELSE <<>>

\* One tool_calls entry or content block event of call k: its start bears id
\* and name; args are the pieces it carries.
Entry(type, k, start, args) == [type |-> type, call |-> k, start |-> start, args |-> args]

EntryOf(k, line) ==
  CASE style = "blocks" ->
         Entry(IF line = 0 THEN "start" ELSE IF line > calls[k].pieces THEN "stop" ELSE "delta",
               k, line = 0, Piece(k, line))
    [] style = "plain"  -> Entry("delta", k, line = 0, Piece(k, line))
    [] style = "eager"  -> Entry("delta", k, line = 0, Piece(k, line + 1))
    [] style = "together" -> Entry("delta", k, TRUE, Whole(k))
    [] style = "parts"  -> Entry("whole", k, TRUE, Whole(k))

LastLine(k) ==
  CASE style = "blocks" -> calls[k].pieces + 1
    [] style = "plain"  -> calls[k].pieces
    [] style = "eager" /\ calls[k].pieces > 0 -> calls[k].pieces - 1
    [] OTHER -> 0

AllWritten == at.call > Len(calls)
NextEntry == IF AllWritten THEN Entry("done", 0, FALSE, <<>>) ELSE EntryOf(at.call, at.line)

After == IF at.line < LastLine(at.call) THEN [at EXCEPT !.line = @ + 1]
                                        ELSE [call |-> at.call + 1, line |-> 0]

\* The place of the entry in its line, and the entries of that line.
Place == IF style = "together" THEN at.call ELSE 1
Width == IF style = "together" THEN Len(calls) ELSE 1

\* Nothing happens in the middle of a line.
BetweenLines == style = "together" => at.call = 1 \/ AllWritten

---------------------------------------------------------------------------
(* Helpers of the adapters.                                                *)

\* {}, the canonical empty object
NoArguments == <<<<0, 0>>>>

\* NormalizeArguments keeps a valid object and answers {} for all the rest.
NormalizeArguments(args) ==
  IF args # <<>> /\ \E k \in DOMAIN calls : args = Whole(k) THEN args ELSE NoArguments

\* Gemini has no ids; the adapter takes the name.
CallID(k) == IF dialect = "google" THEN calls[k].name ELSE k

ToolCall(k, args) == [id |-> CallID(k), name |-> calls[k].name, args |-> args]

Normalized(tc) == [tc EXCEPT !.args = NormalizeArguments(@)]

\* Variant: every entry goes to the first place.
FirstIndex == 1

\* The key of an entry.  The wire's index field is not read: the compatible
\* adapters take the place in the line, and openai the first place, or the
\* last place with an id if the line has several entries, which all have one.
CompatIndex == Place
OpenAIIndex == Width

\* One entry of a delta: a new block, or id, name and arguments of the old one.
Accumulated(idx, e) ==
  LET old == IF idx \in DOMAIN blocks THEN blocks[idx] ELSE ToolCall(e.call, <<>>)
      new == IF e.start THEN ToolCall(e.call, old.args \o e.args)
                        ELSE [old EXCEPT !.args = @ \o e.args]
  IN  [j \in DOMAIN blocks \cup {idx} |-> IF j = idx THEN new ELSE blocks[j]]

Without(idx) == [j \in DOMAIN blocks \ {idx} |-> blocks[j]]

\* streamAssistantTurn, the loop over the chunks: one with the id of the call
\* before it continues that call.
Collect(list, tc) ==
  LET n == Len(list)
  IN  IF n > 0 /\ list[n].id = tc.id
      THEN [list EXCEPT ![n] = [@ EXCEPT !.args = @ \o tc.args, !.name = tc.name]]
      ELSE Append(list, tc)

---------------------------------------------------------------------------
(* parseSSE, and the loop that takes what it sends.                        *)

ToolStreamInit ==
  /\ dialect \in Dialects
  /\ style \in Styles(dialect)
  /\ calls \in Made
  /\ at = [call |-> 1, line |-> 0]
  /\ blocks = <<>>
  /\ turn = <<>>
  /\ ended = "no"

Reads(type) ==
  /\ ended = "no"
  /\ NextEntry.type = type
  /\ UNCHANGED wireVars

OpenAIReadsDelta ==
  /\ dialect = "openai" /\ Reads("delta")
  /\ at' = After
  /\ blocks' = Accumulated(OpenAIIndex, NextEntry)
  /\ UNCHANGED <<turn, ended>>

CompatReadsDelta ==
  /\ dialect = "compat" /\ Reads("delta")
  /\ at' = After
  /\ blocks' = Accumulated(CompatIndex, NextEntry)
  /\ UNCHANGED <<turn, ended>>

\* [DONE]
OpenAIReadsDone ==
  /\ dialect \in {"openai", "compat"} /\ Reads("done")
  /\ ended' = "last"
  /\ UNCHANGED <<at, blocks, turn>>

\* The body ends without an error: openai and its kin go on with the calls as
\* far as they came.
OpenAIEndOfFile ==
  /\ dialect \in {"openai", "compat"} /\ ended = "no" /\ BetweenLines
  /\ ended' = "short"
  /\ UNCHANGED <<wireVars, at, blocks, turn>>

\* The range over toolAccum takes every block once, in the order of a Go map;
\* blocks keeps those that it has not come to.
OpenAISends ==
  /\ ended \in {"last", "short"}
  /\ \E idx \in DOMAIN blocks :
       /\ turn' = Collect(turn, Normalized(blocks[idx]))
       /\ blocks' = Without(idx)
  /\ UNCHANGED <<wireVars, at, ended>>

OpenAISendsDone ==
  /\ ended \in {"last", "short"} /\ DOMAIN blocks = {}
  /\ ended' = IF ended = "last" THEN "done" ELSE "cut"
  /\ UNCHANGED <<wireVars, at, blocks, turn>>

\* content_block_start: the block is keyed by the index of the event.
AnthropicStarts ==
  /\ dialect = "anthropic" /\ Reads("start")
  /\ at' = After
  /\ blocks' = [j \in DOMAIN blocks \cup {at.call} |->
                  IF j = at.call THEN ToolCall(j, <<>>) ELSE blocks[j]]
  /\ UNCHANGED <<turn, ended>>

\* content_block_delta with input_json_delta
AnthropicReadsDelta ==
  /\ dialect = "anthropic" /\ Reads("delta")
  /\ at' = After
  /\ blocks' = [blocks EXCEPT ![at.call].args = @ \o NextEntry.args]
  /\ UNCHANGED <<turn, ended>>

\* content_block_stop sends the call and forgets the block.
AnthropicStops ==
  /\ dialect = "anthropic" /\ Reads("stop")
  /\ at' = After
  /\ turn' = Collect(turn, Normalized(blocks[at.call]))
  /\ blocks' = Without(at.call)
  /\ UNCHANGED ended

\* message_stop
AnthropicReadsDone ==
  /\ dialect = "anthropic" /\ Reads("done")
  /\ ended' = "done"
  /\ UNCHANGED <<at, blocks, turn>>

\* A function call of Gemini comes whole and is sent at once.
GoogleReadsCall ==
  /\ dialect = "google" /\ Reads("whole")
  /\ at' = After
  /\ turn' = Collect(turn, Normalized(ToolCall(at.call, NextEntry.args)))
  /\ UNCHANGED <<blocks, ended>>

\* The body ends without an error, which for google is the end.  Anthropic
\* sends Done as well, whatever was missing.
BlocksEndOfFile ==
  /\ dialect \in {"anthropic", "google"} /\ ended = "no"
  /\ ended' = IF dialect = "google" /\ AllWritten THEN "done" ELSE "cut"
  /\ UNCHANGED <<wireVars, at, blocks, turn>>

\* The read fails, or the context is done when the next line has come.
StreamFails ==
  /\ ended = "no" /\ BetweenLines
  /\ ended' = "error"
  /\ UNCHANGED <<wireVars, at, blocks, turn>>

ToolStreamNext ==
  \/ OpenAIReadsDelta \/ CompatReadsDelta \/ OpenAIReadsDone
  \/ OpenAIEndOfFile \/ OpenAISends \/ OpenAISendsDone
  \/ AnthropicStarts \/ AnthropicReadsDelta \/ AnthropicStops \/ AnthropicReadsDone
  \/ GoogleReadsCall
  \/ BlocksEndOfFile \/ StreamFails

ToolStreamSpec == ToolStreamInit /\ [][ToolStreamNext]_toolStreamVars

\* The message is made once the loop has ended without an error.
TurnMade == ended \in {"done", "cut"}

---------------------------------------------------------------------------
\* The streams an adapter can tell the calls of apart in: Anthropic's blocks
\* have an index, a compatible server may write all calls into one line,
\* Gemini's calls must have different names, one call needs no key.
Keyed ==
  \/ dialect = "anthropic"
  \/ dialect = "compat" /\ style = "together"
  \/ dialect = "google" /\ \A j, k \in DOMAIN calls :
                              calls[j].name = calls[k].name => j = k
  \/ Len(calls) <= 1

Own(k) == ToolCall(k, IF calls[k].pieces = 0 THEN NoArguments ELSE Whole(k))

\* The loop gets what the model said: each call once, with its own id, name
\* and whole arguments, and in order where the adapter keeps one.
CallsArrive ==
  ended = "done" /\ Keyed =>
    /\ Len(turn) = Len(calls)
    /\ \A k \in DOMAIN calls : \E i \in DOMAIN turn : turn[i] = Own(k)
    /\ dialect \in {"anthropic", "google"} => \A k \in DOMAIN calls : turn[k] = Own(k)

\* A stream that was cut never hands on half an object: a call that comes out
\* of it is a call of the model, with all of its arguments or with none, and
\* Anthropic's unfinished block does not come out at all.
CutNeverHalves ==
  ended = "cut" /\ Keyed =>
    \A i \in DOMAIN turn : \E k \in DOMAIN calls :
      /\ turn[i] = Own(k) \/ turn[i] = ToolCall(k, NoArguments)
      /\ dialect = "anthropic" => turn[i] = Own(k)

\* A call never runs with arguments that were meant for another one.
CallsKeptApart ==
  TurnMade =>
    \A i \in DOMAIN turn : \E k \in DOMAIN calls :
      turn[i] \in {Own(k), ToolCall(k, NoArguments)}

\* What reaches a tool is what the model asked for, whole or not at all.
CallsWhole == CallsArrive /\ CutNeverHalves
===========================================================================
