----------------------------- MODULE MCTuiTurns -----------------------------
(***************************************************************************)
(* The turns of the TUI and what it shows of them, side by side: TuiTurns  *)
(* and Transcript abstract the same loop, one from the screen and one from *)
(* the runs, and share no variable.  A behaviour is one of TuiTurns or one *)
(* of Transcript, and the other stays in an initial state.                 *)
(***************************************************************************)
EXTENDS TuiTurns, Transcript

CONSTANTS k1

VARIABLE part

\* The bounds of a part: two turns, of which the first may send prose, a tool
\* with its observation and prose again, or three turns with two items.
MCMaxItems == <<4, 1, 0>>
Bounded ==
  \/ part = "long" /\ submitted' <= 2 /\ sent'[2] = 0
  \/ part = "short" /\ sent'[1] <= 2

TuiInit ==
  /\ Init /\ TranscriptInit
  /\ part \in {"turns", "long", "short"}
  /\ part = "turns" => model

TuiNext ==
  /\ UNCHANGED part
  /\ \/ part = "turns" /\ Next /\ UNCHANGED transcriptVars
     \/ part # "turns" /\ TranscriptNext /\ Bounded /\ UNCHANGED vars

TuiSpec ==
  /\ TuiInit /\ [][TuiNext]_<<vars, transcriptVars, part>>
  /\ Fairness /\ TranscriptFairness
=============================================================================
