------------------------------ MODULE MCAgent -------------------------------
(***************************************************************************)
(* The loop of the agent, the tool that correlates what went wrong with    *)
(* what was changed, and the questions of the terminal UI, side by side:   *)
(* they share no variable, since to the loop a tool is its observation and *)
(* an approval its outcome.  A behaviour is one of AgentLoop, of Correlate *)
(* or of ApprovalGate, and the two others stay in an initial state.        *)
(***************************************************************************)
EXTENDS AgentLoop, Correlate, ApprovalGate

CONSTANTS list, logs, perf

VARIABLE part

\* perf is RiskHigh, logs asks for too many lines, list is harmless.
All == {Calls}

AgentInit ==
  /\ Init /\ CorrelateInit /\ ApprovalInit
  /\ part \in {"loop", "correlate", "approval"}
  /\ part # "correlate" => limit = 2

AgentNext ==
  /\ UNCHANGED part
  /\ \/ part = "loop" /\ Next /\ UNCHANGED <<correlateVars, approvalVars>>
     \/ part = "correlate" /\ CorrelateNext /\ UNCHANGED <<vars, approvalVars>>
     \/ part = "approval" /\ ApprovalNext /\ UNCHANGED <<vars, correlateVars>>

AgentSpec == AgentInit /\ [][AgentNext]_<<vars, correlateVars, approvalVars, part>>
=============================================================================
