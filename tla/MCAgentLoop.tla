---------------------------- MODULE MCAgentLoop ----------------------------
(***************************************************************************)
(* What a run may do, and with which tools: the gates of the loop of the   *)
(* agent, and the permission profiles, side by side.  They share no        *)
(* variable, since to the loop a profile is what it leaves of a registry.  *)
(* A behaviour is one of AgentLoop or of ProfileScope, and the other stays *)
(* in an initial state, where nothing is enabled that the fairness of the  *)
(* loop is about.  Of ProfileScope it is either the terminal UI beside     *)
(* `cloudy profile`, or one-shot runs beside it: neither of the two reads  *)
(* what the other writes.                                                  *)
(***************************************************************************)
EXTENDS AgentLoop, ProfileScope, TLC

CONSTANTS list, logs, perf, narrow, wide, broken, n1, n2

VARIABLE part

\* perf is RiskHigh, logs asks for too many lines, list is harmless.
WithoutPerf == {Calls, Calls \ {perf}}

\* One profile allows a single tool and masks by patterns of its own, one
\* denies that tool, and one has patterns that do not compile.
MCAllowOf == [p \in AllRules |-> IF p = narrow THEN {1} ELSE {}]
MCDenyOf == [p \in AllRules |-> IF p = wide THEN {1} ELSE {}]
MCLinesOf == narrow :> 1 @@ wide :> 3 @@ broken :> 0 @@ NoRules :> 0
MCPatternsOf == narrow :> "own" @@ wide :> "none" @@ broken :> "bad" @@ NoRules :> "none"
MCSkillTools == {{1}, ScopeTools}

GatesInit ==
  /\ Init /\ ProfileInit
  /\ part \in {"loop", "ui", "runs"}
  /\ part = "loop" => marker = NoName
  /\ part # "ui" => pinned = NoName
  /\ part # "loop" => registry = Calls
  /\ rulesIn = n1 :> narrow @@ n2 :> wide

GatesNext ==
  /\ UNCHANGED part
  /\ \/ part = "loop" /\ Next /\ UNCHANGED profileVars
     \/ part = "ui" /\ (CommandNext \/ UiNext) /\ UNCHANGED vars
     \/ part = "runs" /\ (CommandNext \/ RunNext) /\ UNCHANGED vars

GatesSpec ==
  GatesInit /\ [][GatesNext]_<<vars, profileVars, part>> /\ Fairness
=============================================================================
