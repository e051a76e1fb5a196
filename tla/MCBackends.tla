----------------------------- MODULE MCBackends -----------------------------
(***************************************************************************)
(* The three places where the process meets a backend: the chain of        *)
(* providers with its breakers, the stream of tool calls of a provider,    *)
(* and the databases behind their tunnels.  They share no variable, so     *)
(* that one run takes them side by side: a behaviour is one of Fallback,   *)
(* of ToolStream or of DbTunnels, and the two others stay in an initial    *)
(* state, where nothing of theirs is enabled that their fairness is about. *)
(***************************************************************************)
EXTENDS Fallback, ToolStream, DbTunnels

VARIABLE part

\* Two tunnels and a direct endpoint; the second tunnel repeats a name.
MCNameOf == [e \in Endpoints |-> IF e = 3 THEN "cache" ELSE "main"]
MCWay == [e \in Endpoints |-> IF e = 3 THEN "direct" ELSE "k8s"]

BackendsInit ==
  /\ FallbackInit /\ ToolStreamInit /\ TunnelInit
  /\ part \in {"fallback", "stream", "tunnels"}
  /\ part # "stream" => dialect = "anthropic" /\ calls = <<>>

BackendsNext ==
  /\ UNCHANGED part
  /\ \/ part = "fallback" /\ FallbackNext /\ UNCHANGED <<toolStreamVars, tunnelVars>>
     \/ part = "stream" /\ ToolStreamNext /\ UNCHANGED <<fallbackVars, tunnelVars>>
     \/ part = "tunnels" /\ TunnelNext /\ UNCHANGED <<fallbackVars, toolStreamVars>>

BackendsSpec ==
  /\ BackendsInit
  /\ [][BackendsNext]_<<fallbackVars, toolStreamVars, tunnelVars, part>>
  /\ FallbackFairness /\ TunnelFairness
=============================================================================
