----------------------------- MODULE DbTunnels -----------------------------
(***************************************************************************)
(* How the registry of tools gets its database clients, and what becomes   *)
(* of their tunnels: wiring.Rebuild and BuildRegistry, BuildClients and    *)
(* buildK8sClient (core/tools/db/client.go), OpenPortForward and Close     *)
(* (transport/k8sportfwd.go), Replace (wiring/registry.go).                *)
(*                                                                         *)
(* A call of Rebuild is made at boot, by every run of ChatOps and by every *)
(* /setup; calls may overlap.  Each endpoint of the configuration gets a   *)
(* goroutine with a deadline of its own, and a k8s:// endpoint a second    *)
(* one inside, which runs the port-forward until its stop channel closes.  *)
(* The API server and the databases (external) answer, fail or are silent. *)
(***************************************************************************)
EXTENDS Naturals, FiniteSets

CONSTANTS
  Rebuilds,    \* calls of Rebuild
  Endpoints,   \* cfg.Databases
  Names,       \* names of endpoints of one kind
  NameOf,      \* endpoint -> its Name, which the configuration may repeat
  Way,         \* endpoint -> "k8s", "direct" or "bad" (no name or no DSN)
  Nobody       \* no call, no endpoint

ASSUME DbTunnelsAssumption ==
  /\ IsFiniteSet(Endpoints)
  /\ NameOf \in [Endpoints -> Names]
  /\ Way \in [Endpoints -> {"k8s", "direct", "bad"}]
  /\ Nobody \notin Rebuilds \cup Endpoints

VARIABLES
  phase,     \* call -> "idle", "building", "using" its registry, "over"
  step,      \* call -> endpoint -> where its goroutine is
  expired,   \* call -> endpoint -> connectTimeout is over
  forward,   \* call -> endpoint -> pf.ForwardPorts
  stopped,   \* call -> endpoint -> stopCh is closed
  clients,   \* call -> name -> the endpoint whose client is in the map
  skips,     \* call -> endpoints with a skip reason
  active     \* the registry that Current returns, named by its call

buildVars == <<step, expired, forward, stopped, clients, skips>>
tunnelVars == <<phase, buildVars, active>>

Steps == {"off", "pod", "forward", "dial", "done"}
Running == {"dialing", "up"}

TunnelTypeOK ==
  /\ phase \in [Rebuilds -> {"idle", "building", "using", "over"}]
  /\ step \in [Rebuilds -> [Endpoints -> Steps]]
  /\ expired \in [Rebuilds -> [Endpoints -> BOOLEAN]]
  /\ forward \in [Rebuilds -> [Endpoints -> Running \cup {"off", "failed", "gone"}]]
  /\ stopped \in [Rebuilds -> [Endpoints -> BOOLEAN]]
  /\ clients \in [Rebuilds -> [Names -> Endpoints \cup {Nobody}]]
  /\ skips \in [Rebuilds -> SUBSET Endpoints]
  /\ active \in Rebuilds \cup {Nobody}
  /\ \A b \in Rebuilds, e \in Endpoints :
       Way[e] # "k8s" => forward[b][e] = "off" /\ ~stopped[b][e]

Each(x) == [b \in Rebuilds |-> [e \in Endpoints |-> x]]

TunnelInit ==
  /\ phase = [b \in Rebuilds |-> "idle"]
  /\ step = Each("off")
  /\ expired = Each(FALSE)
  /\ forward = Each("off")
  /\ stopped = Each(FALSE)
  /\ clients = [b \in Rebuilds |-> [n \in Names |-> Nobody]]
  /\ skips = [b \in Rebuilds |-> {}]
  /\ active = Nobody

---------------------------------------------------------------------------
(* BuildClients.                                                           *)

\* The loop over the endpoints: the bad ones, and without a hub the k8s ones,
\* are skipped at once, the others get their goroutine.
StartBuild(b, hub) ==
  LET refused == {e \in Endpoints : Way[e] = "bad" \/ (Way[e] = "k8s" /\ ~hub)}
  IN  /\ phase[b] = "idle"
      /\ phase' = [phase EXCEPT ![b] = "building"]
      /\ skips' = [skips EXCEPT ![b] = refused]
      /\ step' = [step EXCEPT ![b] =
                    [e \in Endpoints |-> IF e \in refused THEN "done"
                                         ELSE IF Way[e] = "k8s" THEN "pod" ELSE "dial"]]
      /\ UNCHANGED <<expired, forward, stopped, clients, active>>

Expire(b, e) ==
  /\ step[b][e] \in {"pod", "forward", "dial"} /\ ~expired[b][e]
  /\ expired' = [expired EXCEPT ![b][e] = TRUE]
  /\ UNCHANGED <<phase, step, forward, stopped, clients, skips, active>>

Goes(b, e, to) == step' = [step EXCEPT ![b][e] = to]

Skip(b, e) ==
  /\ Goes(b, e, "done")
  /\ skips' = [skips EXCEPT ![b] = @ \cup {e}]
  /\ UNCHANGED <<phase, expired, clients, active>>

\* SelectPod finds a ready pod, and OpenPortForward starts its goroutine.
PodSelected(b, e) ==
  /\ step[b][e] = "pod" /\ ~expired[b][e]
  /\ Goes(b, e, "forward")
  /\ forward' = [forward EXCEPT ![b][e] = "dialing"]
  /\ UNCHANGED <<phase, expired, stopped, clients, skips, active>>

\* A malformed DSN, an unknown context, no service, no ready pod, the deadline.
PodFails(b, e) ==
  /\ step[b][e] = "pod"
  /\ Skip(b, e)
  /\ UNCHANGED <<forward, stopped>>

\* The select of OpenPortForward: readyCh, errCh or ctx.Done, whichever is
\* ready, and any of those that are.
ForwardReady(b, e) ==
  /\ step[b][e] = "forward" /\ forward[b][e] = "up"
  /\ Goes(b, e, "dial")
  /\ UNCHANGED <<phase, expired, forward, stopped, clients, skips, active>>

ForwardError(b, e) ==
  /\ step[b][e] = "forward" /\ forward[b][e] \in {"failed", "gone"}
  /\ Skip(b, e)
  /\ UNCHANGED <<forward, stopped>>

\* Variant: the select does not look at the context.
NoTimeout(b, e) == FALSE

\* Variant: the stop channel is left open.
TimeoutLeaks(b, e) ==
  /\ step[b][e] = "forward" /\ expired[b][e]
  /\ Skip(b, e)
  /\ UNCHANGED <<forward, stopped>>

ForwardTimeout(b, e) ==
  /\ step[b][e] = "forward" /\ expired[b][e]
  /\ stopped' = [stopped EXCEPT ![b][e] = TRUE]
  /\ Skip(b, e)
  /\ UNCHANGED forward

\* dialPostgres, dialMySQL or dialRedis succeeds, and the client is stored.
Dialled(b, e) ==
  /\ step[b][e] = "dial" /\ ~expired[b][e]
  /\ Way[e] = "k8s" => forward[b][e] = "up"
  /\ clients' = [clients EXCEPT ![b][NameOf[e]] = e]
  /\ Goes(b, e, "done")
  /\ UNCHANGED <<phase, expired, forward, stopped, skips, active>>

HasTunnel(e) == Way[e] = "k8s"

\* It fails, or the kind is unknown: the tunnel is closed.
DialFails(b, e) ==
  /\ step[b][e] = "dial"
  /\ stopped' = [stopped EXCEPT ![b][e] = HasTunnel(e)]
  /\ Skip(b, e)
  /\ UNCHANGED forward

AllDone(b) == \A e \in Endpoints : step[b][e] = "done"

\* wg.Wait, then RegisterAll and Replace.
Publish(b) ==
  /\ phase[b] = "building"
  /\ AllDone(b)
  /\ phase' = [phase EXCEPT ![b] = "using"]
  /\ active' = b
  /\ UNCHANGED buildVars

\* The caller is done with the registry.  Nothing calls Close of a client or
\* CloseForwarders.
RunOver(b) ==
  /\ phase[b] = "using"
  /\ phase' = [phase EXCEPT ![b] = "over"]
  /\ UNCHANGED <<buildVars, active>>

---------------------------------------------------------------------------
(* The goroutine of the port-forward.                                      *)

ForwardMoves(b, e, to) ==
  /\ forward' = [forward EXCEPT ![b][e] = to]
  /\ UNCHANGED <<phase, step, expired, stopped, clients, skips, active>>

\* The upgrade of the connection takes no context; the stop channel is looked
\* at when it is there.
UpgradeEnds(b, e) ==
  /\ forward[b][e] = "dialing"
  /\ \/ ForwardMoves(b, e, "failed")
     \/ ~stopped[b][e] /\ ForwardMoves(b, e, "up")
     \/ stopped[b][e] /\ ForwardMoves(b, e, "gone")

ForwardStops(b, e) ==
  /\ forward[b][e] = "up" /\ stopped[b][e]
  /\ ForwardMoves(b, e, "gone")

\* The pod goes away.
ForwardBreaks(b, e) ==
  /\ forward[b][e] = "up" /\ ~stopped[b][e]
  /\ ForwardMoves(b, e, "gone")

---------------------------------------------------------------------------
EndpointStep(b, e) ==
  \/ PodSelected(b, e) \/ PodFails(b, e)
  \/ ForwardReady(b, e) \/ ForwardError(b, e) \/ ForwardTimeout(b, e)
  \/ Dialled(b, e) \/ DialFails(b, e)

TunnelNext ==
  \E b \in Rebuilds :
    \/ \E hub \in BOOLEAN : StartBuild(b, hub)
    \/ Publish(b) \/ RunOver(b)
    \/ \E e \in Endpoints :
         \/ EndpointStep(b, e) \/ Expire(b, e)
         \/ UpgradeEnds(b, e) \/ ForwardStops(b, e) \/ ForwardBreaks(b, e)

\* Deadlines pass, and drivers and the API client look at their context: a
\* goroutine that can move does.
TunnelFairness ==
  \A b \in Rebuilds :
    /\ WF_tunnelVars(Publish(b))
    /\ \A e \in Endpoints : WF_tunnelVars(EndpointStep(b, e)) /\ WF_tunnelVars(Expire(b, e))

TunnelSpec == TunnelInit /\ [][TunnelNext]_tunnelVars /\ TunnelFairness

---------------------------------------------------------------------------
Live(b, e) == forward[b][e] \in Running /\ ~stopped[b][e]

Owned(b, e) == clients[b][NameOf[e]] = e

\* A finished build has lost no tunnel: one that runs and was not told to stop
\* belongs to a client of the map, or to one that another endpoint of the same
\* name replaced there.
TunnelsOwned ==
  \A b \in Rebuilds, e \in Endpoints :
    phase[b] \in {"using", "over"} /\ Live(b, e) =>
      clients[b][NameOf[e]] # Nobody /\ e \notin skips[b]

\* The operator is told the truth: every endpoint has a skip reason or a
\* client under its name, and the endpoint of a client has no skip reason.
EveryEndpointAccounted ==
  \A b \in Rebuilds, e \in Endpoints :
    phase[b] \in {"using", "over"} =>
      /\ e \in skips[b] \/ clients[b][NameOf[e]] # Nobody
      /\ Owned(b, e) => e \notin skips[b]

\* Turns go on with the registry they took: once published, no late goroutine
\* changes its clients.
PublishedFrozen ==
  [][\A b \in Rebuilds :
       phase[b] \in {"using", "over"} =>
         clients'[b] = clients[b] /\ skips'[b] = skips[b]]_tunnelVars

\* A silent database or API server delays a build, and ends it no later than
\* its deadline.
BuildEnds == \A b \in Rebuilds : phase[b] = "building" ~> phase[b] = "using"

\* A finished build has lost neither a tunnel nor an endpoint.
TunnelsAccounted == TunnelTypeOK /\ TunnelsOwned /\ EveryEndpointAccounted

\* A build ends, and is final then.
BuildsSettle == BuildEnds /\ PublishedFrozen
===========================================================================
