------------------------------ MODULE FleetApi ------------------------------
(***************************************************************************)
(* The fleet API of the operator beside its writes                         *)
(* (auspex-operator/src/main.rs): which requests are admitted, what the    *)
(* read-only handlers show, and the ACP proxy, which resolves an agent,    *)
(* upgrades, connects to the agent and moves frames both ways until one    *)
(* way ends.  Agents are edited, rotated and deleted at any moment.        *)
(***************************************************************************)
EXTENDS Integers, Sequences, FiniteSets

CONSTANTS
    FleetAgents,        \* OmegonAgent resources, NamespaceOf gives where they live
    NamespaceOf,
    WatchNamespace, \* the namespace of the operator, or AllNamespaces
    AllNamespaces,
    ApiToken,      \* whether AUSPEX_API_TOKEN is configured
    MaxFleetEdits,      \* edits of agents altogether
    MaxFrames      \* frames each end of a proxy sends

VARIABLES
    agent,    \* the resources, and the revision of their TLS Secret
    pod,      \* external: what answers at the service of an agent
    answer,   \* the last answer of a read-only handler
    proxy,    \* the ACP proxy
    fleetEdits

flVars == <<agent, pod, answer, proxy, fleetEdits>>

Credentials == {"header", "query", "none"}
Modes == {"daemon", "job"}

\* request_has_valid_api_auth: the bearer header, or a token in the query of a WebSocket
\* upgrade; without a configured token every request passes.
request_has_valid_api_auth(credential, upgrade) ==
    ApiToken => credential = "header" \/ (credential = "query" /\ upgrade)

\* namespace_scope_error
namespace_scope_error(a) ==
    WatchNamespace # AllNamespaces /\ NamespaceOf[a] # WatchNamespace

\* Api::namespaced or Api::all: what a list sees.
Listed == {a \in FleetAgents : agent[a].st = "present" /\ ~namespace_scope_error(a)}

\* acp and ready: the agents whose steps "ACP reachable" and "Pod ready" are ok.
NoAnswer == [st |-> "none", credential |-> "none", shown |-> {}, acp |-> {}, ready |-> {}]

\* A direction of the proxy: frames sent by its source, those its pump holds and those
\* its sink got.
NoFrames == [sent |-> 0, taken |-> 0, held |-> {}, got |-> <<>>]
NoProxy == [phase |-> "none", to |-> CHOOSE a \in FleetAgents : TRUE, credential |-> "none",
            tls |-> "off", epoch |-> 0, up |-> NoFrames, down |-> NoFrames,
            client |-> TRUE, upstream |-> FALSE]

FlInit ==
    /\ agent = [a \in FleetAgents |-> [st |-> "present", mode |-> "daemon", tls |-> "off", epoch |-> 0]]
    /\ pod = [a \in FleetAgents |-> [up |-> FALSE, tls |-> "off", epoch |-> 0]]
    /\ answer = NoAnswer
    /\ proxy = NoProxy
    /\ fleetEdits = 0

----------------------------------------------------------------------------
Refused == [NoAnswer EXCEPT !.st = "refused"]

\* A handler about one agent: out of scope or not there is an error.
ShowsOne(a, credential) ==
    IF namespace_scope_error(a) \/ agent[a].st = "absent" THEN Refused
    ELSE [NoAnswer EXCEPT !.st = "ok", !.credential = credential, !.shown = {a}]

agent_detail_handler(a, credential) == ShowsOne(a, credential)
agent_control_plane_handler(a, credential) == ShowsOne(a, credential)
sbom_handler(a, credential) == ShowsOne(a, credential)

\* Handlers about all agents of the scope.
ShowsListed(credential) == [NoAnswer EXCEPT !.st = "ok", !.credential = credential, !.shown = Listed]

audit_handler(credential) == ShowsListed(credential)
secret_grants_handler(credential) == ShowsListed(credential)

\* A read-only request: refused by the layer in front of the routes, or answered.
Read(a, credential) ==
    /\ answer = NoAnswer
    /\ \E ans \in IF request_has_valid_api_auth(credential, FALSE)
                  THEN {agent_detail_handler(a, credential), agent_control_plane_handler(a, credential),
                        sbom_handler(a, credential), audit_handler(credential), secret_grants_handler(credential)}
                  ELSE {Refused} : answer' = ans
    /\ UNCHANGED <<agent, pod, proxy, fleetEdits>>

\* managed_agent_control_plane: an address is published for every daemon.
managed_agent_control_plane(a) == agent[a].mode = "daemon"

\* fleet_handler: the agents are listed first...
FleetListed(credential) ==
    /\ answer = NoAnswer /\ request_has_valid_api_auth(credential, FALSE)
    /\ answer' = [NoAnswer EXCEPT !.st = "listing", !.credential = credential, !.shown = Listed,
                                  !.acp = {a \in Listed : managed_agent_control_plane(a)}]
    /\ UNCHANGED <<agent, pod, proxy, fleetEdits>>

\* ... and the Deployment of each daemon is asked for afterwards: its ready replicas.
managed_agent_lifecycle ==
    /\ answer.st = "listing"
    /\ answer' = [answer EXCEPT !.st = "ok", !.ready = {a \in answer.acp : pod[a].up}]
    /\ UNCHANGED <<agent, pod, proxy, fleetEdits>>

Answered ==
    /\ answer.st \in {"refused", "ok"}
    /\ answer' = NoAnswer
    /\ UNCHANGED <<agent, pod, proxy, fleetEdits>>

\* resolve_managed_agent_acp_proxy_target, then the upgrade: a daemon in scope; its scheme,
\* and what its TLS Secret holds at this moment, go into the target.
AcpUpgrade(a, credential) ==
    /\ proxy.phase = "none"
    /\ request_has_valid_api_auth(credential, TRUE)
    /\ ~namespace_scope_error(a) /\ agent[a].st = "present" /\ agent[a].mode = "daemon"
    /\ proxy' = [NoProxy EXCEPT !.phase = "connecting", !.to = a, !.credential = credential,
                                !.tls = agent[a].tls, !.epoch = agent[a].epoch]
    /\ UNCHANGED <<agent, pod, answer, fleetEdits>>

\* proxy_acp_websocket reaches the agent: it speaks the scheme of the target, and the
\* certificate is the one in the Secret or one of its CA.
Reaches(a) ==
    /\ pod[a].up /\ pod[a].tls = proxy.tls
    /\ proxy.tls = "tls" => pod[a].epoch = proxy.epoch

AcpConnect ==
    /\ proxy.phase = "connecting"
    /\ proxy' = IF Reaches(proxy.to)
                THEN [proxy EXCEPT !.phase = "open", !.upstream = TRUE]
                ELSE [proxy EXCEPT !.phase = "closed"]
    /\ UNCHANGED <<agent, pod, answer, fleetEdits>>

SourceOpen(d) == IF d = "up" THEN proxy.client ELSE proxy.upstream
SinkOpen(d) == IF d = "up" THEN proxy.upstream ELSE proxy.client
Directions == {"up", "down"}

\* An end of the proxy sends a frame, or goes away.
EndSends(d) ==
    /\ proxy.phase = "open" /\ SourceOpen(d) /\ proxy[d].sent < MaxFrames
    /\ proxy' = [proxy EXCEPT ![d].sent = @ + 1]
    /\ UNCHANGED <<agent, pod, answer, fleetEdits>>

EndLeaves(d) ==
    /\ proxy.phase = "open" /\ SourceOpen(d)
    /\ proxy' = IF d = "up" THEN [proxy EXCEPT !.client = FALSE]
                            ELSE [proxy EXCEPT !.upstream = FALSE]
    /\ UNCHANGED <<agent, pod, answer, fleetEdits>>

\* One turn of client_to_upstream or upstream_to_client: the next frame of the source...
PumpTakes(d) ==
    /\ proxy.phase = "open" /\ proxy[d].held = {} /\ proxy[d].taken < proxy[d].sent
    /\ proxy' = [proxy EXCEPT ![d].taken = @ + 1, ![d].held = {proxy[d].taken + 1}]
    /\ UNCHANGED <<agent, pod, answer, fleetEdits>>

\* ... is given to the sink.
PumpGives(d) ==
    /\ proxy.phase = "open" /\ SinkOpen(d)
    /\ \E f \in proxy[d].held :
          proxy' = [proxy EXCEPT ![d].held = @ \ {f}, ![d].got = Append(@, f)]
    /\ UNCHANGED <<agent, pod, answer, fleetEdits>>

\* A direction ends: its source is gone and read to the end, or its sink refuses a frame.
PumpEnded(d) ==
    \/ ~SourceOpen(d) /\ proxy[d].held = {} /\ proxy[d].taken = proxy[d].sent
    \/ ~SinkOpen(d) /\ proxy[d].held # {}

\* Mutant: both directions are waited for.
SelectWaitsForBoth ==
    /\ proxy.phase = "open" /\ \A d \in Directions : PumpEnded(d)
    /\ proxy' = [NoProxy EXCEPT !.phase = "closed"]
    /\ UNCHANGED <<agent, pod, answer, fleetEdits>>

\* select!: the first direction that ends ends both, whatever the other one holds, and
\* dropping the sockets closes both ends.
SelectEnds ==
    /\ proxy.phase = "open" /\ \E d \in Directions : PumpEnded(d)
    /\ proxy' = [NoProxy EXCEPT !.phase = "closed"]
    /\ UNCHANGED <<agent, pod, answer, fleetEdits>>

NextProxy ==
    /\ proxy.phase = "closed"
    /\ proxy' = NoProxy
    /\ UNCHANGED <<agent, pod, answer, fleetEdits>>

\* The resource is changed, its Secret with it, and the pod restarted later.
EditAgent(a, mode, tls) ==
    /\ fleetEdits < MaxFleetEdits /\ fleetEdits' = fleetEdits + 1
    /\ agent' = [agent EXCEPT ![a] = [st |-> "present", mode |-> mode, tls |-> tls, epoch |-> fleetEdits + 1]]
    /\ UNCHANGED <<pod, answer, proxy>>

DeleteAgent(a) ==
    /\ fleetEdits < MaxFleetEdits /\ fleetEdits' = fleetEdits + 1 /\ agent[a].st = "present"
    /\ agent' = [agent EXCEPT ![a].st = "absent"]
    /\ UNCHANGED <<pod, answer, proxy>>

\* The pod of an agent follows its resource; a proxy to the old pod loses its upstream.
PodFollows(a) ==
    /\ LET up == agent[a].st = "present" /\ agent[a].mode = "daemon"
           new == [up |-> up, tls |-> agent[a].tls, epoch |-> agent[a].epoch]
       IN  pod[a] # new /\ pod' = [pod EXCEPT ![a] = new]
    /\ proxy' = IF proxy.phase = "open" /\ proxy.to = a THEN [proxy EXCEPT !.upstream = FALSE] ELSE proxy
    /\ UNCHANGED <<agent, answer, fleetEdits>>

FlNext ==
    \/ \E a \in FleetAgents, c \in Credentials : Read(a, c) \/ AcpUpgrade(a, c)
    \/ \E c \in Credentials : FleetListed(c)
    \/ managed_agent_lifecycle \/ Answered
    \/ AcpConnect \/ SelectEnds \/ NextProxy
    \/ \E d \in Directions : EndSends(d) \/ EndLeaves(d) \/ PumpTakes(d) \/ PumpGives(d)
    \/ \E a \in FleetAgents, mode \in Modes, tls \in {"off", "tls", "mtls"} : EditAgent(a, mode, tls)
    \/ \E a \in FleetAgents : DeleteAgent(a) \/ PodFollows(a)

\* The proxy is a task of the runtime: it goes on whenever it can.
FlFairness ==
    /\ WF_flVars(AcpConnect) /\ WF_flVars(SelectEnds)
    /\ \A d \in Directions : WF_flVars(PumpTakes(d)) /\ WF_flVars(PumpGives(d))

FlSpec == FlInit /\ [][FlNext]_flVars /\ FlFairness

----------------------------------------------------------------------------
\* The state is well formed; a pump holds at most one frame.
FlTypeOK ==
    /\ \A a \in FleetAgents : agent[a].st \in {"present", "absent"} /\ agent[a].mode \in Modes
    /\ answer.st \in {"none", "refused", "listing", "ok"} /\ answer.shown \subseteq FleetAgents
    /\ proxy.phase \in {"none", "connecting", "open", "closed"}
    /\ \A d \in Directions : proxy[d].held \subseteq 1..MaxFrames
    /\ proxy.phase # "open" => proxy.up.held = {} /\ proxy.down.held = {}

\* What an end of the ACP proxy has got is, in order and without a gap, the beginning of what
\* the other end sent, also when frames go both ways and a side leaves (proxy_acp_websocket).
FramesArePrefixes ==
    \A d \in Directions : \A i \in 1..Len(proxy[d].got) : proxy[d].got[i] = i

\* When either end leaves, the proxy closes the other one: it is not left open by a direction
\* that never says anything (the select! of proxy_acp_websocket).
ProxyEnds ==
    (proxy.phase = "open" /\ (~proxy.client \/ ~proxy.upstream)) ~> (proxy.phase = "closed")

\* Expected to fail.  An agent shown with the step "ACP reachable" answered when its workload
\* was looked at: the step is ok for every daemon, also one that has no pod.
AcpReachableIsReachable == answer.st = "ok" => answer.acp \subseteq answer.ready

\* A proxied conversation is passed on in order and without a gap, and ends for both as soon as
\* one of them leaves (proxy_acp_websocket).
ProxyIsFaithful == []FramesArePrefixes /\ ProxyEnds
=============================================================================
