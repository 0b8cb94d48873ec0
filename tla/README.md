# Auspex in TLA+

Auspex is a console for Omegon agents: a desktop or web application that
supervises a fleet of agents on behalf of an operator, and a Kubernetes
operator that runs agents in a cluster. This directory holds TLA+ models of
the parts of Auspex that keep state under concurrency and failure, TLC
configurations that check them on small instances, and TLAPS proofs about most
of them for every instance. Source paths are relative to the root of
the repository.

- [The system](#the-system)
- [Modules and the code](#modules-and-the-code)
- [Runs](#runs)
- [Where the code and its documents disagree](#where-the-code-and-its-documents-disagree)
- [Fairness](#fairness)
- [Proofs](#proofs)
- [What is not modelled](#what-is-not-modelled)
- [Plan](#plan)

To repeat a check: `tlc -config ControlOneRun.cfg MCControl`. To repeat the
proofs: `tlapm` on each of the eight modules whose name ends in `Proofs`.

## The system

One application process runs one event loop (`src/app.rs`, 1399 on)
around one `AppController`. Each iteration drains what background tasks have
put into queues, applies it to the controller, and publishes the result. The
controller is never entered twice at once, so its handlers are atomic; the
difficulty lies in what the tasks, the agents and the network do between two
handlers, and in handlers that are split by an await. The Kubernetes operator,
the web proxy and the web page are separate programs, with awaits throughout.

| Component | State | Operations | Hard behaviour | Correct when |
|---|---|---|---|---|
| Managed run (`managed_agents.rs`) | state, task handle, worker | accept, observe, cancel, complete, fail, disconnect, reconnect, time out | answers that arrive in any state | ended runs stay ended, outcomes are the worker's |
| Supervision over the control WebSocket (`managed_agent_runtime.rs`, `controller.rs`, `event_stream.rs`) | runs, ledger of commands, per-instance session, outbox, inbox | dispatch, cancel, tick (expire, poll, replay), drain, connect, drop | replay of commands that were executed, answers of an instance that does not own the run, disconnection between any two steps | executed once; every delivery settles; nothing settled changes |
| Bridge and MQTT orchestrator (`managed_agent_bridge_server.rs`, `managed_agent_mutation_coordinator.rs`, `managed_agent_mqtt_orchestrator.rs`) | request channel, completed operations, actions, command and event channels, projection snapshot | mutate, query, send, apply, drain, publish, reconnect | two bounded channels that face each other; a broker that loses, repeats and reorders; a client that repeats an operation | one run per operation id; only the parent cancels; the loop keeps turning; the end of a task is noticed |
| Instance registry (`state_engine.rs`, `instance_registry.rs`, `controller.rs`, `bootstrap.rs`) | two copies of the registry, attached instances, selected route, event streams | session event, refresh, evaluate, probe (before and after the await), reconcile containers, attach, select, persist, restart | the two copies overwrite each other; probe results are applied to a registry that has moved on; the file may be torn | attached instances are known; the selected route is the operator's; what is gone is not reported ready |
| Primary session over IPC (`ipc_client.rs`, `command_transport.rs`, `remote_session.rs`) | connection, request queue, inbox, outstanding prompt, turn, snapshot frontier | connect, prompt, cancel, snapshot, event, refresh | timeout racing a late answer; an inbox that drops its oldest entry; a snapshot older than events already applied | a call runs once; no stale snapshot is installed; the composer comes back |
| Transcript, badge and audit ledger (`remote_session.rs`, `instance_session.rs`, `audit_timeline.rs`) | turns and blocks, chat, ledger in memory and on disk | one handler per event, append, load, restart | tools side by side, lost events, restarts, identifiers that recur after a reset | what is shown is what was said; each identifier is recorded once, with the block's first form |
| Dispatcher switch (`remote_session.rs`) | pending request, its number, the last binding | request, snapshot, reset, re-attach | late answers to earlier requests; numbers that begin again | a switch is answered, and within an attachment with its own answer |
| Session status (`controller.rs`, `remote_session.rs`, `telemetry.rs`, `app.rs`) | provider inventory of the session, of the settings, in the telemetry | snapshot, auth reading, login, submit, select route | three copies written by different handlers | no screen contradicts another about whether a prompt can be sent |
| Start-up and owned Omegon (`bootstrap.rs`) | environment, profile, child, pid file, port, bridge | discover, fetch, hello, spawn, adopt, sweep, restart, exit | a server replaced between two requests; crash between spawn and pid file | one server is attached; no orphan is left |
| Local discovery and launches (`local_omegon_discovery.rs`, `local_agent_ports.rs`, `oci_backend.rs`) | candidates, port file, containers | read, probe, merge, show, click, attach, allocate, create, start | processes come and go, and probes time out, while evidence is gathered; a port file without a lock | one card per runtime; a click attaches the runtime of its card; distinct ports |
| Secret grants (`secret_grants.rs`, `secret_orchestration.rs`) | grants and leases in memory and on disk | create, redeem, renew, revoke, reopen | failed and torn writes, racing workers | a grant is redeemed once, a revoked lease is not renewed |
| OmegonAgent operator (`auspex-operator/src/reconciler.rs`, `main.rs`, `crd.rs`, `identity.rs`) | watch cache, work under way, objects in the cluster, pod template | bootstrap, watch, reconcile (one API call at a time), requeue, deploy, patch, rotate | the resource changes between two calls; crash between two calls; objects created once and never updated | the objects converge to the resource and never go back; the pod can start |
| External agents (`auspex-operator/src/external.rs`) | status of each resource, timers | probe, patch status, requeue | the operator's own status write wakes it again; endpoint edited during a probe | status belongs to the endpoint; reachability converges |
| Fleet API and ACP proxy, armory overlays (`auspex-operator/src/main.rs`) | requests under way, one ConfigMap of overlays, a proxied socket | read, upsert, delete, plan, preflight, upgrade, pump | read-change-write without a version; two pumps and one select | another overlay is never touched; the proxy ends |
| COP surface (`cop_surface.rs`) | regions, layout, alert feeds | write, clear, layout, three projections | writers that alternate | one projection on screen |
| Web page and web proxy (`omegon_web_mock.rs`, `omegon_web_contract.rs`, `bin/omegon_web_proxy.rs`) | page signals, tasks, stream; token slot, calls, certificate | load, stream, prompt, refresh; forward, retry, bridge | answers in any order; a token another call replaces | a call is carried out once; the page shows what was accepted |
| Workflow builder (`src/workflow.rs`, `src/screens.rs`) | file, screen's signal, mounted editor, bodies on their way | open, edit, add from the palette, queue, receive, save, mount again | a change made in the editor while the screen replaces it | the plan shown beside "saved" is the file's |
| Console of the primary agent (`src/app.rs`, 4850 on and 5840 on) | staged settings, draft, flags, tasks | stage, apply, send, load the assistants | tasks that read the settings when they run and wait in the middle | no prompt without its settings; no flag without its task |
| Release agent (`release_agent.rs`) | preview file, approval | fetch, stage, approve, publish | a file staged again between two calls | what is published was approved |
| Pure policies, projections, wire types, views | none, or derived | decide, project, render | – | – |

How they interact. The controller calls the supervisor runtime and hands its
commands to the instance's event stream; the stream task puts transport events
and control messages into an inbox the loop drains. In A2A mode the primary
agent's tools reach the same runs through a Unix-socket bridge, a bounded
channel to the mutation coordinator, and the orchestrator's two channels. The
registry decides which instances are attached, and the loop opens and drops
event streams to follow it: `InstanceRegistry` models the decision (`links`),
and `ManagedAgentControl` takes it as an input (`Droppable` instances may be
dropped and reopened at any time). The primary session is reached over native
IPC or a WebSocket: `OmegonSession` composes the connection actor, the tasks
that use it, the app loop and the session. Its transcript, dispatcher switch
and status each read the same events but share no state that a property of two
of them relates, so they are modules of their own, fed by any sequence of
events. So are the workflow builder, which talks to nothing but its file and
its editor, and the console, which takes the session's report and transport as
inputs that change at any time. The Kubernetes operator shares no memory with
the application.

`PROJECT.json` lists every component, and the hazards of the code at the lines
where they bite, with the properties that would notice them going wrong.

## Modules and the code

| Module | Models |
|---|---|
| `ManagedAgentRun` | the run state machine, as operators shared by the two transports |
| `ManagedAgentControl` | supervision over the control WebSocket |
| `ManagedAgentA2a` | bridge, coordinator, app loop, orchestrator, broker, worker |
| `InstanceRegistry` | registry, lifecycle policy, probes, command routes, restart |
| `RequestChannel` | what a caller of Omegon may rely on (abstract) |
| `OmegonIpc`, `OmegonSession` | the IPC actor and its callers; the session and the app loop on top of it |
| `SessionTranscript`, `AuditTimeline` | transcript, chat, badge; the ledger they are recorded in |
| `DispatcherSwitch` | switching the dispatcher of a session |
| `SessionStatus` | provider readiness, settings, telemetry, the composer's refusals |
| `Bootstrap`, `OwnedOmegon` | how a session is found; the process Auspex starts and cleans up |
| `LocalDiscovery`, `LocalAgents` | cards for local runtimes; containers and their ports |
| `SecretGrants` | the file-backed broker and the preparation of a worker |
| `OperatorReconciler` | the OmegonAgent half of the operator, and the cluster |
| `AgentPod` | the pod template and the objects it mounts |
| `ExternalAgents` | the ExternalAgent half of the operator |
| `FleetApi`, `ArmoryOverlays` | read-only handlers and ACP proxy; overlays, plan, preflight |
| `CopSurface` | the common operating picture |
| `WebProxy`, `WebShell` | the local authority proxy; the browser page |
| `ReleaseAgent` | release previews, their approval and publication |
| `WorkflowEditor`, `AssistantConsole` | the workflow builder; the console of the primary agent |
| `ManagedAgentControlProofs`, `ManagedAgentA2aProofs`, `InstanceRegistryProofs`, `OmegonSessionProofs`, `OperatorReconcilerProofs` | theorems about the module of that name |
| `HostProofs` | theorems about `ReleaseAgent`, `ArmoryOverlays`, `LocalAgents`, `AgentPod` |
| `SurfacesProofs` | theorems about `WebProxy`, `AssistantConsole`, `WebShell`, `CopSurface`, `OwnedOmegon`, `SessionStatus`, `WorkflowEditor`, `LocalDiscovery`, `SessionTranscript` |
| `ConversationProofs` | theorems about `SecretGrants`, `DispatcherSwitch`, `FleetApi`, `ExternalAgents` |
| `Selections` | what a sequence keeps at some places, as recursive functions that can be reasoned about |
| `MCControl`, `MCA2a`, `MCRegistry`, `MCOperator`, `MCSession` | constants for TLC; `MCRegistry` has three worlds of `InstanceRegistry` |
| `MCHost`, `MCSurfaces`, `MCLive` | several independent components in one run |

A definition whose name is in lower case keeps the name of the method it
translates; a capitalised one names a step the code has no name for. The `map`
of `PROJECT.json` gives the source lines of each; the lines that declare a
component's state stand at the tuple of its variables (`copVars`, ...). An
operator whose comment begins with "Mutant:" is a plausible wrong version of
the definition after it, kept to show that a property can fail; no action uses
it. A property whose comment begins with "Expected to fail" states what a
document says and the code does not do; see
[below](#where-the-code-and-its-documents-disagree).

**ManagedAgentRun.** A method that returns `Err` changes nothing, so each
method is a pair: its acceptance condition and the run it leaves. `Cancelled`
with an unconfirmed termination is a state of its own, because `is_terminal`
tells it apart.

**ManagedAgentControl.** `run` and `ledger` are the supervisor runtime;
a command id is its position in the run's ledger, so a fresh id is always the
next one. `deadlineDue` says that the outer deadline
has passed. `session`, `link`, `outbox`, `events` and `answers` are the
per-instance stream task. `drain_all_instance_sessions` applies transport
events before control messages whatever their order of arrival, so there are two
queues and `ApplyControlMessage` waits for the first. `tick_managed_agents`
is one action that expires dispatches, cancels past the deadline, polls, and
replays what is overdue; which timers have elapsed is chosen freely. The
worker is external: it deduplicates command ids, executes, answers, may refuse
or be overloaded, and with `ConcurrentWorker` may let its answers overtake
each other. An instance may also send messages with the identities of a run it does
not own (`InstanceStrays`).

**ManagedAgentA2a.** `phase` is where the loop is in an iteration. Sending an
action awaits when the command channel is full, so it is a phase in which the
orchestrator runs; each `try_recv` is a step. `completed` is the coordinator's
record of operation ids; `told` (the runs clients were answered with) and
`asked` (the cancellations the parents requested) are history. The orchestrator's `owed` is the event it
awaits room for. The attach of the primary agent ends while the loop is
already serving clients, and replaces the controller and its runs
(`spawn_and_attach_omegon_with_bridge`). With `Reliable` FALSE the broker
drops, repeats and reorders.

**InstanceRegistry.** `reg` and `eng` are the two copies of the registry and
`att`, `selected` the engine's attached instances and route. Handlers are
functions from a controller record to a controller record, composed as the
code composes them, and an action applies one (`Becomes`). A probe round is
`ProbeTick` (collect targets), `probe_remote_instances` (the await) and
`ApplyProbeResults`; session events come between them. Times are ages, which
stop at `AbandonAfter`. `Restart` reads the file, which holds `reg` or, if
the write was torn, nothing.

**OmegonIpc and OmegonSession.** One actor owns the socket: it says hello,
fetches the state, and only then subscribes. Requests wait in a bounded queue;
the caller's two seconds and the actor's two seconds run independently, so an
answer may find nobody waiting. Events go to an inbox that forgets its oldest
entry when full (`saturated` remembers that). `loop` is the app loop: it drains
the inbox, applies each event, and then may await `get_state`, whose answer it
applies after newer events were queued. `ses` holds what the composer needs:
the prompt that has no turn yet, the acknowledgements, whether a turn runs, the
last authoritative snapshot. Omegon is external: a queue of prompts, one turn
at a time, prompts of other clients, restarts, session resets. `RequestChannel` is the abstract
specification of client and actor together (a call runs at most once, is
answered once, and is only said to be accepted or refused when it was), and
`IsRequestChannel` instantiates it with the state of the callers' tasks and
the number of times Omegon ran each call.

**SessionTranscript and AuditTimeline.** Each `Emit...` action is one handler
of `apply_session_event` followed by the refresh of the ledger and its save,
as in the code. A message is a number and the text of a delta the number of
its message, so a chat entry or tool card with the wrong content is visible.
The full inbox and a lost socket drop events (`MaxLost`). A ledger entry has
the content the block had when it was first refreshed, and as in the code it is
never changed: a block that is streamed or a tool that ends later has an older
entry, and after a reset, where turns are numbered from the start again, a block
may find its identifier taken by one of the session before. What is promised
until a reset is `LedgerHoldsFirstForms`: for each block on screen an entry of the
same kind and tool, whose text is the beginning of what is read.

**DispatcherSwitch.** A request carries a number and is shown as pending;
whether it was confirmed, refused or replaced is concluded from snapshots
(`reconcile_dispatcher_binding`). `told` is the last thing the operator read,
with the request that was pending when it was read (`wanted`, and in its `at`
the attachment it was made in). Within an attachment a confirmation is of that
request; across attachments, after which numbers begin at 1 again, it need not
be, and `ConfirmedOutlastsAttachments` shows it.

**SessionStatus.** `ses`, `settings` and `tele` are the three copies of the
provider inventory; `Panel` and `merged_provider_inventory` are what two
screens compute from them with code of their own. Names with a common first
word share a provider key, as in the code.

**Bootstrap.** One attach is a chain of requests (startup metadata, state,
hello, IPC state) between which the Omegon behind the address may be replaced
(`HostReplaced`); servers are numbered. A profile is prepared before an
Omegon is spawned. The module has no property of its own in the runs: that
native IPC is used with the server that said hello is one comparison in the code
(`bootstrap.rs:645`), and a property would only repeat it.

**OwnedOmegon.** Two Auspex processes share a process table, ports and the pid
file. `overlapped` remembers that both ran at once: the properties are about
processes that follow one another, and what overlapping ones do to each other
is `SweepsSpareTheLiving`. A restart that finds no binary ends the old process and
starts none (`RestartWithoutBinary`).

**LocalDiscovery and LocalAgents.** A discovery is a chain of steps: the pid file
is read, `ps` is run or fails, one address after the other is probed, and between
any two of them runtimes start, end, take over a port, a pid or an identity. A
probe answers or not (time-out, refusal, no descriptor). What was gathered is
merged by address and then by identity and shown as cards; a click gathers
it all again, looks for the card's identity or address, and probes once more
before it attaches. `listing` is history: what the discovery behind the cards had
read. A runtime's port may differ from that of its command line
(containers). `AllocateRead` and `AllocateWrite`
are the two halves of `allocate_local_agent_port`; `mixed` marks a launch that
read the file while another process was between the two. A port file whose write
was torn reads as empty, and one that cannot be written fails the allocation
(`PortWriteFails`); the record that follows a launch may fail too.

**SecretGrants.** `mem` and `file` are the broker's two copies. A method
changes `mem` and then writes; `WriteFails` leaves the file as it was or torn
while the broker lives on, `Torn` is a file no broker can open until a later
write replaces it, and `given` is what callers were handed.

**OperatorReconciler.** A resource carries a uid, a generation and the fields
of its spec whose change matters. `Plan` is the order in which reconcile
writes objects; `CreateMissing` models the objects that are created once and
never updated, `Apply` the server-side apply, `ApplyRefused` the calls the
cluster refuses (an immutable Job template, a field another manager owns).
Between any two steps an edit, a crash (`Crash`), another operator, or the
garbage collector may step in.

**AgentPod.** One agent, with its whole template: volumes, mounts, init
containers, sidecars, TLS, probes. `ReconcileSteps` lists the writes in order
with their conditions; the kubelet starts a pod once every volume that is not
optional can be mounted.

**ExternalAgents.** One reconcile is start, probe, patch; an endpoint that
`validate_endpoint` refuses is not probed. The patch changes
the resource if the status changed, and the change wakes the controller; that
`last_seen` differs every second is why `recent` is part of the status.

**FleetApi and ArmoryOverlays.** Frames of the ACP proxy are numbered per
direction; a pump holds at most one, and `SelectEnds` ends both when one side
has left. Overlay requests read the whole map, change it and apply it by force
in separate steps; `raced` holds the overlays that others changed between a
request's read and its apply. A preflight combines package, overlay and deploy
request as `docs/deployed-webui-control-plane.md:33` has it: it refuses an
overlay of another package, takes the namespace and image of the deploy request
before the overlay's, and judges scope and image policy by the manifest that comes
of it. An entry of the index that is distributed by OCI asks for approval
only if it names its artifact (`armory.rs:458`); that this leaves
others without a gate is `EveryOciPackageAsks`.

**CopSurface, WebProxy, WebShell, ReleaseAgent.** `log` remembers what an alert
feed was sent. `tokenSlot` is the one cached token of all calls; `disturbed`
marks a call during which the daemon restarted or another call filled the
slot. `page.set` and the tasks of the page are the signals of
`OmegonWebMockApp`; an answer is applied with the context its task was started
with. A release artifact carries a revision, and an approval the revision it
was given to. A write of the artifact may break off (`WriteBreaksOff`): the file
is as it was, or no reader parses it. A write that is cut after its frontmatter
and still parses, with a shorter body, is not in the model.

**WorkflowEditor.** A workflow exists four times: in the file, in the screen's
signal (with its validation and plan), in the editor mounted from the signal,
and in the bodies the editor has queued or sent. An edit starts the editor's
timer; when it fires the flow goes into the page's queue, from there to the
screen's task, and is saved when it is received. A node from the palette is
added to the signal and saved at once, and every change of the signal mounts
the editor again (`remount`) from what the signal holds. Node kinds keep their
role in the catalog, which is all that validation and the plan look at.

**AssistantConsole.** A click spawns a task, which begins when the executor
comes to it. Apply carries the settings of the click; Send reads them, and
the transport, when it runs (`RunSend`), sends them one by one, waits for
Omegon's state if it has IPC, and then sends the draft of that moment
(`SendsPrompt`). `outgoing` is everything handed to a transport, in order;
`arrived` is what Omegon has, in order over the stream only. `ver` counts the
changes of the settings, so that a property can tell older settings from newer
ones.

**MCHost, MCSurfaces, MCLive.** The components of each share no state. `part`
chooses one at the start and the others stay in an initial state, so a
behaviour is a behaviour of one component and the states are the sum, not the
product, of the components' states. Fairness in `MCLive` is guarded by `part`
alike. `MCRegistry` does the same with three populations of one module.

### The environment

What is not in this repository is modelled from how its code uses it. Besides
the definition `map` lists as external for a module, these are the definitions
of its environment:

| Module | Environment: definitions |
|---|---|
| `ManagedAgentControl` | a worker's control server and its delegate tasks: `TaskStates`, `DeliveryAnswers`, `Replies`, `Sends`, `Receives`, `Admits`, `Observations`, `CancelOutcomes`, `Worker...`, `TaskEnds`; other instances: `InstanceStrays` |
| `ManagedAgentA2a` | the broker: `AfterDelivery`, `MessageExpires`; the worker: `TaskStates`, `Reaches`, `TaskEnds`, `WorkerDispatch`, `WorkerCancel` |
| `InstanceRegistry` | `Older`, `TimePasses`, `HealthChanges`, `ConfigEdited`, `Calm` |
| `OperatorReconciler`, `ExternalAgents` | kube-rs: `Busy`, `WatchDelivers`, `ReconcileStarts`; the API server: `Exists`, `Current`, `Refuses`, `Write`, `Stored`; people: `Admin...`, `Edit`; the agent outside: `Turn` |
| `AgentPod` | the API server's validation: `Refused`; the kubelet: `NoPod`, `Mountable`, `Startable`, `PodStarts` |
| `RequestChannel`, `OmegonIpc` | Omegon, its process and socket: `RunCall`, `NewServer`, `ToActor`, `Handle...`, `StartTurn`, `EndTurn`, `ResetSession`, `OtherPrompt`, `Lag`, `CloseSocket`, `Crash`, `Restart` |
| `SessionTranscript`, `DispatcherSwitch`, `SessionStatus` | Omegon: `NewSession`, `Shown`, `Show`, `Perform`, `Refuse`, `OmegonChanges`; its credentials: `CredentialsChange` |
| `OwnedOmegon`, `Bootstrap`, `LocalDiscovery` | processes: `Dead`, `Unused`, `AllPids`, `NextPid`, `Crash`, `ChildServes`, `Terminates`, `UserServes`, `UserStops`, `HostReplaced`, `EditProfile`, `RuntimePids`, `Gone`, `PidsListening`, `StartsRuntime`, `StopsRuntime` |
| `LocalAgents`, `SecretGrants` | the container runtime: `NoContainer`, `RemoveContainer`; other programs: `Blurred`, `OtherListens`, `OtherLeaves`; the end of a process: `ProcessDies`, `TornFile`, `Stop` |
| `ArmoryOverlays` | an administrator: `EditByHand` |
| `FleetApi` | the two sockets and their ends: `SourceOpen`, `SinkOpen`, `EndSends`, `EndLeaves`; the cluster: `EditAgent`, `DeleteAgent`, `PodFollows` |
| `WebProxy`, `WebShell` | the browser: `NoCall`, `ActiveCalls`, `Begins`; the daemon: `NoHelper`, `Listening`, `DaemonRestarts`, `DaemonReturns`, `Accepts`, `Pushed`, `SurfacesChange`, `DaemonTakes`, `DaemonRefuses` |
| `ReleaseAgent` | its callers and GitHub: `NoRelease`, `Command`, `EditRelease`, `ReadPreview` |
| `WorkflowEditor` | the node catalog: `role_for`; the flow editor's bundle: `EditTo`, `Edit`, `TimerFires` |
| `AssistantConsole` | clicks, the session beside it, Omegon: `Idle`, `IsNextClick`, `Shift`, `Arrive` |

## Runs

Bounds are constants in the guards; the cfg files name them.

| Run | Instance and bounds | Checks | Distinct states |
|---|---|---|---|
| `control_one_run` | 1 run, 1 worker, 1 droppable instance, acks, 3 commands, 1 event in the inbox | `ExecutesOnce`, `TerminalIsFinal`, `SettledIsFinal` | 1.52M |
| `control_two_instances` | 2 instances that both send, receipts, 2 commands | `OutcomesAreReal` | 868k |
| `control_replay` | 1 of each, 2 commands, fair | `EveryCommandSettles` | 29k |
| `control_deadline` | as above | violates `DeadlineIsEnforced` | – |
| `a2a_bridge` | 1 parent, 2 operation ids, 1 run, channels of 1, unreliable broker | `OutcomesAreReal`, `OneRunPerOperation`, `TerminalIsFinal` | 2.8M |
| `a2a_live` | 2 parents, 3 (parent, operation) pairs, reliable broker, fair | `CancelledOnRequest`, `EndIsNoticed`, `LoopKeepsTurning` | 320k |
| `registry` | 2 hosts (one a detached service), a dispatcher and a local agent; or a dispatcher and a container; or a dispatcher and a remote; fair | `AttachedAreKnown`, `ChoiceIsHonoured`, `DetachedServicesAreKept`, `RegistryCatchesUp` | 95k |
| `operator_converges` | 1 operator, 1 bootstrapped agent, daemon/cron/job specs, 3 edits, 1 fault, fair | `NothingIsForgotten`, `ObjectsNeverRegress`, `Converges` | 517k |
| `session_ipc` | 1 prompt, 1 cancellation, 4 builds of Omegon, request queue 1, inbox 2, wire 1, 1 upset, 2 routes, fair | `AcknowledgementsHaveASubject`, `SnapshotsNeverRegress`, `IsRequestChannel`, `SessionRecovers` | 487k |
| `host_parts` | `Bootstrap`, `LocalDiscovery`, `LocalAgents`, `SecretGrants`, `ArmoryOverlays`, `ReleaseAgent`, `AgentPod`, one at a time | `CardsAreTheRuntimes`, `ClickedIsAttached`, `PortsInFlightAreDistinct`, `GrantsAreHonoured`, `OverlaysAreSound`, `PublishedWasApproved`, `PodsCanServe` | 1.29M |
| `surfaces` | `SessionTranscript`, `SessionStatus`, `CopSurface`, `WebProxy`, `WebShell`, `OwnedOmegon`, `WorkflowEditor`, `AssistantConsole`, one at a time | `TranscriptIsFaithful`, `StatusIsConsistent`, `CopIsCurrent`, `CallsAreForwarded`, `PlanIsOfTheFile`, `ConsoleIsConsistent`, `ReadsItsWrites`, `OwnedOmegonIsReaped` | 1.46M |
| `conversations_end` | `DispatcherSwitch`, `FleetApi`, `ExternalAgents`, one at a time, fair | `SwitchIsAnswered`, `ProxyIsFaithful`, `ReachabilityIsCurrent` | 581k |

A property that is a conjunction names its parts in the module, each with its
own comment. The type invariants of the modules are not among the runs'
properties; they hold when added to the `INVARIANTS` of the run's cfg, and that
of `ManagedAgentControl` is proved (`TypeCorrect`). So do the inductive
invariants of the proofs, each of which TLC checked with the run of its
component before it was proved.

Why the bounds are enough for what the runs ask:

- *Control.* Runs share nothing but their worker and the instance they are sent
  to, and transport events touch each of them alike, so one run sees every interleaving
  that concerns it; the proofs cover any number. Three commands are a dispatch,
  a poll and a cancellation, each of which may be replayed without bound: a
  replay does not use up a command. One waiting event suffices for late
  answers because the outbox and worker hold the others back; with two,
  `ControlLateAnswer.cfg` shows what overtaking does.
- *A2A.* Channels of one are full after one message, so both of the awaits on full
  channels happen. One run and two operation ids give a repeated
  dispatch, a cancellation, its repetition, and a dispatch the coordinator
  refuses. `LoopKeepsTurning` is conditional: past `CommandsFit` the loop waits
  for room in the command channel while the orchestrator waits for room in the
  event channel, which only the loop empties, and neither goes on. The code's
  capacities are 64 and 128; with one run in flight the condition always
  holds.
- *Registry.* The thresholds matter only through their order; 1 and 2 give
  fresh, stale and abandoned. Each source of records has an instance in some
  world, with a session that changes beside it.
- *Session.* A queue of one is full with one request and an inbox of two drops
  events as soon as three come between two drains. The prompt, its
  cancellation and a refresh are all three kinds of requests. An upset is a
  lost socket, a crash of Omegon, a session reset, lag, a timeout nothing forces,
  another route, or the prompt of another client: one of them puts an older
  generation on the way, which is all that fencing compares, or makes the
  composer busy with a turn that is not its own.
- *Operator.* Three edits allow create, delete and recreate, or two changes of
  mode, around one crash, failed call or outside edit. `ObjectsNeverRegress` is
  about one operator: two overlap in a rolling update, nothing elects a
  leader, and the older may then write last. `AgentPod` takes specifications
  that differ in every condition of `pod_spec` and two edits between them.
- *External.* Interval 3 over floor 2 keeps the requeue above the floor, and three edits
  suffice to move an endpoint away and back during a probe.
- *Host.* Two servers replace each other once between any two requests of an
  attach; two pids, two ports and two starts allow reuse of a pid, a port or an
  identity between any two steps of two discoveries, one for the cards and one for
  a click (or for the cards again); two deployments share a range of three ports,
  enough to come around; three workers share two grants with one renewal; two
  requests overlap on two overlays, and an agent, two profiles (one whose entry
  names no artifact) and a forge template meet deploy requests that override
  nothing, the image and the namespace, in and out of scope; three releases
  share two paths.
- *Surfaces.* Two tools and two messages interleave; five alerts overflow a
  feed of two with batches of three; two calls share the token slot through
  one restart; two page tasks arrive in either order; two launches of
  Auspex, overlapping or not, with the user's own Omegon beside them. Two edits
  and a node from the palette overtake each other between editor, queue and file,
  starting from a flow with a way behind its output and from one with an edge to
  a node that is gone; two clicks with one change of the settings and one of the
  session between them give a task that runs with settings newer than its click
  or with providers that are gone.
- *Conversations.* Two switches give a late answer to an earlier one; two
  frames per direction, one held and one behind it.

`CHECK_DEADLOCK FALSE` stands where everything the model may do can be used
up: runs ended and the bounded number of commands, edits or starts spent.

Each property of a passing run has a mutant in `PROJECT.json`: a definition
and a wrong version of it under which TLC finds the property violated.

## Where the code and its documents disagree

`control_deadline` is a run of its own: a run whose connection is lost before
its dispatch is accepted returns as Running without a task handle. The
acceptance timeout no longer applies, and the cancellation at the outer
deadline fails because there is nothing to cancel; the run never ends.

Each property of the following tables is violated when it is the only one in the
named configuration: put it in place of the `INVARIANTS` and `PROPERTIES` of
that file. `ControlLateAnswer.cfg` and `ControlLateReceipt.cfg` are complete,
because they need other constants. So does `OneEntryPerEndpoint`: `MCRegistry`
with `SPECIFICATION Spec` and the constants of `Registry.cfg`, but
`Hosts = {h1}`, `Dispatchers = {}`, `Remotes = {r1}`, `Containers = {c1}`,
`Locals = {}`, `Detached = {r1, c1}` and `Endpoint <- SharedEndpoint`.

Properties that quote a document or a comment:

| Property (configuration) | Code | Says otherwise |
|---|---|---|
| `TerminalIsFinal` (`ControlLateAnswer`, `MCControl`) | `apply_observation` checks no state (`auspex-core/src/managed_agents.rs:253`); it takes a worker whose answers overtake each other | `docs/managed-agent-command-delivery-contract.md:163` |
| `SettledIsFinal` (`ControlLateReceipt`, `MCControl`) | `apply_receipt_json` sets any state (`auspex-core/src/managed_agent_runtime.rs:446`) | same document, line 9 |
| `EndIsReported` (`A2aLive`) | only parents with an active run are refreshed, so the last end is not shown (`controller.rs:884`) | `docs/managed-agent-tool-interface.md:154` |
| `CompletedRunsAreKnown` (`A2aLive`) | the end of the attach replaces the runs, not the coordinator's record (`src/app.rs:1692`) | same document, line 105 |
| `RemoteReturns` (`Registry`) | a session event between a probe answer and the next evaluation leaves a healthy remote detached; it needs no probe any more and has no age, so it never comes back (`src/app.rs:1395`) | `docs/auspex-instance-lifecycle-policy.md` |
| `HealthyRemoteIsReady` (`Registry`) | the engine's copy of an attached remote never learns of a probe (`controller.rs:1431`) | same document, line 34 |
| `DisappearedAreExited` (`Registry`) | the status is overwritten from the other copy (`controller.rs:1547`) | comment `controller.rs:1489` |
| `RehydratedIsStale` (`Registry`) | attaching changes the owner, and only foreign-owned records are made stale on load (`instance_registry.rs:67`) | `docs/local-attach-persistence-and-rehydration.md:63` |
| `OneEntryPerEndpoint` (`MCRegistry`, see above) | containers are re-attached before configured remotes are registered (`bootstrap.rs:697`) | comment `controller.rs:1303` |
| `PriorGenerationIsFenced` (`SessionIpc`) | deltas carry no generation: a `TurnStarted` still in the inbox is applied after a reset (`remote_session.rs:625`) | `openspec/baseline/omegon-integration.md:57` |
| `AvailableWhenIdle` (`SessionIpc`) | a dropped `TurnEnded` or outcome leaves the composer blocked (`ipc_client.rs:123`) | `openspec/archive/2026-08-24-canonical-omegon-consumer-boundary/design.md:33` |
| `RestartsNeverRegress` (`SessionIpc` with three upsets and an inbox of three) | snapshots are compared only within one Omegon process: a batch that still holds one of the old process installs it over the new process's, after which an older one of the new process is taken for fresh (`remote_session.rs:1182`) | `openspec/baseline/omegon-integration.md:50` |
| `SettingsArriveFirst` (`Surfaces`) | over IPC each command is a task of its own, so the prompt may arrive before its settings (`dispatch_over_ipc`) | comment `src/app.rs:4858` |
| `EnvelopeGoesAlong` (`Surfaces`) | the settings go to the session's Omegon, the prompt to the focused instance | message `src/app.rs:5915` |
| `LedgerIsAppendOnly` (`Surfaces`) | a new controller writes its ledger before the file is read (`controller.rs:326`, `bootstrap.rs:702`); the probe of an attach click does so too (`local_omegon_probe.rs:138`) | `CHANGELOG.md:87` |
| `BridgeServesThePrimary` (`Surfaces`) | a primary that is adopted has the capability of an earlier bridge (`src/app.rs`, about 1670) | `docs/managed-agent-tool-interface.md:141` |
| `RestartIsFresh` (`Surfaces`) | a restart may adopt the process it was to replace; the caller drops the result (`bootstrap.rs:1755`, `src/app.rs:7244`) | comment `bootstrap.rs:1751` |
| `FeedIsBounded`, `FeedKeepsEntries` (`Surfaces`) | the first write of a feed is not cut, and one over a bare array forgets it (`cop_surface.rs:174`) | comments `cop_surface.rs:85` and `158` |
| `OnlyTheModesWorkload` (`OpConverges`) | the workload of the former mode stays (`reconciler.rs:126`) | `crd.rs:83` |
| `JobsRunTheirPrompt` (`OpConverges`) | the Job is applied before the ConfigMap of its prompt (`reconciler.rs:140`) | `crd.rs:618` |
| `WorkloadIsReported` (`OpConverges`) | only a Deployment is looked up (`auspex-operator/src/main.rs:1720`) | `docs/deployed-webui-control-plane.md:98` |
| `ProbesAreSpaced` (`LiveParts`) | the operator's own status write wakes it before the floor has passed (`external.rs:71`) | comment there |
| `EndpointsMeetTheServer`, `TlsIsProvisioned`, `PromptIsWhereItIsRead`, `BoundsAreForBounded` (`HostParts`) | endpoints are https when the pod serves http (`auspex-operator/src/main.rs:1817`); TLS without an identity mounts a Secret nobody makes; a renamed key of the prompt is not found; a daemon gets the bounds of a Job | `crd.rs`, comments at 466 and 594 |
| `RecordedPidIsOurs` (`HostParts`) | the pid file outlives its process, and a reused pid counts as Auspex's | comment `local_omegon_discovery.rs:18` |
| `ClickAttachesTheCard` (`HostParts`) | the address of the card is enough: at the click another runtime may serve it (`src/app.rs:5501`, `controller.rs:480`) | message `src/app.rs:5525` |

Properties that state what an operator would expect, without a document to quote:

| Property (configuration) | What happens |
|---|---|
| `PaletteNodesStay` (`Surfaces`) | an edit that waits for the editor's timer, or in its queue, when a node is added from the palette is saved afterwards without the node, which was reported saved (`src/screens.rs`) |
| `SweepsSpareTheLiving` (`Surfaces`) | two Auspexes that overlap: the sweep of one takes the primary of the other |
| `OverlappingWritesAreLocal` (`HostParts`) | of two overlay requests that overlap, the second brings back what it read (`main.rs:1307`) |
| `EveryOciPackageAsks` (`HostParts`) | an index entry distributed by OCI that names no artifact is planned without a pull and without its gate (`armory.rs:458`) |
| `ConfirmedOutlastsAttachments` (`LiveParts`) | after a re-attach switch numbers begin again (`remote_session.rs:121`), so the answer to an old switch confirms a new one to another profile |
| `LedgerIsTheTranscript` (`Surfaces`) | the ledger never changes an entry (`audit_timeline.rs:46`): of a streamed message it has the first delta, of a tool no result |
| `LedgerOutlastsResets` (`Surfaces`) | turns are numbered from the start after a reset, and blocks whose identifiers recur are not recorded |
| `PortsAreNeverHandedOutTwice` (`HostParts`) | two processes read the port file before either writes it |
| `ApprovedWasRead` (`HostParts`) | a preview staged again after the operator read it is approved as it is then |
| `StrictIsStrict`, `PairServes` (`Surfaces`; the latter with `Helpers = {h1, h2}`) | a stale token is reported as a strict daemon; two proxies that start together leave a certificate and a key that do not match |
| `PageNeverGoesBack`, `ShowsItsSession`, `ActionIdsAreUnique`, `DraftIsSent` (`Surfaces`) | refreshes overtake each other; the stream keeps the fixture's context; ids repeat after a reload; the composer is cleared of what was typed meanwhile |
| `ConvergedMeansUnblocked`, `PanelMeansPromptable`, `QuotaIsItsOwn`, `HostDecides`, `ReadingKeepsHealth` (`Surfaces`) | readiness, panel and composer decide by different rules; `omegon auth status` overrules the host and forgets health |
| `AcpReachableIsReachable` (`LiveParts`) | the step "ACP reachable" is ok for any daemon, also one without a pod |

Noticed while modelling, and not stated as properties: pages of the audit and
grant lists are cut before they are filtered; expiry of a grant is stored and
never read; a failed write of a new grant leaves it in memory, so the retry
"already exists"; a container whose start fails stays and blocks its name;
`AUSPEX_OMEGON_STATE_URL` on the desktop is never fetched; a preferred
model that carries its provider gets the prefix twice; switching a
dispatcher and refreshing the runtime inventory are called by tests only, and
an inventory's answer is filed under the route selected when it arrives; the web proxy drops query strings and has no timeouts, and the
page's stream is not opened again.

## Fairness

Assumed is what the code or the platform keeps doing by itself; a person, a
fault or an agent's decision is never assumed.

- *Control.* Weak: the tick with everything due (the loop ticks for ever and
  timers elapse), applying transport events, opening sessions, the passing of
  the deadline. Strong: applying control messages, a stream connecting, a
  worker taking a command. These may be disabled again and again in between by a
  lost connection or an overloaded worker, but not each time for ever.
  `EveryCommandSettles` speaks only of instances whose link in the end stays up.
- *A2A.* Weak: the loop's next step, the orchestrator handing over an event.
  Strong: draining to the end and publishing (`try_recv` empties the channels
  faster than clients fill them), a successful reconnection, the worker's last
  message reaching the orchestrator over a reliable broker.
- *Registry.* Strong: the reconciliation tick, whose timer keeps firing while
  other ticks run. Weak: probe rounds, their answers, time; and `Calm`, after
  which health and configuration no longer change.
- *Session.* Weak: the callers' tasks and their timeouts, the actor, the loop,
  Omegon handling a request and working its queue. A lost socket, a restart
  and the operator's actions are not fair. `AvailableInCalm` is about
  behaviours in which nothing is lost and no other client prompts; without that
  it is `AvailableWhenIdle`.
- *Dispatcher switch.* Weak: Omegon performing or refusing, reporting, the
  loop applying a snapshot. `PendingSwitchSettles` speaks of builds that report
  switches.
- *Fleet API.* Weak: connecting, the two pumps and the select: tasks of the
  runtime.
- *Operator and External.* Weak: start, watch delivery, requeue timers, the calls of
  a reconcile, garbage collection, the clock. Edits and faults are bounded,
  never fair.

## Proofs

The theorems hold for any sets of runs, workers, instances, messages or calls
and for any bounds, so they also cover what the runs leave out: more
processes, longer queues, more repetitions. Each rests only on the assumption
its module states about the constants (that a set is not empty, that a bound
is a natural number, that names of different kinds differ), which TLC evaluates in
every run of that module.

| Theorem | Statement | Invariant |
|---|---|---|
| `TypeCorrect`, `OutcomesCorrect`, `DispatchExecutesOnce`, `SettledStaysSettled` | `TypeOK`, `OutcomesAreReal`, `ExecutesOnce`; with workers that acknowledge by acks, `SettledIsFinal` | `AnswersAreJustified`, `OneDispatch` |
| `EndedStaysEnded` | with workers that answer in order, `TerminalIsFinal` of `ManagedAgentControl` | `EndInv` |
| `OutcomesStayReal`, `OperationsAreIdempotent`, `CancellationsAreAsked`, `EndedRunsStay` | `OutcomesAreReal`, `OneRunPerOperation`, `CancelledOnRequest`, `TerminalIsFinal` of `ManagedAgentA2a` | `A2aInv` |
| `AcknowledgementsHold`, `SnapshotsAdvance` | `AcknowledgementsHaveASubject`, `SnapshotsNeverRegress` | `ShapeInv`, `SessionInv` |
| `ImplementsRequestChannel` | `Spec => Channel!ChannelSafety`: the session's tasks, actor and Omegon implement `RequestChannel` | `CallInv` |
| `RoutesLeadSomewhere`, `SelectionStands`, `ServicesAreKept` | `AttachedAreKnown`, `ChoiceIsHonoured`, `DetachedServicesAreKept` | `RegistryInv`, `ChoiceInv` |
| `AgentsAreNotForgotten` | `NothingIsForgotten` | `KnownInv` |
| `OneOperatorNeverRegresses` | with one operator, `ObjectsNeverRegress` | `OrderInv` |
| `GrantsHonoured` | `GrantsAreHonoured` | `SgInv` |
| `ConfirmationsAreTrue`, `FramesKeepTheirOrder`, `StaleStatusDoesNotLast` | `ConfirmedIsWanted`, `FramesArePrefixes`, `StaleStatusIsReplaced`: the safety parts of `SwitchIsAnswered`, `ProxyIsFaithful`, `ReachabilityIsCurrent` | `SwitchInv`, `FramesInv`, `ProbeInv` |
| `PublicationsWereApproved`, `OverlaysStaySound`, `PortsStayDistinct`, `PodsServe` | `PublishedWasApproved`, `OverlaysAreSound`, `PortsInFlightAreDistinct`, `PodsCanServe` | `ReleaseInv`, `OverlayInv`, `LaunchInv`, `PodInv` |
| `BrowserCallsHold`, `PromptsHaveTheirSettings` | `CallsAreForwarded`, `ConsoleIsConsistent` | `ProxyInv`, `ConsoleInv` |
| `AcceptedIsShown`, `PictureIsCurrent`, `NothingIsLeftBehind` | `ReadsItsWrites`, `CopIsCurrent`, `OwnedOmegonIsReaped` | `ShellInv`, `CopInv`, `OwnedInv` |
| `StatusHolds`, `PlansMatchTheFile`, `EveryRuntimeHasItsCard` and `ClicksAttachTheirRuntime`, `TranscriptHolds` | `StatusIsConsistent`, `PlanIsOfTheFile`, `CardsAreTheRuntimes` and `ClickedIsAttached`, `TranscriptIsFaithful` | `StatusInv`, `WorkflowInv`, `DiscoveryInv`, `TranscriptInv` |

Why the properties are not inductive by themselves, and what is added:

*Control.* An answer on its way may carry an outcome: `AnswersAreJustified`
says that an answer waiting at a run's own instance claims only what the run's
task has come to. `Routed` applies a message only if it comes from the run's
target, and a task once ended does not change, so a justified answer stays
justified. `OneDispatch` says that only the first command of a run is a
dispatch, and that a task implies that the worker has seen command 1; a replay
sends an id the worker has seen, which it answers without executing.
`SettledIsFinal` is an action property: `AckState` leaves a settled delivery
alone, responses change only an unsettled one, and a replay concerns only
commands that are unanswered. Receipts lack that guard
(`ControlLateReceipt`), hence the hypothesis. `TerminalIsFinal` is the hardest
of them, because `apply_observation` compares the task of a report and never the
state of the run: it holds only by the order of the answers. `OrderedAnswers`
says that a report which waits behind an answer that claims the end of its task, or
which is read when the run has ended, says what the task is like now; as a task
that has ended does not change, such a report stays true in the queue, and
applying it changes nothing. It needs that the first message of a queue is
read first (`~ConcurrentWorker`); `NotYetAccepted` covers `DispatchTimedOut`,
which has no task a report could name.

*A2A.* An outcome passes through the worker's messages, the broker, the
orchestrator's event channel and its `owed` event before the supervisor has it,
and a cancellation through the request channel, the actions and the command
channel. `MessagesOK` and `RequestsOK` say of each of these places that what is in it
is what the worker reached or the parent asked for; as they are sets or
sequences of messages each justified by itself, loss, repetition and
reordering preserve them. They also say that it is about a run id that was given out, so a later
run never meets it, and `RoomOK` that there is a run id left for every dispatch
that waits. `EndedRunsStay` excepts the replacement of the controller, as the
property does.

*Session.* `ShapeInv` is what may be on the wire, in the inbox and with the
loop. `CallInv` says where each command is: not yet in the queue, in it once, with
the actor, or sent and then run at most once; an answer on the wire is for a
command that ran (`RanFirst`). From it every step of the session is a step of
`RequestChannel` or a stutter. The theorem is the safety part; the run checks
`IsRequestChannel` with its fairness.

*Registry.* `Sound` says that the keys, records and routes of a controller fit
together, and `DOMAIN eng \subseteq DOMAIN reg` relates the two copies. It is proved
once for each function from controllers to controllers, and an action composes
them. `EntriesIn` builds the entries of a set of instances by recursion over
their number; that it contains them all is an induction on sets, done by
contradiction from the least number at which it fails (`LeastNumber`,
`SetInduction`), because the library's induction theorem cannot be instantiated
by these provers. The theorems are about the whole specification, whereas the run splits
it into three worlds.

*Operator.* `NothingIsForgotten` is inductive with the shapes and with
`DownKnowsNothing`: a process that is down has no cache. `ObjectsNeverRegress`
compares a write with what the cluster holds; `OrderInv` orders the four
places of a version: objects, work, cache, resource, each no newer than the next, and
none ahead of the edits made. It needs `OneOperator`: the deployment
has one replica (`deploy/brutus-control-plane/deployment.yaml:9`). In a rolling
update two processes overlap, and the older one may write last; TLC shows it
with two operators.

*Grants.* `Sound` is about one copy of the store: a redeemed grant is marked as
such and has one lease. `Knows` relates a copy to what callers were given; it
holds for memory and for the file separately, which makes it survive a failed write
followed by a reopening.

*Conversations.* A confirmation is about the snapshot it came with, so
`SwitchInv` says of every place a binding may be, the host, the snapshots on
their way and Auspex's own copy, that an active switch is the one made
(`MadeIsBound`); a request in between carries a profile. Within an attachment every number is below the
next one and stands for one switch (`NumbersHold`, `Carried`, `SameSwitch`), so a
confirmation under the pending number is of the request that is pending
(`ConfirmedIsWanted`). `FramesInv` relates what a
sink got to the frame its pump holds: nothing, or the one after the last it gave.
`ProbeInv` says more than `StaleStatusIsReplaced`: whatever its status, an
agent the controller knows is due, being probed or has a timer, which only a
probe that begins clears and the end of every probe sets, also after a
failed write.

*Host.* `ReleaseInv`: every copy of a post, in the
file, held or published, carries an approval of its own revision or none.
`OverlayInv`: what a request has read is the map as it is, but for what it was raced in,
and every verdict is what preflight makes of some overlay.
`LaunchInv`: a task keeps count of the ports handed out since its own
(`since`); the file, or the one task of its process that is about to write it, is that
far ahead, so an equal port would be a whole range away. `PodInv`: what a reconciliation without
an error has no longer to do is done (`DoneIsDone`), and the bundle of a
primary comes before its workload (`BundleComesFirst`); both need that the steps
that are left are a tail of the order `reconcile` has them in, for which each step
has a rank (`StepRank`, `InOrder`). That an edited specification, another runtime
flag or a failed identity step meets a half-done reconciliation is covered by
`DoneStep` being about the specification and the flag the reconciliation began with.

*Surfaces.* `ProxyInv`: a call that asks again finds the token slot empty, and
so takes the token of the daemon that answers; only a restart or another call that fills
the slot (`disturbed`) can make that token a wrong one. `ConsoleInv`: a task has
handed over nothing before it runs, and one that waits to send its prompt has handed
over exactly the settings it read, which were accepted then and are not older
than its click; other tasks' messages come between without disturbing this
(`Extends`). `ShellInv`: a task holds no action newer than the daemon's revision,
and one that waits for its snapshot was answered at that revision or a later one.
`CopInv`: a feed that keeps its entries is the tail of what it was sent, which
joining and draining preserve (`TailJoined`, `TailDrained`), and every region a
projection placed shows that projection or was written outside any. `OwnedInv`: while the lives of the
Auspex processes do not overlap, at most one is up and at most one owned Omegon
was not told to terminate, and it is the one the pid file or the child names
(`Tidy`). Once two overlap the pid file says nothing and the property is
not claimed.

*Sequences.* Four properties are about what loops compute from sequences of any
length. The modules write these loops as recursive functions over the places
of a sequence, and `SurfacesProofs` proves about each what holds of every
prefix, by `SetInduction` over the length; `Recursion` says that the function
exists, and `SelectAt` of `Selections` stands for the loops that keep some of the elements.
`StatusInv`: the shell's state is about the harness and runtime beside it, and
the telemetry is what a rebuild would make now, also after the two steps that
do not rebuild it; that the screens count the same is then a fact about two merges of the
same lists, written twice in the code, which end with the same rows though the one
adds while it reads and the other compares with all it has added. `WorkflowInv`: the signal is what `build_state`
makes of its own flow, and "saved" is said of a signal and file written
together; that a plan is fit to be dispatched then follows for any flow,
since along the trail each node is new, joined to the one before and no output.
`DiscoveryInv`: runtimes that listen have ports of their own; what a scan has gathered so far
(`Gathered`) shows every runtime that has been up since it began at one candidate, with its identity
once its probe was answered, whatever came and went between the steps; `Listed` says the same of the
cards, and `Found` that a click goes on at the address its card's runtime was found at.
`TranscriptInv`: handlers only ever add to the chat and leave blocks whose result is their tool's
own, the message being streamed is in the text from its first delta on as long as nothing of it was
lost, and, until Omegon resets the session, the ledger has, once and under its own identifier, an entry for every block on screen, which holds the
text the block had when it was first recorded (`Ledgered`), a part of what it says now
(`Continues`); this also after the ledger was read back.

What stays with TLC:

- liveness (`EveryCommandSettles`, `EndIsNoticed`, `LoopKeepsTurning`,
  `RegistryCatchesUp`, `Converges`, `SessionRecovers`, and the parts of
  `conversations_end` about what must come): fairness and ENABLED are beyond the installed provers.

Every invariant of a passing run is stated by a theorem, and so is every action
property; `DeadlineIsEnforced` is violated.

## What is not modelled

- *Control:* `remove_run`, which nothing calls.
- *A2A:* frame decoding, the socket's permissions and capability token,
  Shutdown.
- *Registry:* `apply_instance_descriptor`, `switch_session_mode`, the
  demonstration fleet, focus and unread counts.
- *Session:* framing, the payloads of slash commands, costs and token counts.
- *Start-up:* reading PEM files, the search for the binary; parsing of process
  lists and of the container engine's output.
- *Operator:* key derivation and certificates, the JSON of the read-only handlers.
- *Altogether:* authorization, host-action policy, capabilities, compatibility
  and operational profile (pure tables, each with a test per row), fleet and
  gateway projections (pure functions to JSON), the runtime inventory (called
  by tests only), fixtures, wire types, rendering, styles and the command-line tools.
- *Time* is abstract everywhere: a timeout may fire at any moment it is armed;
  the clock does not step back.

## Plan

Written, in this order: the run and its control transport, its proofs, the A2A
transport, the registry, the two halves of the operator; then the primary
session with its abstract channel, transcript, switch and status, the owned
process and start-up, grants, discovery and launches, the pod, overlays and
fleet API, the COP, the web parts and the release agent.

Then proofs: grants, releases, overlays and ports, the A2A transport,
the session and its refinement, the operator, the registry, the web proxy and
the console, the web shell, the COP, the owned process, the pod, the end of a
run, the safety of the conversations, the status, the workflow builder,
discovery and the transcript.

What could come next: models of the projections and of the host-action policy,
which are pure today, once they keep state; and proofs of the liveness properties
with a prover that has ENABLED.
