---------------------------- MODULE LocalAgents ----------------------------
(***************************************************************************)
(* Launching an agent package as a container of this machine               *)
(* (deploy_package_request in src/app.rs): a host port is allocated from   *)
(* the port file (local_agent_ports.rs), recorded, the image pulled, the   *)
(* container created and started (oci_backend.rs).  The port file is read, *)
(* changed and written whole by every Auspex process; the deployments of   *)
(* one process only interleave where they wait.                            *)
(***************************************************************************)
EXTENDS Integers, FiniteSets

CONSTANTS
    Deployments,    \* tasks of deploy_package_request
    ProcessOf,      \* the Auspex process of each task
    AgentNames,
    PortCount,      \* LOCAL_AGENT_PORT_START..LOCAL_AGENT_PORT_END are 1..PortCount
    NoAgent,
    MaxLaunchCalls  \* deployments altogether

\* The range of ports is not empty.
ASSUME PortsAssumption == PortCount \in Nat \ {0}

VARIABLES
    portFile,    \* auspex-local-agent-ports.json; torn while it is being rewritten
    launchTask,        \* per deployment: where it stands
    container,   \* external: per name, the container of the runtime
    taken,       \* external: ports of the range other programs listen on
    calls

laVars == <<portFile, launchTask, container, taken, calls>>

AgentPorts == 1..PortCount
NoReservations == [q \in AgentPorts |-> NoAgent]
NoPortState == [last |-> 0, of |-> NoReservations]
NoContainer == [st |-> "none", port |-> 0]
Waiting == [step |-> "idle", name |-> NoAgent, port |-> 0, read |-> NoPortState, since |-> 0, mixed |-> FALSE]

\* port_is_available: binding the port succeeds.
port_is_available(q) ==
    q \notin taken /\ \A n \in AgentNames : ~(container[n].st = "running" /\ container[n].port = q)

\* Mutant: the search always begins at the start of the range.
candidates_from_start(last, q) == q

\* monotonic_port_candidates: the place of a port in the search, after the port allocated
\* last, around the end of the range.
monotonic_port_candidates(last, q) ==
    LET start == IF last \in 1..(PortCount - 1) THEN last + 1 ELSE 1
    IN  IF q >= start THEN q - start + 1 ELSE PortCount - start + 1 + q

Available == {q \in AgentPorts : port_is_available(q)}

\* choose_next_port
choose_next_port(state) ==
    CHOOSE q \in Available : \A r \in Available :
        monotonic_port_candidates(state.last, q) <= monotonic_port_candidates(state.last, r)

----------------------------------------------------------------------------
LaInit ==
    /\ portFile = [torn |-> FALSE, state |-> NoPortState]
    /\ launchTask = [d \in Deployments |-> Waiting]
    /\ container = [n \in AgentNames |-> NoContainer]
    /\ taken = {} /\ calls = 0

\* read_port_state: a file that does not parse counts as none.
read_port_state == IF portFile.torn THEN NoPortState ELSE portFile.state

\* The submit handler: the package is known and a runtime socket answers; otherwise the task
\* ends here and nothing has changed.
Deploy(d, n) ==
    /\ launchTask[d].step = "idle" /\ calls < MaxLaunchCalls
    /\ calls' = calls + 1
    /\ launchTask' = [launchTask EXCEPT ![d] = [Waiting EXCEPT !.step = "allocate", !.name = n]]
    /\ UNCHANGED <<portFile, container, taken>>

\* A process runs one synchronous stretch at a time.
MayRun(d) ==
    \A e \in Deployments \ {d} : ProcessOf[e] = ProcessOf[d] => launchTask[e].step \notin {"write", "record"}

\* allocate_local_agent_port: the file is read and a free port chosen; every other task that
\* has a port counts the ports the search has moved on.
AllocateRead(d) ==
    /\ launchTask[d].step = "allocate" /\ MayRun(d)
    /\ IF Available = {}
       THEN launchTask' = [launchTask EXCEPT ![d] = Waiting]
       ELSE launchTask' = [e \in Deployments |->
               IF e = d
               THEN [launchTask[d] EXCEPT !.step = "write", !.read = read_port_state,
                                    !.port = choose_next_port(read_port_state)]
               ELSE [launchTask[e] EXCEPT !.since =
                        IF launchTask[e].port = 0 THEN 0
                        ELSE LET far == @ + monotonic_port_candidates(
                                            read_port_state.last, choose_next_port(read_port_state))
                             IN  IF far < PortCount THEN far ELSE PortCount]]
    /\ UNCHANGED <<portFile, container, taken, calls>>

\* For the properties: the tasks whose port the file may no longer account for.
Blurred(d, torn) ==
    [e \in Deployments |->
        [launchTask[e] EXCEPT !.mixed = @ \/ (launchTask[e].port # 0 /\ (torn \/ ProcessOf[e] # ProcessOf[d]))]]

\* write_port_state: the reservation and the port allocated last; fs::write truncates first.
AllocateWrite(d) ==
    /\ launchTask[d].step = "write"
    /\ portFile' = [torn |-> FALSE,
                    state |-> [last |-> launchTask[d].port,
                               of |-> [launchTask[d].read.of EXCEPT ![launchTask[d].port] = NoAgent]]]
    /\ launchTask' = [Blurred(d, FALSE) EXCEPT ![d].step = "record", ![d].read = NoPortState]
    /\ UNCHANGED <<container, taken, calls>>

\* record_local_agent_port_instance, in the same stretch of the task.
Record(d) ==
    /\ launchTask[d].step = "record"
    /\ portFile' = [torn |-> FALSE,
                    state |-> [read_port_state EXCEPT !.of[launchTask[d].port] = launchTask[d].name]]
    /\ launchTask' = [Blurred(d, FALSE) EXCEPT ![d].step = "pull"]
    /\ UNCHANGED <<container, taken, calls>>

\* A file that was being rewritten when the writing ended.
TornFile == [torn |-> TRUE, state |-> NoPortState]

\* write_port_state fails, for the reservation or for the record: the task ends with the error, the
\* file is as it was (no directory, no open) or torn (the disk is full).
PortWriteFails(d, torn) ==
    /\ launchTask[d].step \in {"write", "record"}
    /\ portFile' = IF torn THEN TornFile ELSE portFile
    /\ launchTask' = [e \in Deployments |->
                         IF e = d THEN Waiting ELSE IF torn THEN Blurred(d, TRUE)[e] ELSE launchTask[e]]
    /\ UNCHANGED <<container, taken, calls>>

\* The process of a task is killed, possibly while it rewrites the file: its tasks are gone, their
\* containers stay as they are.
ProcessDies(d, torn) ==
    /\ torn => launchTask[d].step \in {"write", "record"}
    /\ portFile' = IF torn THEN TornFile ELSE portFile
    /\ launchTask' = [e \in Deployments |->
                         IF ProcessOf[e] = ProcessOf[d] THEN Waiting
                         ELSE IF torn THEN Blurred(d, TRUE)[e] ELSE launchTask[e]]
    /\ UNCHANGED <<container, taken, calls>>

\* ensure_image: pulled unless it is there; an error ends the task.
PullImage(d, ok) ==
    /\ launchTask[d].step = "pull"
    /\ launchTask' = [launchTask EXCEPT ![d] = IF ok THEN [@ EXCEPT !.step = "create"] ELSE Waiting]
    /\ UNCHANGED <<portFile, container, taken, calls>>

\* create_container: a name in use is refused.
CreateContainer(d) ==
    /\ launchTask[d].step = "create"
    /\ IF container[launchTask[d].name].st = "none"
       THEN /\ container' = [container EXCEPT ![launchTask[d].name] = [st |-> "created", port |-> launchTask[d].port]]
            /\ launchTask' = [launchTask EXCEPT ![d].step = "start"]
       ELSE /\ launchTask' = [launchTask EXCEPT ![d] = Waiting]
            /\ UNCHANGED container
    /\ UNCHANGED <<portFile, taken, calls>>

\* start_container: the runtime binds the port; if it cannot, the created container stays.
StartContainer(d) ==
    /\ launchTask[d].step = "start"
    /\ container' = IF container[launchTask[d].name].st = "created" /\ port_is_available(container[launchTask[d].name].port)
                    THEN [container EXCEPT ![launchTask[d].name].st = "running"] ELSE container
    /\ launchTask' = [launchTask EXCEPT ![d] = Waiting]
    /\ UNCHANGED <<portFile, taken, calls>>

\* Outside Auspex: a container is stopped and removed, another program takes or leaves a port.
RemoveContainer(n) ==
    /\ container[n].st # "none"
    /\ container' = [container EXCEPT ![n] = NoContainer]
    /\ UNCHANGED <<portFile, launchTask, taken, calls>>

OtherListens(q) ==
    /\ port_is_available(q) /\ taken = {}
    /\ taken' = {q}
    /\ UNCHANGED <<portFile, launchTask, container, calls>>

OtherLeaves ==
    /\ taken # {} /\ taken' = {}
    /\ UNCHANGED <<portFile, launchTask, container, calls>>

LaNext ==
    \/ \E d \in Deployments :
          \/ \E n \in AgentNames : Deploy(d, n)
          \/ AllocateRead(d) \/ AllocateWrite(d) \/ Record(d)
          \/ \E torn \in BOOLEAN : PortWriteFails(d, torn) \/ ProcessDies(d, torn)
          \/ \E ok \in BOOLEAN : PullImage(d, ok)
          \/ CreateContainer(d) \/ StartContainer(d)
    \/ \E n \in AgentNames : RemoveContainer(n)
    \/ \E q \in AgentPorts : OtherListens(q)
    \/ OtherLeaves

LaSpec == LaInit /\ [][LaNext]_laVars

----------------------------------------------------------------------------
\* list_agents: the running containers with the label of Auspex, by name and port.
list_agents == {n \in AgentNames : container[n].st = "running"}

\* The state is well formed, and two running containers never share a port.
LaTypeOK ==
    /\ portFile.state.last \in 0..PortCount
    /\ \A d \in Deployments :
          /\ launchTask[d].step \in {"idle", "allocate", "write", "record", "pull", "create", "start"}
          /\ launchTask[d].port \in 0..PortCount
          /\ launchTask[d].step \in {"write", "record", "pull", "create", "start"} => launchTask[d].port # 0
    /\ \A n, o \in list_agents : n # o => container[n].port # container[o].port
    /\ calls \in 0..MaxLaunchCalls

\* While one process deploys several packages, also when writes of the file fail, no two of them
\* wait for their images with the same port, unless the search has come around the whole range since the older of them got
\* its port: that a port is free does not say that nobody is about to use it
\* (monotonic_port_candidates goes on from the port allocated last).
PortsInFlightAreDistinct ==
    \A d, e \in Deployments :
        d # e /\ launchTask[d].port # 0 /\ launchTask[e].port # 0
        /\ ProcessOf[d] = ProcessOf[e]
        /\ ~launchTask[d].mixed /\ ~launchTask[e].mixed
        /\ launchTask[d].since < PortCount /\ launchTask[e].since < PortCount
        => launchTask[d].port # launchTask[e].port

\* Expected to fail.  The same across processes: both read the file before either writes.
PortsAreNeverHandedOutTwice ==
    \A d, e \in Deployments :
        d # e /\ launchTask[d].port # 0 /\ launchTask[e].port # 0
        /\ launchTask[d].since < PortCount /\ launchTask[e].since < PortCount
        => launchTask[d].port # launchTask[e].port
=============================================================================
