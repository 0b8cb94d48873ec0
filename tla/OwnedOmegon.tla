---------------------------- MODULE OwnedOmegon ----------------------------
(***************************************************************************)
(* The Omegon process Auspex owns (auspex-core/src/bootstrap.rs): how a    *)
(* launch of Auspex finds, reuses, sweeps, spawns and attaches, how it is  *)
(* restarted, and what the exit hook and the next launch clean up after a  *)
(* crash.  The managed-agent bridge that src/app.rs binds before a launch  *)
(* and keeps or drops after it is part of the launch.                      *)
(*                                                                         *)
(* Shared by every Auspex process of the machine: the process table, the   *)
(* ports and the pid file.  Time is abstract: a wait of the code is a      *)
(* phase that may end at any later moment.                                 *)
(***************************************************************************)
EXTENDS Integers, FiniteSets

CONSTANTS
    Auspexes,      \* Auspex processes, each of which may be started again
    Pids,          \* pids an owned Omegon can get, each used once
    UserPid,       \* a runtime of the user on the default port, not a primary
    NoPid,
    MaxPort,       \* fallback ports are 1..MaxPort, the default port is 0
    MaxLaunches    \* launches and restarts altogether

ASSUME OwnedAssumption == UserPid \notin Pids /\ NoPid \notin Pids

VARIABLES
    auspex,     \* per Auspex process: where its launch stands
    process,    \* per pid: the Omegon process
    pidFile,    \* auspex-owned-omegon.pid
    launches,   \* launches and restarts so far; names the bridge capability of a launch
    overlapped  \* history: two Auspex processes were alive at once

owVars == <<auspex, process, pidFile, launches, overlapped>>

DefaultPort == 0
Ports == 0..MaxPort
AllPids == Pids \cup {UserPid}
Phases == {"off", "probe", "attach", "sweep", "choose", "spawn", "handshake",
           "polling", "up", "failed"}

\* What an Auspex process knows: hook is the registered exit reaper, cap the
\* capability of the bridge bound for this launch (0: none, a restart), bridge the
\* one that is kept listening, fresh FALSE once a restart has asked for a new Omegon.
Off == [phase |-> "off", port |-> 0, child |-> NoPid, at |-> NoPid,
        hook |-> FALSE, cap |-> 0, bridge |-> 0, old |-> {}]

Dead == [st |-> "dead", termed |-> FALSE, port |-> 0, cap |-> 0]
Unused == [Dead EXCEPT !.st = "unused"]

Alive(p) == process[p].st \in {"starting", "serving"}
ServingOn(port) == {p \in AllPids : process[p].st = "serving" /\ process[p].port = port}

\* port_is_free: nothing listens.
port_is_free(port) == ServingOn(port) = {}

\* owned_omegon_processes: what the process table shows with the agent bundle in
\* its command line; a runtime of the user never matches.
OwnedProcesses == {p \in Pids : Alive(p)}

Termed(ps) == [p \in AllPids |->
                  IF p \in ps THEN [process[p] EXCEPT !.termed = TRUE] ELSE process[p]]

\* reap_orphaned_omegon_serves: TERM for every owned process except those on the
\* port to keep; the pid file goes when nothing was kept.
reap_orphaned_omegon_serves(keep) ==
    LET kept == {p \in OwnedProcesses : process[p].port \in keep}
    IN  /\ process' = Termed(OwnedProcesses \ kept)
        /\ pidFile' = IF OwnedProcesses # {} /\ kept = {} THEN NoPid ELSE pidFile

\* choose_auspex_control_port: the first free port, the default one if none is.
choose_auspex_control_port ==
    IF \E q \in Ports : port_is_free(q)
    THEN CHOOSE q \in Ports : port_is_free(q) /\ \A r \in 0..(q - 1) : ~port_is_free(r)
    ELSE DefaultPort

----------------------------------------------------------------------------
OwInit ==
    /\ auspex = [a \in Auspexes |-> Off]
    /\ process = [p \in AllPids |-> Unused]
    /\ pidFile = NoPid
    /\ launches = 0
    /\ overlapped = FALSE

\* The program is started: the bridge is bound under a new capability, then the
\* launch begins.
Launch(a) ==
    /\ auspex[a].phase = "off" /\ launches < MaxLaunches
    /\ launches' = launches + 1
    /\ auspex' = [auspex EXCEPT ![a] = [Off EXCEPT !.phase = "probe", !.cap = launches + 1]]
    /\ overlapped' = (overlapped \/ \E b \in Auspexes \ {a} : auspex[b].phase # "off")
    /\ UNCHANGED <<process, pidFile>>

\* Does something answer on the default port, and is it a primary of Auspex?
Probe(a) ==
    /\ auspex[a].phase = "probe"
    /\ auspex' = [auspex EXCEPT ![a].phase =
                     IF ServingOn(DefaultPort) \cap Pids # {} THEN "attach" ELSE "sweep"]
    /\ UNCHANGED <<process, pidFile, launches, overlapped>>

\* How a launch ends that attached to p: the bridge is kept when the result carries a
\* WebSocket event stream, which it does only if native IPC was not negotiated.
Attached(a, p, ipc) ==
    [auspex[a] EXCEPT !.phase = "up", !.at = p,
                      !.bridge = IF auspex[a].cap = 0 THEN @
                                 ELSE IF ipc THEN 0 ELSE auspex[a].cap,
                      !.cap = 0]

\* How a launch ends that failed: no event stream, so the bridge is dropped.
Failed(a) ==
    [auspex[a] EXCEPT !.phase = "failed",
                      !.bridge = IF auspex[a].cap = 0 THEN @ ELSE 0, !.cap = 0]

\* The existing primary bootstraps: it is used, and owned processes elsewhere go.
AttachExisting(a) ==
    /\ auspex[a].phase = "attach"
    /\ \E p \in ServingOn(DefaultPort), ipc \in BOOLEAN :
          auspex' = [auspex EXCEPT ![a] = Attached(a, p, ipc)]
    /\ reap_orphaned_omegon_serves({DefaultPort})
    /\ UNCHANGED <<launches, overlapped>>

\* It does not: every owned process goes and the launch continues with a fresh one.
AttachExistingFails(a) ==
    /\ auspex[a].phase = "attach"
    /\ auspex' = [auspex EXCEPT ![a].phase = "sweep"]
    /\ reap_orphaned_omegon_serves({})
    /\ UNCHANGED <<launches, overlapped>>

\* Every owned process goes before a port is chosen.
Sweep(a) ==
    /\ auspex[a].phase = "sweep"
    /\ auspex' = [auspex EXCEPT ![a].phase = "choose"]
    /\ reap_orphaned_omegon_serves({})
    /\ UNCHANGED <<launches, overlapped>>

\* After waiting a while for the default port.
ChoosePort(a) ==
    /\ auspex[a].phase = "choose"
    /\ auspex' = [auspex EXCEPT ![a].phase = "spawn", ![a].port = choose_auspex_control_port]
    /\ UNCHANGED <<process, pidFile, launches, overlapped>>

\* The pid of the next child.
NextPid == CHOOSE p \in Pids : process[p].st = "unused"

\* The child is started with the bridge's capability in its environment, its pid
\* recorded and the exit reaper registered.
Spawn(a) ==
    /\ auspex[a].phase = "spawn"
    /\ \E q \in Pids : process[q].st = "unused"
    /\ LET p == NextPid
       IN /\ process' = [process EXCEPT ![p] =
                [st |-> "starting", termed |-> FALSE, port |-> auspex[a].port, cap |-> auspex[a].cap]]
          /\ auspex' = [auspex EXCEPT ![a].phase = "handshake", ![a].child = p, ![a].hook = TRUE]
          /\ pidFile' = p
    /\ UNCHANGED <<launches, overlapped>>

\* No binary, no TLS material or no fork.
SpawnFails(a) ==
    /\ auspex[a].phase = "spawn"
    /\ auspex' = [auspex EXCEPT ![a] = Failed(a)]
    /\ UNCHANGED <<process, pidFile, launches, overlapped>>

Handshake(a) ==
    /\ auspex[a].phase = "handshake" /\ process[auspex[a].child].st = "serving"
    /\ auspex' = [auspex EXCEPT ![a].phase = "polling"]
    /\ UNCHANGED <<process, pidFile, launches, overlapped>>

\* Mutant: the half-started child is left behind, its pid forgotten.
HandshakeFailsSilently(a) ==
    /\ auspex[a].phase = "handshake"
    /\ auspex' = [auspex EXCEPT ![a] = Failed(a)]
    /\ pidFile' = NoPid
    /\ UNCHANGED <<process, launches, overlapped>>

\* The child printed no startup line in time or closed its output: it is killed and
\* the pid file removed, whatever it holds.
HandshakeFails(a) ==
    /\ auspex[a].phase = "handshake"
    /\ auspex' = [auspex EXCEPT ![a] = Failed(a)]
    /\ process' = [process EXCEPT ![auspex[a].child] = Dead]
    /\ pidFile' = NoPid
    /\ UNCHANGED <<launches, overlapped>>

\* /api/startup and /api/readyz answered on the child's port, and so did the state.
BecomeReady(a) ==
    /\ auspex[a].phase = "polling"
    /\ \E p \in ServingOn(auspex[a].port), ipc \in BOOLEAN :
          auspex' = [auspex EXCEPT ![a] = Attached(a, p, ipc)]
    /\ UNCHANGED <<process, pidFile, launches, overlapped>>

\* They did not: the launch fails and the child stays, recorded for the exit reaper.
PollingFails(a) ==
    /\ auspex[a].phase = "polling"
    /\ auspex' = [auspex EXCEPT ![a] = Failed(a)]
    /\ UNCHANGED <<process, pidFile, launches, overlapped>>

\* reap_owned_omegon_child: TERM for the recorded pid if it still is an owned Omegon.
reap_owned_omegon_child == OwnedProcesses \cap {pidFile}

\* restart_owned_omegon after a new login: the recorded child and every other owned
\* process get TERM, and a launch without a bridge begins at once.  Its result is dropped:
\* at is then the Omegon the launch ended with, and no session follows it there.
Restart(a) ==
    /\ auspex[a].phase \in {"up", "failed"} /\ launches < MaxLaunches
    /\ launches' = launches + 1
    /\ auspex' = [auspex EXCEPT ![a].phase = "probe", ![a].child = NoPid,
                                ![a].old = OwnedProcesses]
    /\ process' = Termed(OwnedProcesses)
    /\ pidFile' = NoPid
    /\ UNCHANGED overlapped

\* No binary is found any more: the processes are told to terminate and nothing is launched.
RestartWithoutBinary(a) ==
    /\ auspex[a].phase \in {"up", "failed"}
    /\ process' = Termed(OwnedProcesses)
    /\ pidFile' = NoPid
    /\ UNCHANGED <<auspex, launches, overlapped>>

\* A normal exit runs the reaper if this process registered it.
Exit(a) ==
    /\ auspex[a].phase # "off"
    /\ auspex' = [auspex EXCEPT ![a] = Off]
    /\ process' = IF auspex[a].hook THEN Termed(reap_owned_omegon_child) ELSE process
    /\ pidFile' = IF auspex[a].hook THEN NoPid ELSE pidFile
    /\ UNCHANGED <<launches, overlapped>>

\* SIGKILL or a crash of Auspex: nothing runs, the child lives on.
Crash(a) ==
    /\ auspex[a].phase # "off"
    /\ auspex' = [auspex EXCEPT ![a] = Off]
    /\ UNCHANGED <<process, pidFile, launches, overlapped>>

\* A child binds its port, or gives up because --strict-port finds it taken.
ChildServes(p) ==
    /\ process[p].st = "starting"
    /\ process' = [process EXCEPT ![p] =
          IF port_is_free(@.port) THEN [@ EXCEPT !.st = "serving"] ELSE Dead]
    /\ UNCHANGED <<auspex, pidFile, launches, overlapped>>

\* A process that was told to terminate does so, after serving for a while yet.
Terminates(p) ==
    /\ Alive(p) /\ process[p].termed
    /\ process' = [process EXCEPT ![p] = Dead]
    /\ UNCHANGED <<auspex, pidFile, launches, overlapped>>

\* The user's own Omegon takes the default port if it is free, and leaves it.
UserServes ==
    /\ process[UserPid].st = "unused" /\ port_is_free(DefaultPort)
    /\ process' = [process EXCEPT ![UserPid].st = "serving"]
    /\ UNCHANGED <<auspex, pidFile, launches, overlapped>>

UserStops ==
    /\ process[UserPid].st = "serving"
    /\ process' = [process EXCEPT ![UserPid] = Dead]
    /\ UNCHANGED <<auspex, pidFile, launches, overlapped>>

OwNext ==
    \/ \E a \in Auspexes :
          \/ Launch(a) \/ Probe(a) \/ AttachExisting(a) \/ AttachExistingFails(a)
          \/ Sweep(a) \/ ChoosePort(a) \/ Spawn(a) \/ SpawnFails(a)
          \/ Handshake(a) \/ HandshakeFails(a) \/ BecomeReady(a) \/ PollingFails(a)
          \/ Restart(a) \/ RestartWithoutBinary(a) \/ Exit(a) \/ Crash(a)
    \/ \E p \in Pids : ChildServes(p) \/ Terminates(p)
    \/ UserServes \/ UserStops

OwSpec == OwInit /\ [][OwNext]_owVars

----------------------------------------------------------------------------
\* The state is well formed, and a port is served by at most one process.
OwTypeOK ==
    /\ \A a \in Auspexes :
          /\ auspex[a].phase \in Phases /\ auspex[a].port \in Ports
          /\ auspex[a].child \in Pids \cup {NoPid} /\ auspex[a].at \in AllPids \cup {NoPid}
          /\ auspex[a].hook \in BOOLEAN /\ auspex[a].old \subseteq Pids
          /\ {auspex[a].cap, auspex[a].bridge} \subseteq 0..launches
    /\ \A p \in AllPids : process[p].st \in {"unused", "starting", "serving", "dead"}
    /\ pidFile \in Pids \cup {NoPid}
    /\ \A q \in Ports : Cardinality(ServingOn(q)) <= 1

\* As long as Auspex processes follow one another, whatever crashes, restarts and
\* failed launches came before: from the spawn of a child on, and beside a primary that
\* was reused, at most one owned Omegon is left that was not told to terminate (the
\* sweep by command line, the pid file remembering one child only).
OneOwnedOmegon ==
    ~overlapped /\ (\E a \in Auspexes : auspex[a].phase \in {"handshake", "polling", "up", "failed"})
    => Cardinality({p \in OwnedProcesses : ~process[p].termed}) <= 1

\* Auspex processes following one another, a normal exit of one that spawned an Omegon
\* leaves none behind: no step of the launch may lose the pid of a running child
\* (register_owned_omegon_exit_reaper, reap_owned_omegon_child).
ExitLeavesNothing ==
    [][\A a \in Auspexes :
         (Exit(a) /\ ~overlapped /\ auspex[a].hook) =>
             \A p \in OwnedProcesses : process'[p].termed]_owVars

\* Expected to fail.  A primary that is attached can reach the bridge: the bridge that
\* is listening has the capability the primary was launched with ("Refuse to reuse an
\* existing primary unless startup metadata proves the expected extension and bridge
\* protocol generation are loaded").
BridgeServesThePrimary ==
    \A a \in Auspexes :
        auspex[a].phase = "up" /\ auspex[a].old = {}
        => auspex[a].bridge # 0 /\ process[auspex[a].at].cap \in {0, auspex[a].bridge}

\* Expected to fail.  After a restart Auspex is attached to an Omegon that started after
\* it ("Kill the owned Omegon process and respawn it ... Picks up fresh auth from disk").
RestartIsFresh ==
    \A a \in Auspexes : auspex[a].phase = "up" => auspex[a].at \notin auspex[a].old

\* Expected to fail.  A sweep spares the Omegon a running Auspex is attached to ("Sweep
\* every orphaned Auspex-owned serve process").
SweepsSpareTheLiving ==
    \A a \in Auspexes :
        auspex[a].phase = "up" /\ auspex[a].at \in Pids /\ auspex[a].at \notin auspex[a].old
        => ~process[auspex[a].at].termed

\* Launches, crashes and exits of Auspex processes that follow one another leave one owned
\* Omegon at most while one of them runs and none behind.
OwnedOmegonIsReaped == []OneOwnedOmegon /\ ExitLeavesNothing
=============================================================================
