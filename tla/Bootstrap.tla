----------------------------- MODULE Bootstrap -----------------------------
(***************************************************************************)
(* How Auspex finds its session at startup (auspex-core/src/bootstrap.rs): *)
(* the environment decides the source, the desktop login and the profile   *)
(* decide the model an owned Omegon is started with, and an attach reads   *)
(* the startup metadata, the state and the IPC handshake one request after *)
(* the other, while the Omegon behind the address may be replaced.         *)
(***************************************************************************)
EXTENDS Integers, Sequences

CONSTANTS
    Providers,        \* provider keys; Preferred orders those Auspex looks for
    Preferred,
    Unset,            \* no provider, no answer
    MaxServers        \* Omegon incarnations behind the address

ASSUME BootstrapAssumption ==
    Preferred \in Seq(Providers) /\ Unset \notin Providers /\ MaxServers \in Nat \ {0}

VARIABLES
    host,      \* external: the Omegon that answers at the address
    login,     \* external: the providers `omegon auth status` reports authenticated
    profile,   \* .omegon/profile.json
    boot       \* the startup of Auspex

btVars == <<host, login, profile, boot>>

\* What the environment and the disk offer to bootstrap_controller_from_env and to
\* find_omegon_binary.
Environments == [scenario : BOOLEAN, snapshot : {"none", "good", "bad"}, stateUrl : BOOLEAN,
                 override : BOOLEAN, bundled : {"none", "verified", "altered"},
                 workspace : BOOLEAN, system : BOOLEAN, allowSystem : BOOLEAN]

\* Version is the place of omegon_version among minimum and maximum tested; ipc how
\* much of the native protocol is there.
Hosts == [server : 1..MaxServers, schema : {"expected", "other"},
          version : {"missing", "old", "tested", "newer"},
          discovery : BOOLEAN, ipc : {"none", "dead", "partial", "full"}]

\* verify_packaged_omegon and the order of find_omegon_binary: the override, the
\* bundled sidecar if manifest and digest match, a workspace build, and a system
\* install only when it is allowed.
find_omegon_binary(e) ==
    CASE e.override -> "override"
      [] ~e.override /\ e.bundled = "verified" -> "bundled"
      [] ~e.override /\ e.bundled # "verified" /\ e.workspace -> "workspace"
      [] ~e.override /\ e.bundled # "verified" /\ ~e.workspace /\ e.system /\ e.allowSystem -> "system"
      [] OTHER -> "none"

\* bootstrap_controller_from_env: fixture, snapshot file, state URL, owned Omegon.
bootstrap_controller_from_env(e) ==
    CASE e.scenario -> "fixture"
      [] ~e.scenario /\ e.snapshot = "good" -> "snapshot"
      [] ~e.scenario /\ e.snapshot = "bad" -> "startup_failure"
      [] ~e.scenario /\ e.snapshot = "none" /\ e.stateUrl -> "booting"
      [] ~e.scenario /\ e.snapshot = "none" /\ ~e.stateUrl /\ find_omegon_binary(e) # "none" -> "spawning"
      [] OTHER -> "startup_failure"

\* validate_startup_info, validate_omegon_version.
validate_startup_info(i) ==
    CASE i.schema = "other" -> "schema mismatch"
      [] i.schema # "other" /\ i.version = "missing" -> "no version"
      [] i.schema # "other" /\ i.version = "old" -> "too old"
      [] i.schema # "other" /\ i.version = "newer" -> "warning"
      [] OTHER -> "ok"

Accepted(verdict) == verdict \in {"ok", "warning"}

\* preferred_authenticated_omegon_model: the first preferred provider that is logged in.
preferred_authenticated_omegon_model(auth) ==
    IF \E i \in DOMAIN Preferred : Preferred[i] \in auth
    THEN Preferred[CHOOSE i \in DOMAIN Preferred :
                      Preferred[i] \in auth /\ \A j \in 1..(i - 1) : Preferred[j] \notin auth]
    ELSE Unset

\* ensure_profile_path_uses_model: the provider is replaced when it is not the preferred
\* one, posture and thinking level are always Auspex's; a file that cannot be read stays.
ensure_profile_path_uses_model(p, model) ==
    IF ~p.readable THEN p
    ELSE [p EXCEPT !.provider = IF model # Unset THEN model ELSE p.provider,
                   !.posture = "architect"]

BootIdle == [step |-> "env", binary |-> "none", startup |-> "undiscovered", state |-> 0, hello |-> 0,
             ipcState |-> 0, transport |-> "none", verdict |-> "ok", model |-> Unset]

BtInit ==
    /\ host \in [server : {1}, schema : {"expected"}, version : {"tested"},
                 discovery : {TRUE}, ipc : {"full"}]
    /\ login = {}
    /\ profile \in {[readable |-> TRUE, provider |-> Unset, posture |-> "other"]}
    /\ boot = BootIdle

\* main: the environment decides how the session starts.
Start(e) ==
    /\ boot.step = "env"
    /\ boot' = [boot EXCEPT !.step = bootstrap_controller_from_env(e), !.binary = find_omegon_binary(e)]
    /\ UNCHANGED <<host, login, profile>>

\* ensure_omegon_profile_for_auspex, then the model of the serve arguments: the login
\* state is read for each.
PrepareProfile ==
    /\ boot.step = "spawning"
    /\ profile' = ensure_profile_path_uses_model(profile, preferred_authenticated_omegon_model(login))
    /\ boot' = [boot EXCEPT !.step = "serve_args"]
    /\ UNCHANGED <<host, login>>

\* build_omegon_serve_args; the child is spawned and answers.
SpawnOmegon ==
    /\ boot.step = "serve_args"
    /\ boot' = [boot EXCEPT !.step = "discover",
                            !.model = preferred_authenticated_omegon_model(login)]
    /\ UNCHANGED <<host, login, profile>>

\* An error that speaks of the "control-plane schema" would be shown as a compatibility
\* failure; none of those raised on this path does.
BootFails(verdict) == [boot EXCEPT !.step = "startup_failure", !.verdict = verdict]

\* fetch_startup_info_async and validate_startup_info: metadata that cannot be fetched is
\* done without, metadata that does not fit ends the bootstrap.
Discover ==
    /\ boot.step = "discover"
    /\ boot' = IF ~host.discovery
               THEN [boot EXCEPT !.step = "state"]
               ELSE IF Accepted(validate_startup_info(host))
               THEN [boot EXCEPT !.step = "state", !.startup = host.ipc,
                                 !.verdict = validate_startup_info(host)]
               ELSE BootFails(validate_startup_info(host))
    /\ UNCHANGED <<host, login, profile>>

\* The state is fetched and the controller built from it.
FetchState ==
    /\ boot.step = "state"
    /\ boot' = [boot EXCEPT !.step = "hello", !.state = host.server]
    /\ UNCHANGED <<host, login, profile>>

FetchStateFails ==
    /\ boot.step = "state"
    /\ boot' = BootFails("state endpoint")
    /\ UNCHANGED <<host, login, profile>>

\* The WebSocket address comes from the metadata, a hint or the state URL; state, events
\* and commands all go over HTTP and WebSocket then.
OverWebSocket == [boot EXCEPT !.step = "attached", !.transport = "websocket"]

\* negotiate_native_ipc, first half: a socket that was advertised and is there, and a hello
\* with both capabilities.
Hello ==
    /\ boot.step = "hello"
    /\ boot' = IF boot.startup \notin {"undiscovered", "none"} /\ host.ipc = "full"
               THEN [boot EXCEPT !.step = "ipc_state", !.hello = host.server]
               ELSE OverWebSocket
    /\ UNCHANGED <<host, login, profile>>

\* Second half: the initial IPC state, which must come from the server that said hello; it
\* replaces the state read over HTTP.
IpcState ==
    /\ boot.step = "ipc_state"
    /\ boot' = IF host.ipc = "full" /\ host.server = boot.hello
               THEN [boot EXCEPT !.step = "attached", !.transport = "ipc", !.ipcState = host.server]
               ELSE OverWebSocket
    /\ UNCHANGED <<host, login, profile>>

\* run_desktop_auth_action, run_auth_login: Omegon's own command changes the login state.
StartupAuthAction(p) ==
    /\ boot.step \in {"spawning", "serve_args"}
    /\ login' = IF p \in login THEN login \ {p} ELSE login \cup {p}
    /\ UNCHANGED <<host, profile, boot>>

\* The profile as the user's Omegon or an editor leaves it.
EditProfile(r, p) ==
    /\ boot.step = "env"
    /\ profile' = [readable |-> r, provider |-> p, posture |-> "other"]
    /\ UNCHANGED <<host, login, boot>>

\* The Omegon behind the address is replaced by another.
HostReplaced(h) ==
    /\ boot.step \in {"env", "discover", "state", "hello", "ipc_state"}
    /\ host.server < MaxServers /\ h.server = host.server + 1
    /\ host' = h
    /\ UNCHANGED <<login, profile, boot>>

BtNext ==
    \/ \E e \in Environments : Start(e)
    \/ PrepareProfile \/ SpawnOmegon \/ Discover \/ FetchState \/ FetchStateFails
    \/ Hello \/ IpcState
    \/ \E p \in Providers : StartupAuthAction(p)
    \/ \E r \in BOOLEAN, p \in Providers \cup {Unset} : EditProfile(r, p)
    \/ \E h \in Hosts : HostReplaced(h)

BtSpec == BtInit /\ [][BtNext]_btVars

----------------------------------------------------------------------------
\* The state is well formed, and what is attached passed the checks it could be given.
BtTypeOK ==
    /\ host \in Hosts /\ login \subseteq Providers
    /\ profile.readable \in BOOLEAN /\ profile.provider \in Providers \cup {Unset}
    /\ boot.step \in {"env", "fixture", "snapshot", "booting", "spawning", "serve_args", "discover",
                      "state", "hello", "ipc_state", "attached", "startup_failure"}
    /\ boot.transport \in {"none", "websocket", "ipc"}
    /\ boot.model \in Providers \cup {Unset}
    /\ boot.step = "attached" => Accepted(boot.verdict)
=============================================================================
