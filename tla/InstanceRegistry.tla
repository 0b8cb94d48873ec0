-------------------------- MODULE InstanceRegistry --------------------------
(***************************************************************************)
(* The instances Auspex knows and those an operator can command.           *)
(*                                                                         *)
(* The controller keeps the registry twice: `instance_registry`, which the *)
(* views and the file on disk show, and the `registry_store` of the        *)
(* attached-instance engine, from which the other is overwritten at every  *)
(* iteration of the app loop.  Four sources write into them: the session   *)
(* with the primary agent (its host and its dispatcher), the probe of      *)
(* configured remotes, podman's list of containers, and the operator's     *)
(* attach of a local agent.  The engine also keeps the attached instances, *)
(* which are the command routes the operator can select.                   *)
(*                                                                         *)
(* Every handler that changes the registry ends by writing it to disk, so  *)
(* at a crash the file holds `reg` or, when the crash hits the write       *)
(* (std::fs::write truncates first), nothing that can be parsed.           *)
(*                                                                         *)
(* Only comparisons with the two thresholds matter of a last_seen time, so *)
(* a record carries its age, which stops growing at AbandonAfter.          *)
(* last_heartbeat_at is always set together with last_seen_at.             *)
(***************************************************************************)
EXTENDS Integers, Sequences, FiniteSets, SequencesExt

CONSTANTS
    Hosts,         \* instance ids the session's descriptor may name
    Dispatchers,   \* instance ids the session's binding may name
    Remotes,       \* remotes the configuration may list, `remote:<name>`
    Containers,    \* agents in containers, `container:<name>`
    Locals,        \* local agents the operator may attach
    NoId,          \* no instance
    Endpoint,      \* Endpoint[i]: the base URL of a remote or container
    Detached,      \* the instances with role DetachedService
    StaleAfter,    \* STALE_AFTER_SECONDS, in units of the clock
    AbandonAfter   \* ABANDON_AFTER_SECONDS

Ids == Hosts \cup Dispatchers \cup Remotes \cup Containers \cup Locals
Probed == Remotes \cup Containers

ASSUME RegistryAssumption ==
    /\ NoId \notin Ids
    /\ IsFiniteSet(Ids)
    /\ Hosts \cap Dispatchers = {}
    /\ Probed \cap (Hosts \cup Dispatchers \cup Locals) = {}
    /\ Remotes \cap Containers = {}
    /\ DOMAIN Endpoint = Probed
    /\ Detached \subseteq Ids
    /\ StaleAfter \in Nat \ {0}
    /\ AbandonAfter \in Nat
    /\ StaleAfter < AbandonAfter

VARIABLES
    reg,       \* instance_registry
    eng,       \* registry_store of the engine
    att,       \* attached_instances of the engine, in order
    selected,  \* selected_command_route_id of the engine
    session,   \* what the session reports: a host and a dispatcher
    links,     \* instances with an open event stream (instance_sessions)
    pc,        \* where the app loop is: "loop", "probing" or "probed"
    targets,   \* the remotes being probed across the await
    results,   \* what the probes answered: [ready, version] of a remote
    health,    \* external: health[i] of the remotes and containers
    config,    \* external: the remotes listed in the configuration
    calm,      \* external: nothing outside the app changes any more
    seen,      \* history: instances this process has seen alive
    chosen,    \* history: the route the operator selected last
    missed     \* history: has that route been missing since?

controller == <<reg, eng, att, selected>>
history == <<seen, chosen, missed>>
world == <<health, config, calm>>
vars == <<controller, session, links, pc, targets, results, world, history>>

-----------------------------------------------------------------------------
(* Records, sessions and routes.                                           *)

Never == -1         \* last_seen_at is absent, or is no number

Ages == {Never} \cup (0 .. AbandonAfter)
Owners == {"external", "auspex", "session", "detached", "own"}
Statuses == {"Requested", "Starting", "Ready", "Degraded", "Lost",
             "Abandoned", "Exited"}
Freshness == {"None", "Fresh", "Stale", "Abandoned"}

\* An InstanceRecord.  Its owner is another program, the discovery's literal
\* "auspex", the session (named or "detached"), or the key that an attachment
\* of this very instance makes up from its id.
Record == [owner : Owners, status : Statuses, ready : BOOLEAN,
           fresh : Freshness, age : Ages, version : BOOLEAN]

IsRegistry(store) ==
    DOMAIN store \subseteq Ids /\ store \in [DOMAIN store -> Record]

Session == [host : Hosts \cup {NoId}, dispatcher : Dispatchers \cup {NoId}]

\* The part of session_audit_key that record owners are compared with.
session_audit_key(ses) ==
    IF ses.dispatcher # NoId THEN "session" ELSE "detached"

HostRoute == [kind |-> "host-control-plane", id |-> NoId]
DispatcherRoute == [kind |-> "session-dispatcher", id |-> NoId]
LocalShell == [kind |-> "local-shell", id |-> NoId]
InstanceRoute(i) == [kind |-> "instance", id |-> i]

Route == {HostRoute, DispatcherRoute, LocalShell}
           \cup {InstanceRoute(i) : i \in Ids}

\* An AttachedInstanceRecord: a session key and a route to an instance.
Entry == [id : Ids, route : Route, key : Owners]

AttachedIds(a) == {a[n].id : n \in DOMAIN a}
AttachedRoutes(a) == {a[n].route : n \in DOMAIN a}

\* The entries of instances in S, in their order.
EntriesIn(a, S) ==
    LET kept[n \in 0 .. Len(a)] ==
            IF n = 0 THEN <<>>
            ELSE IF a[n].id \in S THEN Append(kept[n - 1], a[n]) ELSE kept[n - 1]
    IN  kept[Len(a)]

\* The fallback local-shell is a route only while nothing is attached.
available_command_routes(a) ==
    IF a = <<>> THEN {LocalShell} ELSE AttachedRoutes(a)

selected_command_route_id(a, sel) ==
    CASE sel \in available_command_routes(a)            -> sel
      [] sel \notin available_command_routes(a)
           /\ DispatcherRoute \in AttachedRoutes(a)     -> DispatcherRoute
      [] OTHER -> IF a = <<>> THEN LocalShell ELSE a[1].route

-----------------------------------------------------------------------------
(* The engine's operations on c = [reg, eng, att, selected].               *)

Put(store, more) ==
    [i \in DOMAIN store \cup DOMAIN more |->
        IF i \in DOMAIN more THEN more[i] ELSE store[i]]

Keep(store, S) == [i \in DOMAIN store \cap S |-> store[i]]

\* The record of a freshly attached instance: whatever is known of it, it is
\* now owned by the attachment, ready and fresh; its age is not touched.
synthesize_instance_record(store, i, key) ==
    LET known == i \in DOMAIN store
    IN  [owner   |-> key,
         status  |-> "Ready",
         ready   |-> TRUE,
         fresh   |-> "Fresh",
         age     |-> IF known THEN store[i].age ELSE Never,
         version |-> known /\ store[i].version]

\* attach_instance for each entry of a sequence, the records being taken from
\* `from`: an attached instance is replaced in place, another one appended.
AttachAll(c, entries, from) ==
    LET EntryOf(i) == entries[CHOOSE n \in DOMAIN entries : entries[n].id = i]
        new == AttachedIds(entries) \ AttachedIds(c.att)
    IN  [c EXCEPT
          !.eng = Put(@, [i \in AttachedIds(entries) |->
                     synthesize_instance_record(from, i, EntryOf(i).key)]),
          !.att = [n \in DOMAIN @ |->
                     IF @[n].id \in AttachedIds(entries)
                     THEN EntryOf(@[n].id) ELSE @[n]]
                  \o EntriesIn(entries, new)]

attach_instance(c, entry, from) == AttachAll(c, <<entry>>, from)

OwnEntry(i) == [id |-> i, route |-> InstanceRoute(i), key |-> "own"]
OwnEntries(S) == LET s == SetToSeq(S) IN [n \in DOMAIN s |-> OwnEntry(s[n])]

\* Only a record the session owns goes with the attachment.
detach_instances(c, S, ses) ==
    [c EXCEPT
      !.att = EntriesIn(@, Ids \ S),
      !.eng = Keep(@, {i \in Ids : i \in DOMAIN @ =>
                 ~(i \in S /\ @[i].owner = session_audit_key(ses))})]

\* Mutant: every record the session owns is purged, active or not.
purge_active_instances(c, active, ses) ==
    [c EXCEPT !.eng = Keep(@, {i \in Ids : i \in DOMAIN @ =>
                 @[i].owner # session_audit_key(ses) \/ i \in Detached})]

\* Mutant: a detached service is purged like any other record.
purge_detached_services(c, active, ses) ==
    [c EXCEPT !.eng = Keep(@, {i \in Ids : i \in DOMAIN @ =>
                 @[i].owner # session_audit_key(ses) \/ i \in active})]

\* What the session no longer reports is dropped; a detached service is kept
\* as lost.
purge_stale_instances(c, active, ses) ==
    LET Purged(i) == /\ c.eng[i].owner = session_audit_key(ses)
                     /\ i \notin active
    IN  [c EXCEPT
          !.att = EntriesIn(@, active),
          !.eng = [i \in {j \in DOMAIN @ : Purged(j) => j \in Detached} |->
                     IF Purged(i)
                     THEN [@[i] EXCEPT !.status = "Lost", !.ready = FALSE,
                                       !.fresh = "Stale"]
                     ELSE @[i]]]

\* Mutant: age alone never takes readiness away.
AgedButReady(r) ==
    CASE r.age = Never         -> r
      [] r.age >= AbandonAfter -> [r EXCEPT !.status = "Abandoned", !.fresh = "Abandoned"]
      [] OTHER                 -> r

\* evaluate_lifecycle_policy on one record.
Aged(r) ==
    CASE r.age = Never            -> r
      [] r.age >= AbandonAfter    ->
            [r EXCEPT !.status = "Abandoned", !.ready = FALSE,
                      !.fresh = "Abandoned"]
      [] r.age \in StaleAfter .. (AbandonAfter - 1) ->
            [r EXCEPT !.status = IF @ = "Ready" THEN "Lost" ELSE @,
                      !.ready = FALSE, !.fresh = "Stale"]
      [] OTHER                    -> [r EXCEPT !.fresh = "Fresh"]

evaluate_lifecycle_policy(store) == [i \in DOMAIN store |-> Aged(store[i])]

\* A session without a descriptor is hosted by a record it owns: the first
\* one in the file, any one here.
HostsFor(store, ses) ==
    LET owned == {i \in DOMAIN store : /\ store[i].owner = session_audit_key(ses)
                                       /\ i # ses.dispatcher}
    IN  IF ses.host # NoId THEN {ses.host}
        ELSE IF owned = {} THEN {NoId} ELSE owned

reconcile_attached_instances(host, ses) ==
    LET key == session_audit_key(ses)
    IN  (IF host = NoId THEN <<>>
         ELSE <<[id |-> host, route |-> HostRoute, key |-> key]>>)
        \o (IF ses.dispatcher = NoId THEN <<>>
            ELSE <<[id |-> ses.dispatcher, route |-> DispatcherRoute,
                    key |-> key]>>)

\* Mutant: the new engine starts without a selection.
rebuild_without_selection(c, host, ses) ==
    LET fresh == [reg |-> c.reg, eng |-> c.reg, att |-> <<>>,
                  selected |-> LocalShell]
        d == AttachAll(fresh, reconcile_attached_instances(host, ses), c.reg)
    IN  [d EXCEPT !.reg = d.eng]

\* The engine is made anew from the registry and the session: everything else
\* is detached.  The route in force stays selected.
rebuild_attached_instances(c, host, ses) ==
    LET fresh == [reg |-> c.reg, eng |-> c.reg, att |-> <<>>,
                  selected |-> selected_command_route_id(c.att, c.selected)]
        d == AttachAll(fresh, reconcile_attached_instances(host, ses), c.reg)
    IN  [d EXCEPT !.reg = d.eng]

-----------------------------------------------------------------------------
(* The controller's handlers.                                              *)

ctrl == [reg |-> reg, eng |-> eng, att |-> att, selected |-> selected]

\* The views and the file follow the engine.
Published(c) == [c EXCEPT !.reg = c.eng]

evaluate_instance_lifecycle(c) ==
    Published([c EXCEPT !.eng = evaluate_lifecycle_policy(@)])

handle_session_mutation(c, host, ses) ==
    LET d == rebuild_attached_instances(c, host, ses)
    IN  Published(purge_stale_instances(d, AttachedIds(d.att), ses))

\* The descriptor's instance is attached once more, now under its own key.
sync_primary_descriptor_to_registry(c, ses) ==
    IF ses.host \in DOMAIN c.reg
    THEN Published(attach_instance(c, OwnEntry(ses.host), c.reg)) ELSE c

\* A container at the endpoint of a known remote is left to the remote.
Shadowed(store, i) ==
    \E r \in DOMAIN store \cap Remotes : Endpoint[r] = Endpoint[i]

container_to_instance_record(i) ==
    [owner |-> "auspex", status |-> IF health[i] = "up" THEN "Ready" ELSE "Starting",
     ready |-> health[i] = "up", fresh |-> "None", age |-> 0, version |-> FALSE]

discover_and_probe ==
    [i \in {j \in Containers : health[j] # "absent"} |->
        container_to_instance_record(i)]

register_container_agents(c, S, from) ==
    Published(AttachAll(c, OwnEntries(S), from))

\* Discovered containers that are ready are attached...
register_discovered(c, found) ==
    LET S == {i \in DOMAIN found : found[i].ready /\ ~Shadowed(c.reg, i)}
    IN  IF S = {} THEN c ELSE register_container_agents(c, S, found)

\* ... and one that is gone is marked in the registry and detached from the
\* engine.
detach_disappeared(c, found, ses) ==
    LET stale == {i \in DOMAIN c.reg \cap Containers :
                    /\ i \notin DOMAIN found
                    /\ c.reg[i].status # "Exited"}
    IN  detach_instances(c, stale, ses)

reattach_container_agents(c) ==
    LET S == {i \in DOMAIN c.reg \cap Containers :
                c.reg[i].ready /\ ~Shadowed(c.reg, i)}
    IN  IF S = {} THEN c ELSE register_container_agents(c, S, c.reg)

to_instance_record ==
    [owner |-> "external", status |-> "Requested", ready |-> FALSE,
     fresh |-> "None", age |-> Never, version |-> FALSE]

register_remote_instances(c) ==
    Published(AttachAll(c, OwnEntries(config),
                        [i \in config |-> to_instance_record]))

remote_instances_needing_probe(store) ==
    {i \in DOMAIN store \cap Remotes : ~store[i].ready \/ ~store[i].version}

\* Probe results are written to the registry; a remote that answered is
\* attached unless it is.
attach_probed_remotes(c, res) ==
    LET known == DOMAIN res \cap DOMAIN c.reg
        probed == [i \in known |->
                     [c.reg[i] EXCEPT !.status = "Ready", !.age = 0,
                                      !.fresh = "Fresh", !.ready = TRUE,
                                      !.version = @ \/ res[i].version]]
        new == {i \in known : res[i].ready /\ i \notin AttachedIds(c.att)}
    IN  AttachAll(c, OwnEntries(new), probed)

\* What a successful probe of a local agent says of it: ready, last seen at
\* "probe-local", which is no number.
instance_record_from_startup_descriptor ==
    [owner |-> "external", status |-> "Ready", ready |-> TRUE,
     fresh |-> "Fresh", age |-> Never, version |-> TRUE]

apply_local_omegon_probe_attachment(c, i) ==
    Published([attach_instance(c, OwnEntry(i),
                 [j \in {i} |-> instance_record_from_startup_descriptor])
               EXCEPT !.selected = InstanceRoute(i)])

\* A persisted record of a local process that another program owns is only
\* evidence.
stale_rehydrated(store) ==
    [i \in DOMAIN store |->
        IF store[i].owner = "external" /\ i \notin Probed
        THEN [store[i] EXCEPT !.ready = FALSE, !.fresh = "Stale",
                              !.status = IF @ = "Ready" THEN "Degraded" ELSE @]
        ELSE store[i]]

-----------------------------------------------------------------------------
(* Actions.                                                                *)

Becomes(c) ==
    \E d \in {c} :
        reg' = d.reg /\ eng' = d.eng /\ att' = d.att /\ selected' = d.selected

\* The history variables of a step in which the operator selects nothing.
Remember(alive) ==
    /\ seen' = seen \cup alive
    /\ missed' = (missed \/ chosen \notin available_command_routes(att'))
    /\ UNCHANGED chosen

Init ==
    /\ reg = <<>>
    /\ eng = <<>>
    /\ att = <<>>
    /\ selected = LocalShell
    /\ session = [host |-> NoId, dispatcher |-> NoId]
    /\ links = {}
    /\ pc = "loop"
    /\ targets = {}
    /\ results = <<>>
    /\ health = [i \in Probed |-> "absent"]
    /\ config = {}
    /\ calm = FALSE
    /\ seen = {}
    /\ chosen = LocalShell
    /\ missed = FALSE

\* An iteration of the app loop: the lifecycle policy, which attaches and
\* detaches nothing; then the streams of instances that are no longer attached
\* are closed.
Evaluate(c) ==
    /\ Becomes(c)
    /\ links' = links \cap AttachedIds(att)
    /\ UNCHANGED <<session, results, world>>

PlainTick ==
    /\ pc = "loop"
    /\ Evaluate(evaluate_instance_lifecycle(ctrl))
    /\ Remember({})
    /\ UNCHANGED <<pc, targets>>

\* The engine's registry replaces the marked one, and what was discovered is
\* put over it.  The evaluation that begins every iteration has made the two
\* registries equal.
reconcile_container_agents(c) ==
    \E found \in {discover_and_probe} :
    \E d \in {register_discovered(c, found)} :
    \E e \in {detach_disappeared(d, found, session)} :
        Evaluate([e EXCEPT !.reg = Put(e.eng, found)])

\* Every hundredth iteration reconciles the containers,
ReconcileTick ==
    /\ pc = "loop"
    /\ \E c \in {evaluate_instance_lifecycle(ctrl)} : reconcile_container_agents(c)
    /\ Remember({i \in Containers : health[i] = "up"})
    /\ UNCHANGED <<pc, targets>>

\* and, half way between, one collects the remotes to probe.
ProbeTick ==
    /\ pc = "loop"
    /\ Evaluate(evaluate_instance_lifecycle(ctrl))
    /\ targets' = remote_instances_needing_probe(reg')
    /\ pc' = IF targets' = {} THEN "loop" ELSE "probing"
    /\ Remember({})

\* The probes run across an await.
probe_remote_instances ==
    /\ pc = "probing"
    /\ pc' = "probed"
    /\ \E V \in SUBSET {i \in targets : health[i] = "up"} :
          results' = [i \in targets |-> [ready |-> health[i] = "up",
                                         version |-> i \in V]]
    /\ UNCHANGED <<controller, session, links, targets, world>>
    /\ Remember({i \in targets : health[i] = "up"})

\* Then the engine's registry replaces the written one, and readiness and
\* version are put over it.
apply_remote_probe_results(known) ==
    \E d \in {attach_probed_remotes(ctrl, results)} :
        LET Merged(i) == [d.eng[i] EXCEPT !.ready = results[i].ready,
                                          !.version = @ \/ results[i].version]
        IN  Becomes(IF known = {} THEN ctrl
                    ELSE [d EXCEPT !.reg =
                            Put(d.eng, [i \in known \cap DOMAIN d.eng |-> Merged(i)])])

ApplyProbeResults ==
    /\ pc = "probed"
    /\ pc' = "loop"
    /\ apply_remote_probe_results(DOMAIN results \cap DOMAIN reg)
    /\ links' = links \cup {i \in DOMAIN results \cap DOMAIN reg : results[i].ready}
    /\ targets' = {}
    /\ results' = <<>>
    /\ Remember({})
    /\ UNCHANGED <<session, world>>

\* A session event: the loop applies it, and the descriptor is synced.
SessionEvent(ses) ==
    /\ ~calm
    /\ pc = "loop"
    /\ \E host \in HostsFor(reg, ses) :
          Becomes(sync_primary_descriptor_to_registry(
                    handle_session_mutation(ctrl, host, ses), ses))
    /\ session' = ses
    /\ Remember({})
    /\ UNCHANGED <<links, pc, targets, results, world>>

\* A state snapshot, a command outcome, a disconnect or a dispatch failure:
\* the session is refreshed without the sync.  A dispatch failure comes from
\* the view and may do so while the loop awaits its probes.
SessionRefresh(ses) ==
    /\ ~calm
    /\ pc # "loop" => ses = session
    /\ \E host \in HostsFor(reg, ses) :
          Becomes(handle_session_mutation(ctrl, host, ses))
    /\ session' = ses
    /\ Remember({})
    /\ UNCHANGED <<links, pc, targets, results, world>>

\* The operator picks a route from the list,
select_command_route(route) ==
    /\ ~calm
    /\ route \in available_command_routes(att)
    /\ selected' = route
    /\ UNCHANGED <<reg, eng, att, session, links, pc, targets, results, world>>
    /\ seen' = seen /\ chosen' = route /\ missed' = FALSE

\* or attaches a local agent, which selects it.
AttachLocal(i) ==
    /\ ~calm
    /\ Becomes(apply_local_omegon_probe_attachment(ctrl, i))
    /\ UNCHANGED <<session, links, pc, targets, results, world>>
    /\ seen' = seen \cup {i} /\ chosen' = InstanceRoute(i) /\ missed' = FALSE

\* A crash or an exit, and a new process: the registry is read from the file
\* (torn: the crash hit the write), rehydrated when the app starts its own
\* agent, and rebuilt; then containers and remotes are attached.
Restart(torn, spawned, ses) ==
    LET file == IF torn THEN <<>> ELSE reg
        loaded == [reg |-> IF spawned THEN stale_rehydrated(file) ELSE file,
                   eng |-> <<>>, att |-> <<>>, selected |-> LocalShell]
    IN  /\ ~calm
        /\ \E host \in HostsFor(loaded.reg, ses) :
              Becomes(register_remote_instances(reattach_container_agents(
                        rebuild_attached_instances(loaded, host, ses))))
        /\ session' = ses
        /\ links' = {}
        /\ pc' = "loop"
        /\ targets' = {}
        /\ results' = <<>>
        /\ seen' = {} /\ chosen' = LocalShell /\ missed' = TRUE
        /\ UNCHANGED world

\* External: time passes, endpoints come and go, the configuration is edited,
\* and, where a liveness property needs it, all of that ends.
Older(store) ==
    [i \in DOMAIN store |->
        [store[i] EXCEPT !.age = IF @ \in 0 .. (AbandonAfter - 1) THEN @ + 1 ELSE @]]

TimePasses ==
    /\ reg' = Older(reg)
    /\ eng' = Older(eng)
    /\ UNCHANGED <<att, selected, session, links, pc, targets, results, world, history>>

HealthChanges(i, h) ==
    /\ ~calm
    /\ health' = [health EXCEPT ![i] = h]
    /\ UNCHANGED <<controller, session, links, pc, targets, results, config, calm, history>>

ConfigEdited(S) ==
    /\ ~calm
    /\ config' = S
    /\ UNCHANGED <<controller, session, links, pc, targets, results, health, calm, history>>

Calm ==
    /\ calm' = TRUE
    /\ UNCHANGED <<controller, session, links, pc, targets, results, health, config, history>>

Loop ==
    \/ PlainTick \/ ReconcileTick \/ ProbeTick
    \/ probe_remote_instances \/ ApplyProbeResults

Next ==
    \/ Loop
    \/ \E ses \in Session : SessionEvent(ses) \/ SessionRefresh(ses)
    \/ \E route \in Route : select_command_route(route)
    \/ \E i \in Locals : AttachLocal(i)
    \/ \E torn, spawned \in BOOLEAN, ses \in Session : Restart(torn, spawned, ses)
    \/ TimePasses
    \/ \E i \in Probed, h \in {"absent", "down", "up"} : HealthChanges(i, h)
    \/ \E S \in SUBSET Remotes : ConfigEdited(S)
    \/ Calm

Spec == Init /\ [][Next]_vars

(***************************************************************************)
(* The loop turns for ever, its counter makes it reconcile and probe again *)
(* and again, and time passes.  Probes have a timeout, so they end.        *)
(***************************************************************************)
Fairness ==
    /\ SF_vars(ReconcileTick)
    /\ WF_vars(ProbeTick)
    /\ WF_vars(probe_remote_instances)
    /\ WF_vars(ApplyProbeResults)
    /\ WF_vars(TimePasses)
    /\ WF_vars(Calm)

FairSpec == Spec /\ Fairness

-----------------------------------------------------------------------------
(* Properties.                                                             *)

\* The types of the variables.
TypeOK ==
    /\ IsRegistry(reg)
    /\ IsRegistry(eng)
    /\ att \in Seq(Entry)
    /\ selected \in Route
    /\ session \in Session
    /\ links \subseteq Remotes
    /\ pc \in {"loop", "probing", "probed"}
    /\ targets \subseteq Remotes
    /\ DOMAIN results \subseteq targets
    /\ \A i \in DOMAIN results :
          results[i] \in [ready : BOOLEAN, version : BOOLEAN]
    /\ health \in [Probed -> {"absent", "down", "up"}]
    /\ config \subseteq Remotes
    /\ calm \in BOOLEAN
    /\ seen \subseteq Ids
    /\ chosen \in Route
    /\ missed \in BOOLEAN

\* Every command route leads to an instance with a record in both copies of
\* the registry, is the only one to it, and no instance is attached twice:
\* detaching, purging and rebuilding never leave the two apart.
AttachedAreKnown ==
    /\ AttachedIds(att) \subseteq DOMAIN eng \cap DOMAIN reg
    /\ \A m, n \in DOMAIN att :
          att[m].id = att[n].id \/ att[m].route = att[n].route => m = n

\* As long as the route the operator selected has not gone missing since, it
\* is the route commands take, however often the engine is rebuilt.
ChoiceIsHonoured ==
    ~missed => selected_command_route_id(att, selected) = chosen

\* A detached service never leaves the registry, whatever the session stops
\* reporting and whatever is detached or purged; only a file torn by a crash
\* loses one.
DetachedServicesAreKept ==
    [][\A i \in Detached \cap DOMAIN eng :
         i \in DOMAIN eng' \cap DOMAIN reg'
           \/ \E spawned \in BOOLEAN : Restart(TRUE, spawned, session')]_vars

\* In the end every open event stream belongs to an attached instance: those
\* of instances a session event has detached are closed.
LinksClose == <>[](links \subseteq AttachedIds(att))

\* A container that is gone for good is eventually not reported ready.
GoneIsNoticed ==
    <>[](\A i \in Containers \cap DOMAIN reg :
            health[i] = "absent" => ~reg[i].ready)

\* A remote that this process has probed and that goes on answering is in the
\* end attached, with an open event stream, however often a session event has
\* detached it.
RemoteReturns ==
    <>[](\A i \in Remotes \cap seen :
            health[i] = "up" => i \in links \cap AttachedIds(att))

\* A remote that answers every probe is shown as ready again and again:
\* "combine them with control-plane readiness evidence when available"
\* (docs/auspex-instance-lifecycle-policy.md).  It is not: the engine's copy
\* of an attached remote never learns of a probe.
HealthyRemoteIsReady ==
    \A i \in Remotes :
        <>[](i \in seen /\ health[i] = "up")
            => []<>(i \in DOMAIN reg /\ reg[i].status = "Ready")

\* "Containers that disappeared are marked as exited" (comment of
\* reconcile_container_agents).  The mark is overwritten in the same call.
DisappearedAreExited ==
    [][ReconcileTick =>
         \A i \in Containers \cap DOMAIN reg' :
            health[i] = "absent" => reg'[i].status = "Exited"]_vars

\* A rehydrated local record is "stale/read-only evidence" until this process
\* has probed it (docs/local-attach-persistence-and-rehydration.md).
RehydratedIsStale ==
    \A i \in Locals \cap DOMAIN reg : reg[i].ready => i \in seen

\* No endpoint is attached both as a configured remote and as a container:
\* "to avoid duplicate entries for the same endpoint" (comment of
\* reattach_container_agents).
OneEntryPerEndpoint ==
    \A i \in Remotes, j \in Containers :
        Endpoint[i] = Endpoint[j] => ~({i, j} \subseteq AttachedIds(att))

\* What has happened outside is noticed in the end, whatever session events, probes and
\* restarts come between: a container that is gone is not ready, and the streams of detached
\* instances are closed.
RegistryCatchesUp == GoneIsNoticed /\ LinksClose
=============================================================================
