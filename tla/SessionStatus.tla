---------------------------- MODULE SessionStatus ----------------------------
(***************************************************************************)
(* What the operator is told of the primary session: the shell's state and *)
(* whether a prompt may be sent (remote_session.rs), the readiness steps   *)
(* (controller.rs), the settings panel and the composer's block (app.rs),  *)
(* and the telemetry (telemetry.rs).                                       *)
(*                                                                         *)
(* Providers are reported from two sides: by the attached Omegon in its    *)
(* snapshots, and by `omegon auth status`, which Auspex runs itself and    *)
(* writes over the session's list.  The telemetry is a copy, rebuilt by    *)
(* whoever changes what it is built from.                                  *)
(***************************************************************************)
EXTENDS Integers, Sequences, FiniteSets, Functions, Selections

CONSTANTS
    Names,       \* providers, in the order both sides list them
    KeyOf,       \* provider_status_key: the first word of a provider's name
    Routes,      \* attached instances, by command route
    Primary,     \* the route of the session itself
    Active,      \* the providers whose names begin as the session's model does
    MaxChanges   \* changes of the host and of the stored credentials

ASSUME StatusAssumption ==
    /\ Names \in Seq(Range(Names)) /\ Active \subseteq Range(Names)
    /\ Primary \in Routes /\ MaxChanges \in Nat

VARIABLES
    reporting,     \* external: the attached host: providers it lists and can use, its memory
    stored_auth,       \* external: the stored credentials
    changes,    \* changes of the two so far
    ses,        \* RemoteHostSession: harness, runtime, shell, run, prompt, last turn's telemetry
    settings,   \* SettingsAuthState
    route,      \* the selected command route
    transport,  \* TransportTelemetryData: adapter and reconciliation
    tele        \* the telemetry snapshot

ssVars == <<reporting, stored_auth, changes, ses, settings, route, transport, tele>>

AllNames == Range(Names)
Row(n, auth, known) == [name |-> n, auth |-> auth, known |-> known]
Listing(listed, auth, known) ==
    LET names == SelectAt(Names, {i \in DOMAIN Names : Names[i] \in listed})
    IN  [i \in 1..Len(names) |-> Row(names[i], names[i] \in auth, known)]

\* None: the host has sent no harness, or no runtime.
None == [sent |-> FALSE]

-----------------------------------------------------------------------------
(* remote_session.rs: a status out of what is known of the host. *)

\* status_from_harness and harness_can_execute_prompts with a harness
Authenticated(rows) == \E i \in DOMAIN rows : rows[i].auth

\* harness_can_execute_prompts: the harness decides alone; without one the runtime does.
harness_can_execute_prompts(harness, runtime) ==
    IF harness # None THEN Authenticated(harness.rows)
    ELSE runtime # None => runtime.provider

\* status_from_harness
status_from_harness(harness) ==
    IF harness.impaired \/ ~harness_can_execute_prompts(harness, None) THEN "Degraded" ELSE "Ready"

\* status_from_runtime_or_harness
status_from_runtime_or_harness(runtime, harness) ==
    IF harness # None THEN status_from_harness(harness)
    ELSE IF runtime # None => runtime.provider /\ runtime.memory THEN "Ready" ELSE "Degraded"

\* can_submit
can_submit(s) ==
    /\ ~s.busy
    /\ ~s.pending
    /\ s.shell \in {"Ready", "Degraded"}
    /\ harness_can_execute_prompts(s.harness, s.runtime)

\* The instance descriptor's runtime, as the host fills it in.
Runtime == [provider |-> reporting.auth # {}, memory |-> ~reporting.impaired]

\* project_ipc_harness_snapshot, and the harness of an HTTP snapshot or of a
\* harness_status_changed event.
Harness == [rows |-> Listing(reporting.listed, reporting.auth, TRUE), impaired |-> reporting.impaired]

\* apply_session_event of a StateSnapshot
SnapshotApplied(s, runtime, harness) ==
    [s EXCEPT !.shell = status_from_runtime_or_harness(runtime, harness),
              !.harness = harness, !.runtime = runtime]

\* apply_session_event of a HarnessStatusChanged, and refresh_provider_auth
HarnessApplied(s, harness) == [s EXCEPT !.shell = status_from_harness(harness), !.harness = harness]

\* refresh_provider_auth: without a harness it starts from the default one, which has
\* neither memory nor cleave.
refresh_provider_auth(s, rows) ==
    HarnessApplied(s, [rows |-> rows, impaired |-> IF s.harness = None THEN TRUE ELSE s.harness.impaired])

-----------------------------------------------------------------------------
(* controller.rs: the settings' inventory and the telemetry. *)

\* session_data().providers of the session
SessionRows(s) == IF s.harness = None THEN <<>> ELSE s.harness.rows

\* The rows about a provider, and whether the first of them knows its model.
Matching(rows, n) == {i \in DOMAIN rows : KeyOf[rows[i].name] = KeyOf[n]}
ModelKnown(rows, n) == Matching(rows, n) # {} /\ rows[First(Matching(rows, n))].known

\* Rows with the models that other rows know.
WithModels(rows, stored) ==
    [i \in DOMAIN rows |-> [rows[i] EXCEPT !.known = @ \/ ModelKnown(stored, rows[i].name)]]

\* merge_provider_inventory: the runtime's rows with the settings' models, then the
\* settings' rows of a key that neither the runtime nor an earlier one of them has.
merge_provider_inventory(runtime, stored) ==
    WithModels(runtime, stored) \o
    SelectAt(stored, {i \in DOMAIN stored : /\ Matching(runtime, stored[i].name) = {}
                                            /\ i = First(Matching(stored, stored[i].name))})

\* effective_provider_inventory
effective_provider_inventory(s, st) ==
    IF st.rows # <<>> THEN merge_provider_inventory(SessionRows(s), st.rows) ELSE SessionRows(s)

\* summarize_provider_inventory
summarize_provider_inventory(rows) ==
    [auth |-> Cardinality({i \in DOMAIN rows : rows[i].auth}), total |-> Len(rows)]

\* aggregate_provider_rollups: the routes shown with what the last turn said of its provider
aggregate_provider_rollups(latest, selected) == {r \in Routes : latest /\ r = selected}

\* refresh_telemetry_snapshot
refresh_telemetry_snapshot(s, st, r, t) ==
    [providers |-> summarize_provider_inventory(effective_provider_inventory(s, st)),
     quota |-> aggregate_provider_rollups(s.latest, r), transport |-> t]

\* refresh_settings_auth_status, run_settings_auth_action: the rows whose models are kept.
existing_providers(s, st) == merge_provider_inventory(SessionRows(s), st.rows)

\* parse_desktop_auth_status: a row for every provider, none with a model.
AuthStatus(stored) == Listing(AllNames, stored, FALSE)

\* Those rows, each with the model of its key if one was known.
NewRows(s, st, stored) ==
    LET rows == AuthStatus(stored)
        existing == existing_providers(s, st)
    IN  [i \in DOMAIN rows |-> [rows[i] EXCEPT !.known = ModelKnown(existing, rows[i].name)]]

Rebuilt(s, st, r, t) ==
    /\ ses' = s /\ settings' = st /\ route' = r /\ transport' = t
    /\ tele' = refresh_telemetry_snapshot(s, st, r, t)

\* Mutant: the telemetry waits for the next event of the session.
AuthReadQuietly(stored) ==
    LET rows == NewRows(ses, settings, stored) IN
    /\ ses' = refresh_provider_auth(ses, rows)
    /\ settings' = [rows |-> rows, error |-> FALSE, refreshed |-> TRUE]
    /\ UNCHANGED <<route, transport, tele>>

\* refresh_settings_auth_status, run_settings_auth_action: what a reading changes.
AuthRead(stored) ==
    LET rows == NewRows(ses, settings, stored)
    IN  Rebuilt(refresh_provider_auth(ses, rows),
                [rows |-> rows, error |-> FALSE, refreshed |-> TRUE], route, transport)

\* Their error path: the command failed, or its status afterwards could not be read.
AuthFails ==
    /\ settings' = [settings EXCEPT !.error = TRUE, !.refreshed = TRUE]
    /\ UNCHANGED <<ses, route, transport, tele>>

-----------------------------------------------------------------------------
\* from_remote_snapshot_json: the controller of an HTTP snapshot, before the settings
\* have been read.
SsInit ==
    /\ reporting = [listed |-> AllNames, auth |-> AllNames, impaired |-> FALSE]
    /\ stored_auth = AllNames
    /\ changes = 0
    /\ \E harness \in {None, Harness}, runtime \in {None, Runtime} :
          ses = [harness |-> harness, runtime |-> runtime, busy |-> FALSE, pending |-> FALSE,
                 latest |-> FALSE, shell |-> status_from_runtime_or_harness(runtime, harness)]
    /\ settings = [rows |-> <<>>, error |-> FALSE, refreshed |-> FALSE]
    /\ route = Primary
    /\ transport = "Authoritative"
    /\ tele = refresh_telemetry_snapshot(ses, settings, route, transport)

\* External: a provider or the memory of the host changes; a credential is stored or removed.
OmegonChanges ==
    /\ changes < MaxChanges
    /\ changes' = changes + 1
    /\ \E listed \in SUBSET AllNames, impaired \in BOOLEAN : \E auth \in SUBSET listed :
          reporting' = [listed |-> listed, auth |-> auth, impaired |-> impaired]
    /\ UNCHANGED <<stored_auth, ses, settings, route, transport, tele>>

CredentialsChange ==
    /\ changes < MaxChanges
    /\ changes' = changes + 1
    /\ stored_auth' \in SUBSET AllNames
    /\ UNCHANGED <<reporting, ses, settings, route, transport, tele>>

\* apply_ipc_state_snapshot, apply_ipc_event of a StateReconciled: harness and runtime always.
IpcSnapshot ==
    /\ Rebuilt(SnapshotApplied(ses, Runtime, Harness), settings, route, "Authoritative")
    /\ UNCHANGED <<reporting, stored_auth, changes>>

\* apply_remote_event_json: a state_snapshot of the compatibility stream may have neither.
WsSnapshot ==
    /\ \E harness \in {None, Harness}, runtime \in {None, Runtime} :
          Rebuilt(SnapshotApplied(ses, runtime, harness), settings, route, transport)
    /\ UNCHANGED <<reporting, stored_auth, changes>>

\* apply_session_event: a harness_status_changed of that stream
HarnessChanged ==
    /\ Rebuilt(HarnessApplied(ses, Harness), settings, route, transport)
    /\ UNCHANGED <<reporting, stored_auth, changes>>

\* ensure_settings_auth_status, and the Settings button and menu, which always read.
RefreshSettings ==
    /\ AuthRead(stored_auth) \/ AuthFails
    /\ UNCHANGED <<reporting, stored_auth, changes>>

\* A login through the host, by the slash command of the settings panel: it goes to the
\* selected route, and what that instance stores is the desktop's only if it is this host.
\* Its result makes the loop read the settings.
HostLogin(p) ==
    /\ changes < MaxChanges
    /\ changes' = changes + 1
    /\ IF route = Primary
       THEN /\ reporting' = [reporting EXCEPT !.listed = @ \cup {p}, !.auth = @ \cup {p}]
            /\ stored_auth' = stored_auth \cup {p}
       ELSE UNCHANGED <<reporting, stored_auth>>
    /\ AuthRead(stored_auth') \/ AuthFails

\* run_settings_auth_action: login or logout, then the status; either may fail.
AuthAction(p) ==
    /\ changes < MaxChanges
    /\ changes' = changes + 1
    /\ \E stored \in {stored_auth, stored_auth \cup {p}, stored_auth \ {p}} :
          /\ stored_auth' = stored
          /\ (stored # stored_auth /\ AuthRead(stored)) \/ AuthFails
    /\ UNCHANGED reporting

\* submit: pending until a turn starts or the ingress fails (report_ingress_failure).
Submit ==
    /\ can_submit(ses)
    /\ ses' = [ses EXCEPT !.pending = TRUE]
    /\ UNCHANGED <<reporting, stored_auth, changes, settings, route, transport, tele>>

\* apply_ipc_command_outcome, TurnStarted, TurnEnded with or without provider telemetry
IngressFails ==
    /\ ses.pending
    /\ Rebuilt([ses EXCEPT !.pending = FALSE], settings, route, transport)
    /\ UNCHANGED <<reporting, stored_auth, changes>>

TurnStarts ==
    /\ ~ses.busy
    /\ Rebuilt([ses EXCEPT !.busy = TRUE, !.pending = FALSE], settings, route, transport)
    /\ UNCHANGED <<reporting, stored_auth, changes>>

TurnEnds(latest) ==
    /\ ses.busy
    /\ Rebuilt([ses EXCEPT !.busy = FALSE, !.latest = latest], settings, route, transport)
    /\ UNCHANGED <<reporting, stored_auth, changes>>

\* select_command_route_for_instance
SelectRoute(r) ==
    /\ Rebuilt(ses, settings, r, transport)
    /\ UNCHANGED <<reporting, stored_auth, changes>>

\* report_ipc_connected, mark_ipc_reconciliation_required, _refreshing, _failed,
\* mark_ipc_reconnecting and apply_ipc_disconnect, which touch nothing else of the session.
TransportReport(t) ==
    /\ Rebuilt(ses, settings, route, t)
    /\ UNCHANGED <<reporting, stored_auth, changes>>

Reports == {"Refreshing", "Required", "Degraded", "Reconnecting"}

SsNext ==
    \/ OmegonChanges \/ CredentialsChange \/ IpcSnapshot \/ WsSnapshot \/ HarnessChanged
    \/ RefreshSettings \/ Submit \/ IngressFails \/ TurnStarts
    \/ \E p \in AllNames : AuthAction(p) \/ HostLogin(p)
    \/ \E latest \in BOOLEAN : TurnEnds(latest)
    \/ \E r \in Routes : SelectRoute(r)
    \/ \E t \in Reports : TransportReport(t)

SsSpec == SsInit /\ [][SsNext]_ssVars

-----------------------------------------------------------------------------
(* operator_readiness *)
Step(blocked) == IF blocked THEN "Blocked" ELSE "Complete"

\* operator_readiness: the steps of an attached session and the verdict over them, which
\* asks the shell and the inventory only.
operator_readiness ==
    [ready |-> ses.shell \notin {"StartingOmegon", "CompatibilityChecking"} /\ settings.refreshed,
     steps |-> {Step(ses.shell = "Failed"),
                IF ~settings.refreshed THEN "Active" ELSE Step(settings.error),
                IF ~can_submit(ses) /\ ~settings.refreshed THEN "Pending" ELSE Step(~can_submit(ses))}]

-----------------------------------------------------------------------------
(* app.rs: the settings panel and the composer *)

\* session_data of the controller: the session's rows, with the settings' models.
ShownRows == WithModels(SessionRows(ses), settings.rows)

\* merged_provider_inventory, the panel's own copy of the merge: a settings row is shown
\* unless its key is already on the panel.
merged_provider_inventory ==
    LET shown[k \in 0..Len(settings.rows)] ==
            IF k = 0 THEN ShownRows
            ELSE IF Matching(shown[k - 1], settings.rows[k].name) = {}
                 THEN Append(shown[k - 1], settings.rows[k]) ELSE shown[k - 1]
    IN  shown[Len(settings.rows)]

\* build_settings_panel_model: "n / m authenticated", and a login and a logout for every card
Panel ==
    [auth |-> Cardinality({i \in DOMAIN merged_provider_inventory : merged_provider_inventory[i].auth}),
     total |-> Len(merged_provider_inventory)]

\* build_provider_blocked_composer_model: the session's model is in its descriptor.
build_provider_blocked_composer_model ==
    IF can_submit(ses)
    THEN IF ses.runtime # None /\ \E i \in DOMAIN ShownRows : ShownRows[i].name \in Active /\ ~ShownRows[i].auth
         THEN "expired" ELSE "none"
    ELSE IF Authenticated(ShownRows) THEN "none" ELSE "blocked"

-----------------------------------------------------------------------------
RowSet == [name : AllNames, auth : BOOLEAN, known : BOOLEAN]

\* What the variables are: rows of known providers, a shell an attached session can have.
SsTypeOK ==
    /\ reporting.auth \subseteq reporting.listed /\ reporting.listed \subseteq AllNames
    /\ stored_auth \subseteq AllNames
    /\ ses.shell \in {"Ready", "Degraded"}
    /\ {ses.busy, ses.pending, ses.latest} \subseteq BOOLEAN
    /\ Range(SessionRows(ses)) \subseteq RowSet
    /\ ses.runtime # None => ses.runtime \in [provider : BOOLEAN, memory : BOOLEAN]
    /\ Len(settings.rows) \in {0, Len(Names)} /\ Range(settings.rows) \subseteq RowSet
    /\ settings.rows # <<>> => settings.refreshed
    /\ route \in Routes
    /\ transport \in Reports \cup {"Authoritative"}
    /\ tele.providers.auth <= tele.providers.total /\ tele.quota \subseteq Routes

\* A shell that says Ready takes a prompt, unless one is waiting or a turn runs: the shell's
\* state, the harness and the runtime are set by five handlers, from four sources, and no
\* handler leaves a Ready over providers it has just replaced
\* (remote_session.rs refresh_provider_auth, apply_session_event, can_submit).
ReadyMeansPromptable ==
    ses.shell = "Ready" /\ ~ses.busy /\ ~ses.pending => can_submit(ses)

\* The header and the settings panel show the same: the telemetry, a copy made by the last
\* handler with its merge of the two inventories, has the counts of the panel, which merges
\* what it reads now with code of its own, and the transport and the route of now
\* (controller.rs refresh_telemetry_snapshot and its callers; app.rs merged_provider_inventory).
ScreensAgree ==
    /\ tele.providers = Panel
    /\ tele.transport = transport
    /\ tele.quota \subseteq {route}

\* A composer that refuses says why: an idle session with no prompt waiting that takes none
\* shows the block that opens the settings (app.rs build_provider_blocked_composer_model,
\* remote_session.rs can_submit).
RefusalIsExplained ==
    ~can_submit(ses) /\ ~ses.busy /\ ~ses.pending => build_provider_blocked_composer_model # "none"

-----------------------------------------------------------------------------
(* What the program does not do. *)

\* "Ready": "Operator controls are fully converged." (controller.rs operator_readiness)
ConvergedMeansUnblocked == operator_readiness.ready => "Blocked" \notin operator_readiness.steps

\* "Authenticated providers can execute prompts immediately." (app.rs build_settings_panel_model)
PanelMeansPromptable == Panel.auth > 0 /\ ~ses.busy /\ ~ses.pending => can_submit(ses)

\* A route is shown the quota of its own provider.
QuotaIsItsOwn == tele.quota \subseteq {Primary}

\* A credential in the store does not make the session promptable: the host does.
HostDecides == [][settings' # settings => can_submit(ses') = can_submit(ses)]_ssVars

\* Reading the credentials does not degrade a session whose runtime is well.
ReadingKeepsHealth ==
    [][settings' # settings /\ ses.shell = "Ready" /\ stored_auth # {} => ses'.shell = "Ready"]_ssVars

\* The screens of one session never contradict each other about whether a prompt can be sent,
\* although each reads its own copy of the providers' state.
StatusIsConsistent == ReadyMeansPromptable /\ ScreensAgree /\ RefusalIsExplained
=============================================================================
