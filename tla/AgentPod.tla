------------------------------ MODULE AgentPod ------------------------------
(***************************************************************************)
(* The pod the operator makes for an OmegonAgent (auspex-operator:         *)
(* reconciler.rs pod_spec and the objects around it, identity.rs, crd.rs)  *)
(* and whether the kubelet can start it.                                   *)
(*                                                                         *)
(* A reconciliation writes one object after another; the pod exists from   *)
(* the moment its workload is written and starts once every volume it      *)
(* requires can be mounted.  OperatorReconciler has the order and the      *)
(* retries of many agents; here one agent's template is spelt out.         *)
(***************************************************************************)
EXTENDS Integers, Sequences, FiniteSets

CONSTANTS
    Specs,        \* the agent specifications a user may apply
    MaxEdits,     \* edits of the resource and restarts of the operator
    MaxRefusals   \* calls of the API server that fail

VARIABLES
    cr,        \* the OmegonAgent's spec
    objects,   \* operator-made Secrets and ConfigMaps: name -> keys ({}: absent)
    workload,  \* kind -> [there, tpl]: Deployment, Job, CronJob, with their template
    kubepod,   \* the pod of each workload: [started, bundle (its catalog was there)]
    op,        \* the reconciliation: [todo, spec, clean], and the runtime flag
    budget     \* [edits, refusals] so far

apVars == <<cr, objects, workload, kubepod, op, budget>>

-----------------------------------------------------------------------------
(* crd.rs: what a specification may say. *)

VoxSpec == SUBSET {"discord", "aether"}
SecretsSpec == SUBSET {"auth", "runtime", "vault"}
IdentitySpec == [provision : BOOLEAN, mtls : BOOLEAN]
ControlPlaneTlsSpec ==
    [enabled : BOOLEAN, given : BOOLEAN, standard : BOOLEAN, clientCa : BOOLEAN]
\* source {}: the specification has no prompt
PromptSpec == [source : SUBSET {"secret", "inline", "config_map"}, renamed : BOOLEAN]
AgentSpecs ==
    [mode : {"daemon", "job", "cronjob"}, primary : BOOLEAN, vox : VoxSpec, bounds : BOOLEAN,
     secrets : SecretsSpec, identity : IdentitySpec, tls : ControlPlaneTlsSpec, prompt : PromptSpec]

ASSUME AgentPodAssumption ==
    Specs \subseteq AgentSpecs /\ Specs # {} /\ MaxEdits \in Nat /\ MaxRefusals \in Nat

is_bounded(s) == s.mode # "daemon"
control_plane_tls_enabled(s) == s.tls.enabled \/ s.identity.mtls

\* resolved_control_tls: the Secret's name and the keys read from it
resolved_control_tls(s) ==
    [name |-> IF s.tls.given THEN "given-tls" ELSE "control-tls",
     keys |-> (IF s.tls.standard THEN {"tls.crt", "tls.key"} ELSE {"cert", "key"})
              \cup (IF s.tls.clientCa THEN {"ca.crt"} ELSE {})]

-----------------------------------------------------------------------------
(* reconciler.rs pod_spec.  A volume names the object behind it ("": none),
   the keys it projects, and whether the pod waits for it. *)

Volume(name, object, keys) == [name |-> name, object |-> object, keys |-> keys, required |-> TRUE]
\* emptyDir volumes, and the styrened-config ConfigMap, which is optional
Scratch(names) == {Volume(n, "", {}) : n \in names}
When(cond, set) == IF cond THEN set ELSE {}

PromptVolume(s) ==
    IF "secret" \in s.prompt.source THEN {Volume("prompt", "user", {"prompt.txt"})}
    ELSE IF "inline" \in s.prompt.source THEN {Volume("prompt", "prompt", {})}
    ELSE When("config_map" \in s.prompt.source, {Volume("prompt", "user", {})})

Volumes(s) ==
    LET tls == resolved_control_tls(s) IN
       {Volume("vox-config", "vox", {}),
        [Volume("agent-catalog", "catalog", {}) EXCEPT !.required = FALSE]}
    \cup When("discord" \in s.vox, Scratch({"omegon-extensions"}))
    \cup When("aether" \in s.vox, Scratch({"shared", "extensions", "styrened-config"}))
    \cup When("auth" \in s.secrets, {Volume("auth-json", "user", {"auth.json"})})
    \cup When(s.identity.provision, {Volume("styrene-id", "styrene-id", {"root-secret"})})
    \cup When(control_plane_tls_enabled(s), {Volume("control-tls", tls.name, tls.keys)})
    \cup When("runtime" \in s.secrets, {Volume("runtime-secrets", "user", {})})
    \cup When(is_bounded(s), PromptVolume(s) \cup Scratch({"output"}))

\* The agent's container mounts every volume but the sidecar's configuration.
AgentMounts(s) == {v.name : v \in Volumes(s)} \ {"styrened-config"}

\* The styrened sidecar shares the socket, its configuration and the identity.
SidecarMounts(s) ==
    When("aether" \in s.vox,
         {"shared", "styrened-config"} \cup When(s.identity.provision, {"styrene-id"}))

\* install-vox and install-aether
InitMounts(s) ==
    When("discord" \in s.vox, {"omegon-extensions"}) \cup When("aether" \in s.vox, {"extensions"})

\* Arguments of `omegon`.  The TLS flags wait for the operator's runtime flag,
\* bounds are passed in every mode.
Args(s, flag) ==
       (IF is_bounded(s) THEN {"run"} ELSE {"serve"})
    \cup When(~is_bounded(s) /\ flag /\ control_plane_tls_enabled(s), {"--control-tls"})
    \cup When(s.bounds, {"--bounds"})
    \cup When(is_bounded(s) /\ s.prompt.source # {}, {"--prompt-file"})

\* Mutant: the probes ask whether TLS is configured.
ProbeOfSpec(s, flag) == IF control_plane_tls_enabled(s) THEN "https" ELSE "http"

\* The scheme of the liveness and readiness probes.
probe_scheme(s, flag) == IF control_plane_tls_enabled(s) /\ flag THEN "https" ELSE "http"

\* Annotations for the vault injector are all a `vault` entry adds.
Annotations(s) == When("vault" \in s.secrets, {"vault-agent-inject"})

pod_template(s, flag) ==
    [volumes |-> Volumes(s), mounts |-> AgentMounts(s) \cup SidecarMounts(s) \cup InitMounts(s),
     args |-> Args(s, flag), probe |-> IF is_bounded(s) THEN "none" ELSE probe_scheme(s, flag),
     annotations |-> Annotations(s), primary |-> s.primary,
     renamed |-> "--prompt-file" \in Args(s, flag) /\ s.prompt.renamed]

\* main.rs managed_agent_control_plane and managed_agent_acp_url: what clients are told
EndpointScheme(s) == IF control_plane_tls_enabled(s) THEN "https" ELSE "http"
ServerScheme(tpl) == IF "--control-tls" \in tpl.args THEN "https" ELSE "http"

-----------------------------------------------------------------------------
(* reconciler.rs reconcile: the objects in the order they are written. *)

WorkloadKinds == {"deployment", "job", "cronjob"}
KindOf(s) == IF s.mode = "daemon" THEN "deployment" ELSE s.mode
ObjectNames == {"vox", "catalog", "styrene-id", "control-tls", "given-tls", "prompt",
                "service"}
If(cond, step) == IF cond THEN <<step>> ELSE <<>>
TlsSteps == {"control-tls", "given-tls"}
IdentitySteps == {"styrene-id"} \cup TlsSteps

\* What follows the identity, whether it could be provisioned or not.
AfterIdentity(s) ==
       <<"vox">> \o If(s.primary, "catalog")
    \o <<KindOf(s)>> \o If(~is_bounded(s), "service")
    \o If(is_bounded(s) /\ "inline" \in s.prompt.source, "prompt")

ReconcileSteps(s) ==
       If(s.identity.provision, "styrene-id")
    \o If(s.identity.provision /\ control_plane_tls_enabled(s), resolved_control_tls(s).name)
    \o AfterIdentity(s)

\* The keys of each object the operator writes.
KeysOf(step, s) ==
    CASE step = "vox" -> {"vox.toml"}
      [] step = "catalog" -> {"agent.toml", "PERSONA.md"}
      [] step = "service" -> {"control"}
      [] step = "prompt" -> {"prompt.txt"}
      [] step = "styrene-id" -> {"root-secret", "derivation-label"}
      [] OTHER -> resolved_control_tls(s).keys

\* External: the API server wants the standard keys in a kubernetes.io/tls
\* Secret, and a Job's template does not change.
Refused(step) ==
    \/ step \in TlsSteps /\ ~op.spec.tls.standard
    \/ step = "job" /\ workload["job"].there /\ workload["job"].tpl # pod_template(op.spec, op.flag)

NoTemplate ==
    [there |-> FALSE,
     tpl |-> [volumes |-> {}, mounts |-> {}, args |-> {}, probe |-> "http", annotations |-> {},
              renamed |-> FALSE, primary |-> FALSE]]
NoPod == [started |-> FALSE, bundle |-> FALSE]

ApInit ==
    /\ cr \in Specs
    /\ objects = [n \in ObjectNames |-> {}]
    /\ workload = [k \in WorkloadKinds |-> NoTemplate]
    /\ kubepod = [k \in WorkloadKinds |-> NoPod]
    /\ \E flag \in BOOLEAN : op = [todo |-> <<>>, spec |-> cr, clean |-> FALSE, flag |-> flag]
    /\ budget = [edits |-> 0, refusals |-> 0]

\* A watch event, or the requeue after 30 s or 300 s.
BeginReconcile ==
    /\ op.todo = <<>>
    /\ op' = [op EXCEPT !.todo = ReconcileSteps(cr), !.spec = cr, !.clean = TRUE]
    /\ UNCHANGED <<cr, objects, workload, kubepod, budget>>

\* A Secret or ConfigMap: provision_identity, provision_control_tls_secret,
\* reconcile_configmap, the catalog's and the prompt's; and reconcile_service.
ApplyObject(n) ==
    /\ op.todo # <<>> /\ Head(op.todo) = n /\ ~Refused(n)
    /\ objects' = [objects EXCEPT ![n] = KeysOf(n, op.spec)]
    /\ op' = [op EXCEPT !.todo = Tail(@)]
    /\ UNCHANGED <<cr, workload, kubepod, budget>>

\* reconcile_deployment, reconcile_job or reconcile_cronjob; a Deployment whose
\* template changes gets a new pod, a CronJob's next run is a new pod.
ApplyWorkload(k) ==
    LET tpl == pod_template(op.spec, op.flag) IN
    /\ op.todo # <<>> /\ Head(op.todo) = k /\ ~Refused(k)
    /\ workload' = [workload EXCEPT ![k] = [there |-> TRUE, tpl |-> tpl]]
    /\ kubepod' = IF workload[k].tpl = tpl THEN kubepod ELSE [kubepod EXCEPT ![k] = NoPod]
    /\ op' = [op EXCEPT !.todo = Tail(@)]
    /\ UNCHANGED <<cr, objects, budget>>

\* A call fails.  What identity.rs cannot provision is logged and left; any
\* other failure ends the reconciliation, and error_policy requeues it.
StepFails ==
    /\ op.todo # <<>>
    /\ Refused(Head(op.todo)) \/ budget.refusals < MaxRefusals
    /\ budget' = [budget EXCEPT !.refusals = IF Refused(Head(op.todo)) THEN @ ELSE @ + 1]
    /\ op' = [op EXCEPT !.clean = FALSE,
                        !.todo = IF Head(@) \in IdentitySteps THEN AfterIdentity(op.spec) ELSE <<>>]
    /\ UNCHANGED <<cr, objects, workload, kubepod>>

\* The user applies another specification.
EditSpec ==
    /\ budget.edits < MaxEdits
    /\ cr' \in Specs \ {cr}
    /\ budget' = [budget EXCEPT !.edits = @ + 1]
    /\ UNCHANGED <<objects, workload, kubepod, op>>

\* The operator restarts, perhaps with the other AUSPEX_ENABLE_OMEGON_CONTROL_TLS_ARGS.
OperatorRestarts ==
    /\ budget.edits < MaxEdits
    /\ \E flag \in BOOLEAN : op' = [op EXCEPT !.todo = <<>>, !.clean = FALSE, !.flag = flag]
    /\ budget' = [budget EXCEPT !.edits = @ + 1]
    /\ UNCHANGED <<cr, objects, workload, kubepod>>

\* External, the kubelet: the user's own objects are there; an operator's
\* object must exist with the keys its volume projects.
Mountable(v) ==
    v.object \in ObjectNames => objects[v.object] # {} /\ v.keys \subseteq objects[v.object]
Startable(tpl) == \A v \in tpl.volumes : v.required => Mountable(v)

PodStarts(k) ==
    /\ workload[k].there /\ ~kubepod[k].started /\ Startable(workload[k].tpl)
    /\ kubepod' = [kubepod EXCEPT ![k] = [started |-> TRUE, bundle |-> objects["catalog"] # {}]]
    /\ UNCHANGED <<cr, objects, workload, op, budget>>

ApNext ==
    \/ BeginReconcile
    \/ \E n \in ObjectNames : ApplyObject(n)
    \/ \E k \in WorkloadKinds : ApplyWorkload(k) \/ PodStarts(k)
    \/ StepFails
    \/ EditSpec
    \/ OperatorRestarts

ApSpec == ApInit /\ [][ApNext]_apVars

-----------------------------------------------------------------------------
(* Properties. *)

\* Every reconciliation works on a specification, and the containers of every
\* workload mount volumes the template declares: the API server refuses others.
ApTypeOK ==
    /\ cr \in Specs /\ op.spec \in Specs
    /\ \A n \in ObjectNames : objects[n] \subseteq UNION {KeysOf(n, s) : s \in Specs}
    /\ \A k \in WorkloadKinds : kubepod[k].started => workload[k].there
    /\ \A k \in WorkloadKinds : workload[k].there =>
          workload[k].tpl.mounts \subseteq {v.name : v \in workload[k].tpl.volumes}

\* After a reconciliation without an error or a warning the pod of the current
\* specification can start, and a daemon has its Service, unless TLS is asked for without an identity:
\* every volume pod_spec requires is one some step of reconcile has filled.
PodIsNotStuck ==
    (op.todo = <<>> /\ op.clean /\ op.spec = cr
     /\ (control_plane_tls_enabled(cr) => cr.identity.provision))
        => /\ workload[KindOf(cr)].there /\ Startable(workload[KindOf(cr)].tpl)
           /\ cr.mode = "daemon" => objects["service"] # {}

\* A pod of the primary agent never starts without the bundle the operator
\* seeds, although its volume is optional and the kubelet does not wait for it.
PrimaryHasItsBundle ==
    \A k \in WorkloadKinds : kubepod[k].started /\ workload[k].tpl.primary => kubepod[k].bundle

\* The probes of a daemon ask in the scheme the daemon serves, across edits and
\* restarts of the operator with another runtime flag.
ProbesMeetTheServer ==
    workload["deployment"].there =>
        workload["deployment"].tpl.probe = ServerScheme(workload["deployment"].tpl)

-----------------------------------------------------------------------------
(* Not so in the code. *)

\* The endpoints the fleet API and the ACP proxy use are those the pod serves:
\* they are https and wss as soon as TLS is configured, the pod's arguments
\* wait for the runtime flag.
EndpointsMeetTheServer ==
    (op.todo = <<>> /\ op.clean /\ op.spec = cr /\ cr.mode = "daemon") =>
        EndpointScheme(cr) = ServerScheme(workload["deployment"].tpl)

\* TLS that is configured comes with its Secret, also without an identity.
TlsIsProvisioned ==
    (op.todo = <<>> /\ op.clean /\ op.spec = cr /\ ~cr.tls.given) =>
        Startable(workload[KindOf(cr)].tpl)

\* The file named by --prompt-file is one the prompt volume projects: the
\* volumes project "prompt.txt" into its directory, whatever name mount_path gives.
PromptIsWhereItIsRead ==
    \A k \in WorkloadKinds : (workload[k].there /\ "--prompt-file" \in workload[k].tpl.args) =>
        ~workload[k].tpl.renamed

\* Bounds are passed to bounded agents only.
BoundsAreForBounded ==
    workload["deployment"].there => "--bounds" \notin workload["deployment"].tpl.args

\* What the operator builds from a specification works together: the pod can start, a primary
\* with its bundle, and is probed in the scheme it serves.
PodsCanServe == PodIsNotStuck /\ PrimaryHasItsBundle /\ ProbesMeetTheServer
=============================================================================
