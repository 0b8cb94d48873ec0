--------------------------- MODULE ArmoryOverlays ---------------------------
(***************************************************************************)
(* Deployment overlays and preflight: the overlay handlers of the operator *)
(* (auspex-operator/src/main.rs), which keep all overlays in one ConfigMap *)
(* that every request reads, changes and applies whole; and the preflight  *)
(* that combines an overlay with an Armory package (armory.rs) and the     *)
(* manifest of the agent package it becomes (agent_packages.rs).           *)
(***************************************************************************)
EXTENDS Integers, FiniteSets

CONSTANTS
    Requests,      \* handler tasks, each serves one request at a time
    OverlayIds,
    Catalog,       \* external: package ref -> package, what the Armory index lists
    PackageRefs,   \* the names of packages, listed or not
    Drafts,        \* the overlays operators write
    Deploys,       \* the deploy requests sent along with a preflight
    Namespaces,
    WatchNamespace,\* the only namespace the operator may touch, if one is set
    MaxCalls       \* requests altogether

\* Overlays and packages have names.
ASSUME OverlaysAssumption == OverlayIds # {} /\ PackageRefs # {}

VARIABLES
    overlays,   \* the ConfigMap: overlay id -> entry
    request,    \* per handler task: what it has read and is about to do
    overlayCalls

aoVars == <<overlays, request, overlayCalls>>

Kinds == {"skill", "persona", "tone", "profile", "agent", "extension", "forge-template"}
Distributions == {"oci", "registry", "external"}
Dependencies == [kind : Kinds, required : BOOLEAN, nativeOnly : BOOLEAN]

\* ArmoryPackage: ociRef says whether the package names an OCI artifact.
Packages ==
    [kind : Kinds, distribution : Distributions, ociRef : BOOLEAN, destructive : BOOLEAN,
     deps : SUBSET Dependencies]

ASSUME CatalogAssumption ==
    DOMAIN Catalog \subseteq PackageRefs /\ \A ref \in DOMAIN Catalog : Catalog[ref] \in Packages

\* What an overlay or a request may leave out.
NotGiven == "not given"

ASSUME NamespacesAssumption ==
    /\ "default" \in Namespaces /\ NotGiven \notin Namespaces
    /\ WatchNamespace \in Namespaces \cup {NotGiven}

\* assess_oci_image_ref: how an image is named; only a valid digest pins it.
Images == {"digest", "tag", "untagged", "invalid"}
DigestPinned(image) == image = "digest"

\* ArmoryDeploymentOverlay: what the properties tell apart; complete is validate(),
\* which wants id, package, mode, role, image and model.
Overlays == [armory : PackageRefs, image : Images, namespace : Namespaces \cup {NotGiven},
             complete : BOOLEAN]

\* AgentPackageDeployRequest: what it overrides of the overlay.
DeployRequests == [namespace : Namespaces \cup {NotGiven}, image : Images \cup {NotGiven}]

ASSUME DraftsAssumption == Drafts \subseteq Overlays /\ Deploys \subseteq DeployRequests

NoOverlay == [armory |-> CHOOSE ref \in PackageRefs : TRUE, image |-> "invalid",
              namespace |-> NotGiven, complete |-> FALSE]
Absent == [st |-> "absent", ov |-> NoOverlay]
Stored(o) == [st |-> "stored", ov |-> o]

----------------------------------------------------------------------------
\* plan_armory_install: the gates of the package itself, and of the artifact it pulls, which
\* a package distributed by OCI does only if it names one.
Pulls(p) == p.distribution = "oci" /\ p.ociRef
PackageGates(p) ==
    (IF p.kind = "extension" /\ p.distribution \in {"registry", "external"} THEN {"approval"} ELSE {})
    \cup (IF p.kind = "forge-template" THEN {"approval"} ELSE {})
    \cup (IF p.kind = "forge-template" /\ p.destructive THEN {"blocked"} ELSE {})
    \cup (IF Pulls(p) THEN {"approval"} ELSE {})

\* Its dependencies: optional ones count only when they are asked for; a native-only
\* extension and a forge template need approval.
DependencyGates(p, includeOptional) ==
    IF \E d \in p.deps : /\ d.required \/ includeOptional
                         /\ (d.kind = "extension" /\ d.nativeOnly) \/ d.kind = "forge-template"
    THEN {"approval"} ELSE {}

plan_armory_install(p, includeOptional) == PackageGates(p) \cup DependencyGates(p, includeOptional)

\* fetch_armory_index: every request fetches the index afresh and looks its package up.
fetch_armory_index == Catalog

\* agent_package_from_armory_overlay: the overlay validates, names this package, and the
\* package is an agent or a profile.
MapsToAgentPackage(ref, p, o) ==
    o.complete /\ o.armory = ref /\ p.kind \in {"agent", "profile"}

\* The first namespace that is given: the deploy request's, the overlay's, the watched one.
NamespaceOf(o, deploy) ==
    CASE deploy.namespace # NotGiven -> deploy.namespace
      [] deploy.namespace = NotGiven /\ o.namespace # NotGiven -> o.namespace
      [] deploy.namespace = NotGiven /\ o.namespace = NotGiven ->
            IF WatchNamespace # NotGiven THEN WatchNamespace ELSE "default"

\* omegon_agent_manifest: the deploy request's image goes before the overlay's.
Manifest(o, deploy) ==
    [namespace |-> NamespaceOf(o, deploy),
     image |-> IF deploy.image # NotGiven THEN deploy.image ELSE o.image]

\* oci_preflight_policy_from_body, OciPreflightPolicy::blocks.
PolicyBlocks(strict, image) == strict /\ ~DigestPinned(image)

\* namespace_scope_error
OutOfScope(ns) == WatchNamespace # NotGiven /\ ns # WatchNamespace

NoVerdict == [st |-> "none", ref |-> CHOOSE ref \in PackageRefs : TRUE, of |-> NoOverlay,
              strict |-> FALSE, optional |-> FALSE, approval |-> FALSE, deployable |-> FALSE,
              manifest |-> [namespace |-> "default", image |-> "invalid"]]
Unanswered == [NoVerdict EXCEPT !.st = "error"]

\* armory_preflight_handler once the overlay was read: the package of the reference that was
\* asked for, its plan, the agent package, the manifest with the deploy request's overrides; and
\* of that manifest the scope and the image policy.
Preflight(ref, o, deploy, strict, optional) ==
    LET p == fetch_armory_index[ref]
        gates == plan_armory_install(p, optional)
        manifest == Manifest(o, deploy)
    IN  IF ref \notin DOMAIN fetch_armory_index \/ ~MapsToAgentPackage(ref, p, o) THEN Unanswered
        ELSE [st |-> "answered", ref |-> ref, of |-> o, strict |-> strict, optional |-> optional,
              approval |-> "approval" \in gates, manifest |-> manifest,
              deployable |-> /\ "blocked" \notin gates
                             /\ ~PolicyBlocks(strict, manifest.image)
                             /\ ~OutOfScope(manifest.namespace)]

\* What a request knows: of a write, the map as it was read, and in raced the overlays that
\* other writes have touched since.
NoRequest == [op |-> "idle", id |-> CHOOSE i \in OverlayIds : TRUE, ov |-> NoOverlay,
         data |-> [i \in OverlayIds |-> Absent], raced |-> {}, verdict |-> NoVerdict]

AoInit ==
    /\ overlays = [i \in OverlayIds |-> Absent]
    /\ request = [r \in Requests |-> NoRequest]
    /\ overlayCalls = 0

Called == overlayCalls < MaxCalls /\ overlayCalls' = overlayCalls + 1

\* upsert_armory_overlay_handler: armory_overlay_from_body refuses an overlay that is not
\* complete before anything is read; then the whole map is read.
BeginUpsert(r, i, o) ==
    /\ request[r].op = "idle" /\ o.complete /\ Called
    /\ request' = [request EXCEPT ![r] =
          [NoRequest EXCEPT !.op = "upsert", !.id = i, !.ov = o, !.data = overlays]]
    /\ UNCHANGED overlays

\* delete_armory_overlay reads the whole map too.
BeginDelete(r, i) ==
    /\ request[r].op = "idle" /\ Called
    /\ request' = [request EXCEPT ![r] =
          [NoRequest EXCEPT !.op = "delete", !.id = i, !.data = overlays]]
    /\ UNCHANGED overlays

\* The map as the request leaves it: its own key set or removed.
Changed(q) == [q.data EXCEPT ![q.id] = IF q.op = "upsert" THEN Stored(q.ov) ELSE Absent]

\* The ConfigMap becomes map: what a request between its read and its apply has not seen of it.
Missed(map, q) ==
    [q EXCEPT !.raced = IF q.op = "idle" THEN @ ELSE @ \cup {i \in OverlayIds : map[i] # overlays[i]}]

\* Mutant: the request writes a map with its own key only.
ApplyOwnKey(r) ==
    /\ request[r].op \in {"upsert", "delete"}
    /\ overlays' = [i \in OverlayIds |->
                       IF i = request[r].id THEN Changed(request[r])[i] ELSE Absent]
    /\ request' = [s \in Requests |-> IF s = r THEN NoRequest ELSE Missed(overlays', request[s])]
    /\ UNCHANGED overlayCalls

\* apply_armory_overlay_config_map: a forced server-side apply of that map.
Apply(r) ==
    /\ request[r].op \in {"upsert", "delete"}
    /\ overlays' = Changed(request[r])
    /\ request' = [s \in Requests |->
                      IF s = r THEN NoRequest ELSE Missed(Changed(request[r]), request[s])]
    /\ UNCHANGED overlayCalls

\* The API server is not reached: the handler answers with an error.
ApplyFails(r) ==
    /\ request[r].op \in {"upsert", "delete"}
    /\ request' = [request EXCEPT ![r] = NoRequest]
    /\ UNCHANGED <<overlays, overlayCalls>>

\* armory_preflight_handler for a stored overlay: read_armory_overlay_by_id parses and
\* validates the entry.
PreflightStored(r, i, ref, deploy, strict, optional) ==
    /\ request[r].op = "idle" /\ Called
    /\ overlays[i].st = "stored"
    /\ request' = [request EXCEPT ![r] =
          [NoRequest EXCEPT !.verdict = Preflight(ref, overlays[i].ov, deploy, strict, optional)]]
    /\ UNCHANGED overlays

\* For an overlay given in the request.
PreflightGiven(r, o, ref, deploy, strict, optional) ==
    /\ request[r].op = "idle" /\ Called
    /\ request' = [request EXCEPT ![r] =
          [NoRequest EXCEPT !.verdict = Preflight(ref, o, deploy, strict, optional)]]
    /\ UNCHANGED overlays

\* No overlay of that id, or the ConfigMap or the index is not read.
PreflightFails(r) ==
    /\ request[r].op = "idle" /\ Called
    /\ request' = [request EXCEPT ![r] = [NoRequest EXCEPT !.verdict = Unanswered]]
    /\ UNCHANGED overlays

\* Somebody edits the ConfigMap by hand and leaves an entry that does not validate.
EditByHand(i, o) ==
    /\ Called /\ overlays[i].st = "stored" /\ ~o.complete
    /\ overlays' = [overlays EXCEPT ![i] = Stored(o)]
    /\ request' = [s \in Requests |-> Missed(overlays', request[s])]

AoNext ==
    \/ \E r \in Requests :
          \/ \E i \in OverlayIds :
                \/ \E o \in Drafts : BeginUpsert(r, i, o)
                \/ BeginDelete(r, i)
                \/ \E ref \in PackageRefs, deploy \in Deploys, strict, optional \in BOOLEAN :
                      PreflightStored(r, i, ref, deploy, strict, optional)
          \/ \E o \in Drafts, ref \in PackageRefs, deploy \in Deploys, strict, optional \in BOOLEAN :
                PreflightGiven(r, o, ref, deploy, strict, optional)
          \/ PreflightFails(r)
          \/ Apply(r) \/ ApplyFails(r)
    \/ \E i \in OverlayIds, o \in Drafts : EditByHand(i, o)

AoSpec == AoInit /\ [][AoNext]_aoVars

----------------------------------------------------------------------------
\* The state is well formed; the handlers never store an overlay that does not validate
\* (one that was edited by hand stays until it is replaced or deleted).
AoTypeOK ==
    /\ \A i \in OverlayIds : overlays[i].st \in {"absent", "stored"} /\ overlays[i].ov \in Overlays
    /\ \A r \in Requests :
          /\ request[r].op \in {"idle", "upsert", "delete"} /\ request[r].id \in OverlayIds
          /\ request[r].op = "upsert" => request[r].ov.complete
          /\ request[r].raced \subseteq OverlayIds
    /\ overlayCalls \in 0..MaxCalls

\* A request changes its own overlay, and of the others only what changed between its read and its
\* apply: the map is read, changed and applied whole and with force.
WritesAreLocal ==
    [][\A r \in Requests : Apply(r) =>
          \A i \in OverlayIds \ ({request[r].id} \cup request[r].raced) : overlays'[i] = overlays[i]]_aoVars

\* Expected to fail.  The same without the proviso: two requests for different overlays
\* overlap, and the second brings back what it read (write_armory_overlay).
OverlappingWritesAreLocal ==
    [][\A r \in Requests : Apply(r) =>
          \A i \in OverlayIds \ {request[r].id} : overlays'[i] = overlays[i]]_aoVars

\* What preflight calls deployable is the manifest that would be applied, overrides included: of
\* the agent or profile that the overlay names, in scope, its image pinned by digest under the
\* strict policy; and what pulls an artifact, or installs a native-only extension that is required
\* or asked for, is never reported without asking for approval.
PreflightIsSound ==
    \A r \in Requests :
        LET v == request[r].verdict
            p == Catalog[v.ref]
        IN  v.st = "answered" =>
              /\ v.of.armory = v.ref
              /\ v.deployable =>
                    /\ p.kind \in {"agent", "profile"}
                    /\ WatchNamespace \in {v.manifest.namespace, NotGiven}
                    /\ v.strict => v.manifest.image = "digest"
              /\ (\E d \in p.deps : /\ d.required \/ v.optional
                                    /\ d.kind = "extension" /\ d.nativeOnly) => v.approval
              /\ p.distribution = "oci" /\ p.ociRef => v.approval

\* Expected to fail.  Every package distributed by OCI asks for approval: one whose index entry
\* names no artifact has no pull, and no gate (plan_armory_install).
EveryOciPackageAsks ==
    \A r \in Requests :
        LET v == request[r].verdict
        IN  v.st = "answered" /\ Catalog[v.ref].distribution = "oci" => v.approval

\* An overlay is stored without touching another, but for what changed while it was being stored,
\* and what preflight says of the armory holds of the manifest it shows.
OverlaysAreSound == []PreflightIsSound /\ WritesAreLocal
=============================================================================
