----------------------------- MODULE HostProofs -----------------------------
(***************************************************************************)
(* Proofs about the parts beside the session: the release agent, the       *)
(* armory overlays, the launches of local containers and the pods of the   *)
(* operator.                                                               *)
(***************************************************************************)
EXTENDS ReleaseAgent, ArmoryOverlays, LocalAgents, AgentPod, WellFoundedInduction, TLAPS

----------------------------------------------------------------------------
(* The release agent. *)

\* Whatever says approved says so of the notes it carries.
ApprovalIsOfItsNotes(post) ==
    /\ post.st \in {"none", "preview", "approved"}
    /\ post.st = "approved" =>
          post.by # "nobody" /\ post.approvedOf = post.of /\ post.approvedRev = post.rev

Posts ==
    {post \in [st : {"none", "preview", "approved"}, of : Releases, rev : Nat,
               by : {"nobody", "operator"}, approvedOf : Releases, approvedRev : Nat] :
        ApprovalIsOfItsNotes(post)}

\* The inductive invariant: every copy of a post, in a file, with a publisher and published,
\* carries an approval of its own notes or none.
ReleaseInv ==
    /\ upstream \in [Releases -> Nat]
    /\ fetched \in [st : {"none", "fetched"}, of : Releases, rev : Nat]
    /\ artifact \in [Paths -> Posts]
    /\ held \in Posts /\ published \in Posts
    /\ PublishedWasApproved

LEMMA NoReleaseIsOne == NoRelease \in Releases
  BY ReleasesAssumption DEF NoRelease

\* A post that carries no approval is a good one.
LEMMA PreviewsAreGood ==
  /\ NoPost \in Posts
  /\ \A f \in [st : {"none", "fetched"}, of : Releases, rev : Nat] :
        build_release_preview_artifact(f) \in Posts
  BY NoReleaseIsOne DEF Posts, ApprovalIsOfItsNotes, NoPost, build_release_preview_artifact

LEMMA ReleaseInitially == RaInit => ReleaseInv
  BY NoReleaseIsOne, PreviewsAreGood
  DEF RaInit, ReleaseInv, PublishedWasApproved, NoPost, NoFetch

LEMMA ReleaseStep == ReleaseInv /\ [RaNext]_raVars => ReleaseInv'
<1> SUFFICES ASSUME ReleaseInv, [RaNext]_raVars PROVE ReleaseInv'
  OBVIOUS
<1> USE DEF ReleaseInv
<1>1. ASSUME NEW r \in Releases, EditRelease(r) PROVE ReleaseInv'
  BY <1>1 DEF EditRelease, PublishedWasApproved
<1>2. ASSUME NEW r \in Releases, NEW token \in BOOLEAN, fetch_github_release(r, token)
      PROVE ReleaseInv'
  <2>1. fetched' \in [st : {"none", "fetched"}, of : Releases, rev : Nat]
    BY <1>2, NoReleaseIsOne DEF fetch_github_release, NoFetch
  <2> QED  BY <1>2, <2>1 DEF fetch_github_release, PublishedWasApproved
<1>3. ASSUME NEW github, NEW model, NEW allowlist, NEW b, NEW writes,
             stage_release_preview_artifact(github, model, allowlist, b, writes)
      PROVE ReleaseInv'
  <2>1. artifact' \in [Paths -> Posts]
    BY <1>3, PreviewsAreGood
    DEF stage_release_preview_artifact, write_release_preview_artifact, WriteBreaksOff
  <2>2. fetched' \in [st : {"none", "fetched"}, of : Releases, rev : Nat]
    BY <1>3, NoReleaseIsOne DEF stage_release_preview_artifact, NoFetch
  <2> QED  BY <1>3, <2>1, <2>2 DEF stage_release_preview_artifact, PublishedWasApproved
<1>4. ASSUME NEW p \in Paths, ReadPreview(p) PROVE ReleaseInv'
  BY <1>4 DEF ReadPreview, PublishedWasApproved
<1>5. ASSUME NEW p \in Paths, HoldArtifact(p) PROVE ReleaseInv'
  BY <1>5 DEF HoldArtifact, PublishedWasApproved
<1>6. ASSUME NEW p \in Paths, NEW by \in {"nobody", "operator"}, NEW at \in BOOLEAN, NEW writes \in BOOLEAN,
             approve_release_preview_artifact(p, by, at, writes)
      PROVE ReleaseInv'
  <2>1. ASSUME is_approved(by, at), artifact[p].st # "none", writes
        PROVE artifact' \in [Paths -> Posts]
    <3> DEFINE new == [artifact[p] EXCEPT !.st = "approved", !.by = by, !.approvedOf = artifact[p].of,
                                          !.approvedRev = artifact[p].rev]
    <3>1. artifact[p] \in Posts
      OBVIOUS
    <3>2. new \in Posts
      BY <2>1, <3>1 DEF is_approved, Posts, ApprovalIsOfItsNotes
    <3>3. artifact' = [artifact EXCEPT ![p] = new]
      BY <2>1, <1>6 DEF approve_release_preview_artifact
    <3> QED  BY <3>2, <3>3
  <2>2. artifact' \in [Paths -> Posts]
    BY <2>1, <1>6, PreviewsAreGood DEF approve_release_preview_artifact, WriteBreaksOff
  <2> QED  BY <1>6, <2>2 DEF approve_release_preview_artifact, PublishedWasApproved
<1>7. ASSUME NEW by, NEW at, NEW channel, build_discord_dry_run_publish(by, at, channel)
      PROVE ReleaseInv'
  BY <1>7, PreviewsAreGood
  DEF build_discord_dry_run_publish, PublishedWasApproved, Posts, ApprovalIsOfItsNotes
<1>8. ASSUME UNCHANGED raVars PROVE ReleaseInv'
  BY <1>8 DEF raVars, PublishedWasApproved
<1> QED
  BY <1>1, <1>2, <1>3, <1>4, <1>5, <1>6, <1>7, <1>8 DEF RaNext

\* Whatever the order of fetching, staging, approving and reading, and whichever releases share
\* a file, what is published carries an approval of exactly its notes
\* (write_release_preview_artifact, build_discord_dry_run_publish).
THEOREM PublicationsWereApproved == RaSpec => []PublishedWasApproved
<1>1. ReleaseInv => PublishedWasApproved
  BY DEF ReleaseInv
<1> QED  BY <1>1, ReleaseInitially, ReleaseStep, PTL DEF RaSpec

----------------------------------------------------------------------------
(* The armory overlays. *)

VerdictIsSound(v) ==
    v.st = "answered" =>
        /\ v.of.armory = v.ref
        /\ v.deployable =>
              /\ Catalog[v.ref].kind \in {"agent", "profile"}
              /\ WatchNamespace \in {v.manifest.namespace, NotGiven}
              /\ v.strict => v.manifest.image = "digest"
        /\ (\E d \in Catalog[v.ref].deps : /\ d.required \/ v.optional
                                           /\ d.kind = "extension" /\ d.nativeOnly) => v.approval
        /\ Catalog[v.ref].distribution = "oci" /\ Catalog[v.ref].ociRef => v.approval

OverlayMaps == [OverlayIds -> [st : {"absent", "stored"}, ov : Overlays]]
SoundVerdicts ==
    {v \in [st : {"none", "error", "answered"}, ref : PackageRefs, of : Overlays, strict : BOOLEAN,
            optional : BOOLEAN, approval : BOOLEAN, deployable : BOOLEAN,
            manifest : [namespace : Namespaces, image : Images]] : VerdictIsSound(v)}
OverlayRequests ==
    [op : {"idle", "upsert", "delete"}, id : OverlayIds, ov : Overlays, data : OverlayMaps,
     raced : SUBSET OverlayIds, verdict : SoundVerdicts]

\* A request holds the map as it is, but for what changed since it read it.
HoldsTheMap(q, map) ==
    q.op # "idle" => \A i \in OverlayIds \ q.raced : q.data[i] = map[i]

\* The inductive invariant.
OverlayInv ==
    /\ overlays \in OverlayMaps
    /\ request \in [Requests -> OverlayRequests]
    /\ \A r \in Requests : HoldsTheMap(request[r], overlays)

\* What the steps put into a request.
LEMMA FreshRequest ==
    /\ Absent \in [st : {"absent", "stored"}, ov : Overlays]
    /\ NoVerdict \in SoundVerdicts /\ Unanswered \in SoundVerdicts
    /\ NoRequest \in OverlayRequests /\ NoRequest.op = "idle"
<1>1. (CHOOSE ref \in PackageRefs : TRUE) \in PackageRefs
  BY OverlaysAssumption
<1>2. NoOverlay \in Overlays
  BY <1>1 DEF NoOverlay, Overlays, Images
<1>3. Absent \in [st : {"absent", "stored"}, ov : Overlays]
  BY <1>2 DEF Absent
<1>4. NoVerdict \in SoundVerdicts
  BY <1>1, <1>2, NamespacesAssumption DEF VerdictIsSound, NoVerdict, SoundVerdicts, Images
<1>5. Unanswered \in SoundVerdicts
  BY <1>1, <1>2, NamespacesAssumption DEF VerdictIsSound, NoVerdict, Unanswered, SoundVerdicts, Images
<1>6. (CHOOSE i \in OverlayIds : TRUE) \in OverlayIds
  BY OverlaysAssumption
<1>7. NoRequest \in OverlayRequests /\ NoRequest.op = "idle"
  BY <1>2, <1>3, <1>4, <1>6 DEF NoRequest, OverlayRequests, OverlayMaps
<1> QED  BY <1>3, <1>4, <1>5, <1>7

\* What a request has missed of the map that the ConfigMap becomes.
LEMMA OvertakenRequest ==
    ASSUME NEW q \in OverlayRequests, NEW map, HoldsTheMap(q, overlays)
    PROVE  Missed(map, q) \in OverlayRequests /\ HoldsTheMap(Missed(map, q), map)
<1>1. PICK raced \in SUBSET OverlayIds :
        raced = IF q.op = "idle" THEN q.raced
                ELSE q.raced \cup {i \in OverlayIds : map[i] # overlays[i]}
  BY DEF OverlayRequests
<1>2. PICK b : b = [q EXCEPT !.raced = raced]
  OBVIOUS
<1>3. b \in OverlayRequests /\ b.raced = raced /\ b.op = q.op /\ b.data = q.data
  BY <1>2 DEF OverlayRequests
<1>4. Missed(map, q) = b
  BY <1>1, <1>2 DEF Missed, OverlayRequests
<1>5. HoldsTheMap(b, map)
  BY <1>1, <1>3 DEF HoldsTheMap
<1> QED  BY <1>3, <1>4, <1>5

\* The manifest is in a namespace that was given, or in the watched one, or in the default one.
LEMMA ManifestIsOne ==
    ASSUME NEW o \in Overlays, NEW deploy \in DeployRequests
    PROVE  Manifest(o, deploy) \in [namespace : Namespaces, image : Images]
<1>1. NamespaceOf(o, deploy) \in Namespaces
  <2>1. CASE deploy.namespace # NotGiven
    BY <2>1 DEF NamespaceOf, DeployRequests
  <2>2. CASE deploy.namespace = NotGiven /\ o.namespace # NotGiven
    BY <2>2 DEF NamespaceOf, Overlays
  <2>3. CASE deploy.namespace = NotGiven /\ o.namespace = NotGiven
    BY <2>3, NamespacesAssumption DEF NamespaceOf
  <2> QED  BY <2>1, <2>2, <2>3
<1>2. (IF deploy.image # NotGiven THEN deploy.image ELSE o.image) \in Images
  BY DEF DeployRequests, Overlays
<1> QED  BY <1>1, <1>2 DEF Manifest

\* What preflight answers is sound.
LEMMA PreflightAnswers ==
    ASSUME NEW ref \in PackageRefs, NEW o \in Overlays, NEW deploy \in DeployRequests,
           NEW strict \in BOOLEAN, NEW optional \in BOOLEAN
    PROVE  Preflight(ref, o, deploy, strict, optional) \in SoundVerdicts
<1> DEFINE p == Catalog[ref]
           v == Preflight(ref, o, deploy, strict, optional)
           answers == ref \in DOMAIN Catalog /\ MapsToAgentPackage(ref, p, o)
<1>1. CASE ~answers
  <2>1. v = Unanswered
    BY <1>1 DEF Preflight, fetch_armory_index
  <2> QED  BY <2>1, FreshRequest
<1>2. CASE answers
  <2>1. PICK m \in [namespace : Namespaces, image : Images] : m = Manifest(o, deploy)
    BY ManifestIsOne
  <2> DEFINE gates == plan_armory_install(p, optional)
             yes == "approval" \in gates
             dep == "blocked" \notin gates /\ ~PolicyBlocks(strict, m.image) /\ ~OutOfScope(m.namespace)
  <2>2. v = [st |-> "answered", ref |-> ref, of |-> o, strict |-> strict, optional |-> optional,
             approval |-> yes, manifest |-> m, deployable |-> dep]
    BY <1>2, <2>1 DEF Preflight, fetch_armory_index
  <2>3. p.kind \in {"agent", "profile"} /\ o.armory = ref
    BY <1>2 DEF MapsToAgentPackage
  <2>4. dep => WatchNamespace \in {m.namespace, NotGiven} /\ (strict => m.image = "digest")
    BY DEF PolicyBlocks, OutOfScope, DigestPinned
  <2>5. (\E d \in p.deps : /\ d.required \/ optional
                           /\ d.kind = "extension" /\ d.nativeOnly) => yes
    BY DEF plan_armory_install, DependencyGates
  <2>6. p.distribution = "oci" /\ p.ociRef => yes
    BY DEF plan_armory_install, PackageGates, Pulls
  <2>7. yes \in BOOLEAN /\ dep \in BOOLEAN
    OBVIOUS
  <2> HIDE DEF yes, dep, answers, v
  <2>8. VerdictIsSound(v)
    BY <2>2, <2>3, <2>4, <2>5, <2>6 DEF VerdictIsSound
  <2> QED  BY <2>2, <2>7, <2>8 DEF SoundVerdicts, v
<1> QED  BY <1>1, <1>2

LEMMA OverlayInitially == AoInit => OverlayInv
  BY FreshRequest DEF AoInit, OverlayInv, OverlayMaps, HoldsTheMap

\* The overlay a request writes is its own.
LEMMA ChangedMap ==
    ASSUME NEW q \in OverlayRequests
    PROVE  /\ Changed(q) \in OverlayMaps
           /\ \A i \in OverlayIds \ {q.id} : Changed(q)[i] = q.data[i]
<1>1. (IF q.op = "upsert" THEN Stored(q.ov) ELSE Absent) \in [st : {"absent", "stored"}, ov : Overlays]
  BY FreshRequest DEF Stored, OverlayRequests
<1>2. q.data \in OverlayMaps /\ q.id \in OverlayIds
  BY DEF OverlayRequests
<1> QED  BY <1>1, <1>2 DEF Changed, OverlayMaps

LEMMA OverlayStep == OverlayInv /\ [AoNext]_aoVars => OverlayInv'
<1> SUFFICES ASSUME OverlayInv, [AoNext]_aoVars PROVE OverlayInv'
  OBVIOUS
<1>t. overlays \in OverlayMaps /\ request \in [Requests -> OverlayRequests]
  BY DEF OverlayInv
\* One request changes, and the map does not.
<1>a. ASSUME NEW r \in Requests, NEW q \in OverlayRequests, HoldsTheMap(q, overlays),
             UNCHANGED overlays, request' = [request EXCEPT ![r] = q]
      PROVE  OverlayInv'
  BY <1>a DEF OverlayInv
<1>b. HoldsTheMap(NoRequest, overlays)
  BY FreshRequest DEF HoldsTheMap
<1>b1. \A s \in Requests : request[s] \in OverlayRequests /\ HoldsTheMap(request[s], overlays)
  BY <1>t DEF OverlayInv
<1>1. ASSUME NEW r \in Requests, NEW i \in OverlayIds, NEW o \in Drafts, BeginUpsert(r, i, o)
      PROVE  OverlayInv'
  <2> DEFINE q == [NoRequest EXCEPT !.op = "upsert", !.id = i, !.ov = o, !.data = overlays]
  <2>1. q \in OverlayRequests /\ q.data = overlays
    BY <1>t, DraftsAssumption, FreshRequest DEF OverlayRequests
  <2>2. UNCHANGED overlays /\ request' = [request EXCEPT ![r] = q]
    BY <1>1 DEF BeginUpsert
  <2> HIDE DEF q
  <2> QED  BY <2>1, <2>2, <1>a DEF HoldsTheMap
<1>2. ASSUME NEW r \in Requests, NEW i \in OverlayIds, BeginDelete(r, i) PROVE OverlayInv'
  <2> DEFINE q == [NoRequest EXCEPT !.op = "delete", !.id = i, !.data = overlays]
  <2>1. q \in OverlayRequests /\ q.data = overlays
    BY <1>t, FreshRequest DEF OverlayRequests
  <2>2. UNCHANGED overlays /\ request' = [request EXCEPT ![r] = q]
    BY <1>2 DEF BeginDelete
  <2> HIDE DEF q
  <2> QED  BY <2>1, <2>2, <1>a DEF HoldsTheMap
<1>3. ASSUME NEW r \in Requests, NEW v \in SoundVerdicts, UNCHANGED overlays,
             request' = [request EXCEPT ![r] = [NoRequest EXCEPT !.verdict = v]]
      PROVE  OverlayInv'
  <2> DEFINE q == [NoRequest EXCEPT !.verdict = v]
  <2>1. q \in OverlayRequests /\ q.op = "idle"
    BY FreshRequest DEF OverlayRequests
  <2>2. request' = [request EXCEPT ![r] = q]
    BY <1>3
  <2> HIDE DEF q
  <2> QED  BY <1>3, <2>1, <2>2, <1>a DEF HoldsTheMap
<1>4. ASSUME NEW r \in Requests, NEW i \in OverlayIds, NEW ref \in PackageRefs, NEW deploy \in Deploys,
             NEW strict \in BOOLEAN, NEW optional \in BOOLEAN,
             PreflightStored(r, i, ref, deploy, strict, optional)
      PROVE  OverlayInv'
  <2>1. overlays[i].ov \in Overlays /\ deploy \in DeployRequests
    BY <1>t, DraftsAssumption DEF OverlayMaps
  <2>2. PICK v \in SoundVerdicts : v = Preflight(ref, overlays[i].ov, deploy, strict, optional)
    BY <2>1, PreflightAnswers
  <2> QED  BY <2>2, <1>3, <1>4 DEF PreflightStored
<1>5. ASSUME NEW r \in Requests, NEW o \in Drafts, NEW ref \in PackageRefs, NEW deploy \in Deploys,
             NEW strict \in BOOLEAN, NEW optional \in BOOLEAN,
             PreflightGiven(r, o, ref, deploy, strict, optional)
      PROVE  OverlayInv'
  <2>1. PICK v \in SoundVerdicts : v = Preflight(ref, o, deploy, strict, optional)
    BY DraftsAssumption, PreflightAnswers
  <2> QED  BY <2>1, <1>3, <1>5 DEF PreflightGiven
<1>51. ASSUME NEW r \in Requests, PreflightFails(r) PROVE OverlayInv'
  BY <1>3, <1>51, FreshRequest DEF PreflightFails
<1>6. ASSUME NEW r \in Requests, ApplyFails(r) PROVE OverlayInv'
  BY <1>6, <1>a, <1>b, FreshRequest DEF ApplyFails
<1>7. ASSUME NEW r \in Requests, Apply(r) PROVE OverlayInv'
  <2>1. overlays' \in OverlayMaps
    BY <1>t, <1>7, ChangedMap DEF Apply
  <2>2. request' = [s \in Requests |-> IF s = r THEN NoRequest ELSE Missed(overlays', request[s])]
    BY <1>7 DEF Apply
  <2>3. \A s \in Requests : request'[s] \in OverlayRequests /\ HoldsTheMap(request'[s], overlays')
    <3> TAKE s \in Requests
    <3>1. CASE s = r
      BY <2>2, <3>1, FreshRequest DEF HoldsTheMap
    <3>2. CASE s # r
      BY <2>2, <3>2, <1>b1, OvertakenRequest
    <3> QED  BY <3>1, <3>2
  <2> QED  BY <2>1, <2>2, <2>3 DEF OverlayInv
<1>8. ASSUME NEW i \in OverlayIds, NEW o \in Drafts, EditByHand(i, o) PROVE OverlayInv'
  <2>1. overlays' \in OverlayMaps
    BY <1>t, <1>8, DraftsAssumption DEF EditByHand, Stored, OverlayMaps
  <2>2. request' = [s \in Requests |-> Missed(overlays', request[s])]
    BY <1>8 DEF EditByHand
  <2>3. \A s \in Requests : request'[s] \in OverlayRequests /\ HoldsTheMap(request'[s], overlays')
    BY <2>2, <1>b1, OvertakenRequest
  <2> QED  BY <2>1, <2>2, <2>3 DEF OverlayInv
<1>9. ASSUME UNCHANGED aoVars PROVE OverlayInv'
  BY <1>9 DEF aoVars, OverlayInv
<1> QED
  BY <1>1, <1>2, <1>4, <1>5, <1>51, <1>6, <1>7, <1>8, <1>9 DEF AoNext

\* A request changes of the other overlays only what changed while it was under way, and what
\* preflight reports is sound of the manifest that it shows, for any catalog, any deploy requests,
\* any watched namespace or none, and any number of requests
\* (apply_armory_overlay_config_map, armory_preflight_handler).
THEOREM OverlaysStaySound == AoSpec => OverlaysAreSound
<1>1. OverlayInv => PreflightIsSound
  BY DEF OverlayInv, PreflightIsSound, OverlayRequests, SoundVerdicts, VerdictIsSound
<1>2. OverlayInv /\ [AoNext]_aoVars =>
        [\A r \in Requests : Apply(r) =>
            \A i \in OverlayIds \ ({request[r].id} \cup request[r].raced) : overlays'[i] = overlays[i]]_aoVars
  <2> SUFFICES ASSUME OverlayInv, NEW r \in Requests, Apply(r),
                      NEW i \in OverlayIds \ ({request[r].id} \cup request[r].raced)
               PROVE  overlays'[i] = overlays[i]
    OBVIOUS
  <2>1. request[r] \in OverlayRequests /\ request[r].data[i] = overlays[i]
    BY DEF OverlayInv, HoldsTheMap, Apply
  <2> QED  BY <2>1, ChangedMap DEF Apply
<1> QED
  BY <1>1, <1>2, OverlayInitially, OverlayStep, PTL DEF AoSpec, OverlaysAreSound, WritesAreLocal

----------------------------------------------------------------------------
(* Launches of local containers. *)

PortStates == [last : 0..PortCount, of : [AgentPorts -> AgentNames \cup {NoAgent}]]
LaunchSteps == {"idle", "allocate", "write", "record", "pull", "create", "start"}
LaunchTasks ==
    [step : LaunchSteps, name : AgentNames \cup {NoAgent}, port : 0..PortCount, read : PortStates,
     since : 0..PortCount, mixed : BOOLEAN]

LaunchShape ==
    /\ portFile \in [torn : BOOLEAN, state : PortStates]
    /\ launchTask \in [Deployments -> LaunchTasks]
    /\ \A d \in Deployments :
          launchTask[d].port = 0 <=> launchTask[d].step \in {"idle", "allocate"}
    /\ \A d \in Deployments : launchTask[d].step # "idle" => launchTask[d].name \in AgentNames

\* The tasks whose port the file accounts for.
Counted(task) == task.port # 0 /\ ~task.mixed /\ task.since < PortCount

\* How far the search has to go from port a to come to port b.
Distance(a, b) == IF b >= a THEN b - a ELSE PortCount - a + b

Sync == {"write", "record"}

\* One task of a process is between its read of the file and the end of its record.
OneAtTheFile ==
    \A d, e \in Deployments :
        d # e /\ ProcessOf[d] = ProcessOf[e] /\ launchTask[d].step \in Sync => launchTask[e].step \notin Sync

\* Once a task has written its port, the file stands where the search stood when the task got it,
\* or behind it by no more than what has been counted since.
FileIsAhead ==
    \A e \in Deployments :
        Counted(launchTask[e]) /\ launchTask[e].step # "write"
        => /\ ~portFile.torn /\ portFile.state.last # 0
           /\ Distance(launchTask[e].port, portFile.state.last) <= launchTask[e].since

\* A task about to write has taken a port that is that far ahead.
WriterIsAhead ==
    \A e, d \in Deployments :
        Counted(launchTask[e]) /\ d # e /\ ProcessOf[d] = ProcessOf[e] /\ launchTask[d].step = "write"
        => Distance(launchTask[e].port, launchTask[d].port) <= launchTask[e].since

\* The inductive invariant.
LaunchInv == LaunchShape /\ OneAtTheFile /\ FileIsAhead /\ WriterIsAhead /\ PortsInFlightAreDistinct

LEMMA LaunchInitially == LaInit => LaunchInv
<1> SUFFICES ASSUME LaInit PROVE LaunchInv
  OBVIOUS
<1>1. NoPortState \in PortStates
  BY PortsAssumption DEF NoPortState, NoReservations, PortStates, AgentPorts
<1>2. Waiting \in LaunchTasks /\ Waiting.port = 0 /\ Waiting.step = "idle"
  BY <1>1, PortsAssumption DEF Waiting, LaunchTasks, LaunchSteps
<1>3. /\ \A d \in Deployments : launchTask[d] = Waiting
      /\ launchTask \in [Deployments -> LaunchTasks]
      /\ portFile \in [torn : BOOLEAN, state : PortStates]
  BY <1>1, <1>2 DEF LaInit
<1>4. LaunchShape
  BY <1>2, <1>3 DEF LaunchShape
<1> QED
  BY <1>2, <1>3, <1>4
  DEF LaunchInv, OneAtTheFile, FileIsAhead, WriterIsAhead, PortsInFlightAreDistinct, Counted, Sync

\* A least element of the ports that are free, in the order of the search.
LEMMA LeastNumber ==
    ASSUME NEW T, T \subseteq Nat, T # {}
    PROVE  \E x \in T : \A y \in T : x <= y
<1> DEFINE R == OpToRel(<, Nat)
<1>1. IsWellFoundedOn(R, Nat)
  BY NatLessThanWellFounded
<1>2. \A x, y \in Nat : x < y => <<x, y>> \in R
  BY DEF OpToRel
<1> HIDE DEF R
<1>3. PICK x \in T : \A y \in T : ~ (<<y, x>> \in R)
  BY <1>1, WFMin
<1>4. \A y \in T : x <= y
  <2> TAKE y \in T
  <2>1. x \in Nat /\ y \in Nat
    OBVIOUS
  <2>2. ~ (y < x)
    BY <1>2, <1>3, <2>1
  <2> QED  BY <2>1, <2>2
<1> QED  BY <1>4

\* Every port has a place in the search, the port allocated last comes last.
LEMMA SearchOrder ==
    ASSUME NEW last \in 0..PortCount, NEW q \in AgentPorts
    PROVE  /\ monotonic_port_candidates(last, q) \in 1..PortCount
           /\ last # 0 /\ q # last => monotonic_port_candidates(last, q) = Distance(last, q)
           /\ q = last => monotonic_port_candidates(last, q) = PortCount
  BY PortsAssumption DEF monotonic_port_candidates, Distance, AgentPorts

LEMMA ChosenIsAPort ==
    ASSUME NEW state \in PortStates, Available # {}
    PROVE  choose_next_port(state) \in AgentPorts
<1> DEFINE place(q) == monotonic_port_candidates(state.last, q)
           T == {place(q) : q \in Available}
<1>1. Available \subseteq AgentPorts
  BY DEF Available
<1>2. \A q \in Available : place(q) \in Nat
  BY <1>1, SearchOrder DEF PortStates
<1>3. PICK x \in T : \A y \in T : x <= y
  <2>1. T \subseteq Nat /\ T # {}
    BY <1>2
  <2> HIDE DEF T
  <2> QED  BY <2>1, LeastNumber
<1>4. \E q \in Available : \A r \in Available : place(q) <= place(r)
  BY <1>3
<1>5. choose_next_port(state) \in Available
  BY <1>4 DEF choose_next_port
<1> QED  BY <1>1, <1>5

\* The search goes on from where it stands: less than once around, it meets no port it has passed.
LEMMA SearchMovesOn ==
    ASSUME NEW a \in AgentPorts, NEW last \in AgentPorts, NEW q \in AgentPorts, NEW n \in 0..PortCount,
           Distance(a, last) <= n, n + monotonic_port_candidates(last, q) < PortCount
    PROVE  q # a /\ Distance(a, q) <= n + monotonic_port_candidates(last, q)
  BY PortsAssumption DEF monotonic_port_candidates, Distance, AgentPorts

\* A step of a task that does not touch the file, or the end of a task.
Quiet(old, new) ==
    \/ /\ new.port = old.port /\ new.since = old.since /\ new.mixed = old.mixed
       /\ new.step = old.step \/ (old.step \notin Sync /\ new.step \notin Sync)
    \/ new.port = 0 /\ new.step \notin Sync

\* Steps that leave the file alone.
LEMMA QuietSteps ==
    ASSUME LaunchInv, portFile' = portFile, LaunchShape',
           \A e \in Deployments : Quiet(launchTask[e], launchTask'[e])
    PROVE  LaunchInv'
<1> USE DEF LaunchInv
<1>1. OneAtTheFile'
  BY DEF OneAtTheFile, Quiet, Sync
<1>2. \A e \in Deployments : Counted(launchTask'[e]) =>
          /\ Counted(launchTask[e]) /\ launchTask'[e].port = launchTask[e].port
          /\ launchTask'[e].since = launchTask[e].since
          /\ launchTask[e].step = "write" => launchTask'[e].step = "write"
  BY DEF Counted, Quiet, Sync
<1>3. \A e \in Deployments : launchTask'[e].step = "write" =>
          launchTask[e].step = "write" /\ launchTask'[e].port = launchTask[e].port
  BY DEF Quiet, Sync
<1>4. FileIsAhead'
  BY <1>2 DEF FileIsAhead
<1>6. WriterIsAhead'
  BY <1>2, <1>3 DEF WriterIsAhead
<1>7. PortsInFlightAreDistinct'
  BY DEF PortsInFlightAreDistinct, Quiet
<1> QED  BY <1>1, <1>4, <1>6, <1>7

LEMMA WaitingIsATask ==
    /\ NoPortState \in PortStates
    /\ Waiting \in LaunchTasks /\ Waiting.port = 0 /\ Waiting.step = "idle"
<1>1. NoPortState \in PortStates
  BY PortsAssumption DEF NoPortState, NoReservations, PortStates, AgentPorts
<1> QED  BY <1>1, PortsAssumption DEF Waiting, LaunchTasks, LaunchSteps

\* One task takes a quiet step.
LEMMA OneQuietStep ==
    ASSUME LaunchInv, portFile' = portFile, NEW d \in Deployments, NEW task \in LaunchTasks,
           launchTask' = [launchTask EXCEPT ![d] = task], Quiet(launchTask[d], task),
           task.port = 0 <=> task.step \in {"idle", "allocate"},
           task.step # "idle" => task.name \in AgentNames
    PROVE  LaunchInv'
<1>1. \A e \in Deployments : launchTask'[e] = IF e = d THEN task ELSE launchTask[e]
  BY DEF LaunchInv, LaunchShape
<1>2. LaunchShape'
  BY <1>1 DEF LaunchInv, LaunchShape
<1>3. \A e \in Deployments : Quiet(launchTask[e], launchTask'[e])
  BY <1>1 DEF Quiet
<1> QED  BY <1>2, <1>3, QuietSteps

\* What the steps at the file do to a task.
LEMMA TakenPort ==
    ASSUME NEW t \in LaunchTasks, NEW s \in PortStates, NEW q \in AgentPorts
    PROVE  LET b == [t EXCEPT !.step = "write", !.read = s, !.port = q]
           IN  /\ b.step = "write" /\ b.port = q /\ b.mixed = t.mixed /\ b.since = t.since /\ b.name = t.name
               /\ b \in LaunchTasks
<1> DEFINE b == [t EXCEPT !.step = "write", !.read = s, !.port = q]
<1>1. b.step = "write" /\ b.port = q /\ b.mixed = t.mixed /\ b.since = t.since /\ b.name = t.name
  BY DEF LaunchTasks
<1>2. q \in 0..PortCount
  BY PortsAssumption DEF AgentPorts
<1>3. b \in LaunchTasks
  BY <1>2 DEF LaunchTasks, LaunchSteps
<1> QED  BY <1>1, <1>3

LEMMA CountedOn ==
    ASSUME NEW t \in LaunchTasks, NEW n \in 0..PortCount
    PROVE  LET b == [t EXCEPT !.since = n]
           IN  /\ b.step = t.step /\ b.port = t.port /\ b.mixed = t.mixed /\ b.since = n /\ b.name = t.name
               /\ b \in LaunchTasks
  BY DEF LaunchTasks

LEMMA BlurredTask ==
    ASSUME NEW t \in LaunchTasks, NEW x \in BOOLEAN
    PROVE  LET b == [t EXCEPT !.mixed = @ \/ x]
           IN  /\ b \in LaunchTasks
               /\ b.step = t.step /\ b.name = t.name /\ b.port = t.port /\ b.since = t.since
               /\ b.mixed <=> t.mixed \/ x
<1> DEFINE b == [t EXCEPT !.mixed = @ \/ x]
<1>1. b.step = t.step /\ b.name = t.name /\ b.port = t.port /\ b.since = t.since /\ b.read = t.read
  BY DEF LaunchTasks
<1>2. b.mixed = (t.mixed \/ x)
  BY DEF LaunchTasks
<1>3. (t.mixed \/ x) \in BOOLEAN
  OBVIOUS
<1>4. b \in LaunchTasks
  <2>1. ASSUME NEW m \in BOOLEAN PROVE [t EXCEPT !.mixed = m] \in LaunchTasks
    BY DEF LaunchTasks
  <2>2. b = [t EXCEPT !.mixed = (t.mixed \/ x)]
    BY DEF LaunchTasks
  <2> QED  BY <2>1, <2>2, <1>3
<1> QED  BY <1>1, <1>2, <1>4

LEMMA OneOfBlurred ==
    ASSUME LaunchShape, NEW d \in Deployments, NEW torn \in BOOLEAN, NEW e \in Deployments
    PROVE  LET b == Blurred(d, torn)[e]
               t == launchTask[e]
           IN  /\ b \in LaunchTasks
               /\ b.step = t.step /\ b.name = t.name /\ b.port = t.port /\ b.since = t.since
               /\ b.mixed <=> t.mixed \/ (t.port # 0 /\ (torn \/ ProcessOf[e] # ProcessOf[d]))
<1> DEFINE x == launchTask[e].port # 0 /\ (torn \/ ProcessOf[e] # ProcessOf[d])
<1>1. Blurred(d, torn)[e] = [launchTask[e] EXCEPT !.mixed = @ \/ x]
  BY DEF Blurred
<1>2. launchTask[e] \in LaunchTasks /\ x \in BOOLEAN
  BY DEF LaunchShape
<1>3. x <=> launchTask[e].port # 0 /\ (torn \/ ProcessOf[e] # ProcessOf[d])
  OBVIOUS
<1> HIDE DEF x
<1> QED  BY <1>1, <1>2, <1>3, BlurredTask

LEMMA BlurredTasks ==
    ASSUME LaunchShape, NEW d \in Deployments, NEW torn \in BOOLEAN
    PROVE  /\ Blurred(d, torn) \in [Deployments -> LaunchTasks]
           /\ \A e \in Deployments :
                 LET b == Blurred(d, torn)[e]
                     t == launchTask[e]
                 IN  /\ b \in LaunchTasks
                     /\ b.step = t.step /\ b.name = t.name /\ b.port = t.port /\ b.since = t.since
                     /\ b.mixed <=> t.mixed \/ (t.port # 0 /\ (torn \/ ProcessOf[e] # ProcessOf[d]))
<1>1. \A e \in Deployments : Blurred(d, torn)[e] \in LaunchTasks
  BY OneOfBlurred
<1>2. Blurred(d, torn) \in [Deployments -> LaunchTasks]
  BY <1>1 DEF Blurred
<1> QED  BY <1>2, OneOfBlurred

\* A task takes the next port of the search.
LEMMA AllocateReadStep ==
    ASSUME LaunchInv, NEW d \in Deployments, AllocateRead(d)
    PROVE  LaunchInv'
<1>t. /\ portFile \in [torn : BOOLEAN, state : PortStates] /\ portFile' = portFile
      /\ launchTask \in [Deployments -> LaunchTasks]
      /\ \A e \in Deployments : launchTask[e] \in LaunchTasks
      /\ \A e \in Deployments : launchTask[e].port = 0 <=> launchTask[e].step \in {"idle", "allocate"}
      /\ \A e \in Deployments : launchTask[e].step # "idle" => launchTask[e].name \in AgentNames
  BY DEF LaunchInv, LaunchShape, AllocateRead
<1>1. CASE Available = {}
  <2>1. launchTask' = [launchTask EXCEPT ![d] = Waiting] /\ Quiet(launchTask[d], Waiting)
    BY <1>1, WaitingIsATask DEF AllocateRead, Quiet, Sync
  <2> QED  BY <2>1, <1>t, WaitingIsATask, OneQuietStep
<1>2. CASE Available # {}
  <2> DEFINE state == read_port_state
             q == choose_next_port(state)
             far == monotonic_port_candidates(state.last, q)
             newSince(e) == IF launchTask[e].port = 0 THEN 0
                            ELSE IF launchTask[e].since + far < PortCount THEN launchTask[e].since + far
                                 ELSE PortCount
  <2>1. state \in PortStates /\ (~portFile.torn => state = portFile.state)
    BY <1>t, WaitingIsATask DEF read_port_state
  <2>2. q \in AgentPorts
    BY <2>1, <1>2, ChosenIsAPort
  <2>3. far \in 1..PortCount
    BY <2>1, <2>2, SearchOrder DEF PortStates
  <2>4. launchTask' = [e \in Deployments |->
            IF e = d THEN [launchTask[d] EXCEPT !.step = "write", !.read = state, !.port = q]
            ELSE [launchTask[e] EXCEPT !.since = newSince(e)]]
    BY <1>2, <1>t DEF AllocateRead, LaunchTasks
  <2> HIDE DEF state, q, far
  <2>5. \A e \in Deployments : newSince(e) \in 0..PortCount
    BY <1>t, <2>3, PortsAssumption DEF LaunchTasks
  <2>6. /\ launchTask'[d] = [launchTask[d] EXCEPT !.step = "write", !.read = state, !.port = q]
        /\ \A e \in Deployments \ {d} : launchTask'[e] = [launchTask[e] EXCEPT !.since = newSince(e)]
    BY <2>4
  <2> HIDE DEF newSince
  <2>7. /\ launchTask'[d].step = "write" /\ launchTask'[d].port = q
        /\ launchTask'[d].mixed = launchTask[d].mixed /\ launchTask'[d].since = launchTask[d].since
        /\ launchTask'[d].name = launchTask[d].name
        /\ launchTask'[d] \in LaunchTasks
    <3>1. launchTask[d] \in LaunchTasks
      BY <1>t
    <3>2. launchTask'[d] = [launchTask[d] EXCEPT !.step = "write", !.read = state, !.port = q]
      BY <2>6
    <3>3. PICK t \in LaunchTasks : t = launchTask[d]
      BY <3>1
    <3>4. launchTask'[d] = [t EXCEPT !.step = "write", !.read = state, !.port = q]
      BY <3>2, <3>3
    <3>5. state \in PortStates /\ q \in AgentPorts
      BY <2>1, <2>2
    <3>6. LET b == [t EXCEPT !.step = "write", !.read = state, !.port = q]
          IN  /\ b.step = "write" /\ b.port = q /\ b.mixed = t.mixed /\ b.since = t.since /\ b.name = t.name
              /\ b \in LaunchTasks
      BY <3>5, TakenPort
    <3> QED  BY <3>3, <3>4, <3>6, Zenon
  <2>8. \A e \in Deployments \ {d} :
          /\ launchTask'[e].step = launchTask[e].step /\ launchTask'[e].port = launchTask[e].port
          /\ launchTask'[e].mixed = launchTask[e].mixed /\ launchTask'[e].since = newSince(e)
          /\ launchTask'[e].name = launchTask[e].name
          /\ launchTask'[e] \in LaunchTasks
    <3> TAKE e \in Deployments \ {d}
    <3>1. launchTask[e] \in LaunchTasks /\ newSince(e) \in 0..PortCount
      BY <1>t, <2>5
    <3>2. launchTask'[e] = [launchTask[e] EXCEPT !.since = newSince(e)]
      BY <2>6
    <3> QED  BY <3>1, <3>2, CountedOn
  <2>9. /\ launchTask[d].step = "allocate" /\ launchTask[d].port = 0
        /\ \A e \in Deployments \ {d} :
              ProcessOf[e] = ProcessOf[d] => launchTask[e].step \notin Sync
    BY <1>t DEF AllocateRead, MayRun, Sync
  <2>10. LaunchShape'
    <3>1. launchTask' \in [Deployments -> LaunchTasks]
      BY <2>4, <2>7, <2>8
    <3>2. \A e \in Deployments : launchTask'[e].port = 0 <=> launchTask'[e].step \in {"idle", "allocate"}
      BY <2>7, <2>8, <2>2, <1>t, PortsAssumption DEF AgentPorts
    <3>3. \A e \in Deployments : launchTask'[e].step # "idle" => launchTask'[e].name \in AgentNames
      BY <2>7, <2>8, <2>9, <1>t
    <3> QED  BY <3>1, <3>2, <3>3, <1>t DEF LaunchShape
  <2>11. OneAtTheFile'
    BY <2>7, <2>8, <2>9 DEF LaunchInv, OneAtTheFile, Sync
  \* The tasks that still count were counted, and less than once around the range.
  <2>12. ASSUME NEW e \in Deployments \ {d}, Counted(launchTask'[e])
         PROVE  /\ Counted(launchTask[e]) /\ launchTask[e].port \in AgentPorts
                /\ launchTask'[e].since = launchTask[e].since + far
                /\ launchTask[e].since + far < PortCount
                /\ launchTask[e].since \in 0..PortCount
    <3>1. /\ launchTask[e].port # 0 /\ ~launchTask[e].mixed /\ newSince(e) < PortCount
          /\ launchTask[e].since \in 0..PortCount /\ launchTask[e].port \in 0..PortCount
      BY <2>8, <2>12, <1>t DEF Counted, LaunchTasks
    <3>2. newSince(e) = launchTask[e].since + far /\ launchTask[e].since + far < PortCount
      BY <3>1, PortsAssumption DEF newSince
    <3>3. launchTask[e].since < PortCount
      BY <3>1, <3>2, <2>3, PortsAssumption
    <3> QED  BY <3>1, <3>2, <3>3, <2>8, PortsAssumption DEF Counted, AgentPorts
  \* Of the same process they are behind the file, so the new port is another.
  <2>13. ASSUME NEW e \in Deployments \ {d}, Counted(launchTask'[e]), ProcessOf[e] = ProcessOf[d]
         PROVE  q # launchTask[e].port /\ Distance(launchTask[e].port, q) <= launchTask'[e].since
    <3>1. launchTask[e].step # "write"
      BY <2>9, <2>13 DEF Sync
    <3>2. /\ ~portFile.torn /\ portFile.state.last # 0
          /\ Distance(launchTask[e].port, portFile.state.last) <= launchTask[e].since
      BY <3>1, <2>12, <2>13 DEF LaunchInv, FileIsAhead
    <3>3. state.last = portFile.state.last /\ state.last \in AgentPorts
      BY <3>2, <2>1, <1>t, PortsAssumption DEF PortStates, AgentPorts
    <3>4. launchTask[e].since + monotonic_port_candidates(state.last, q) < PortCount
      BY <2>12, <2>13 DEF far
    <3>5. /\ q # launchTask[e].port
          /\ Distance(launchTask[e].port, q) <= launchTask[e].since + monotonic_port_candidates(state.last, q)
      BY <3>2, <3>3, <3>4, <2>12, <2>13, <2>2, SearchMovesOn
    <3> QED  BY <3>5, <2>12, <2>13 DEF far
  <2>14. FileIsAhead'
    <3> SUFFICES ASSUME NEW e \in Deployments, Counted(launchTask'[e]), launchTask'[e].step # "write"
                 PROVE  /\ ~portFile.torn /\ portFile.state.last # 0
                        /\ Distance(launchTask'[e].port, portFile.state.last) <= launchTask'[e].since
      BY <1>t DEF FileIsAhead
    <3>1. e # d
      BY <2>7
    <3>2. launchTask[e].step # "write"
      BY <3>1, <2>8
    <3>3. /\ Counted(launchTask[e]) /\ launchTask'[e].since = launchTask[e].since + far
          /\ launchTask[e].since \in 0..PortCount /\ launchTask[e].port \in AgentPorts
      BY <3>1, <2>12
    <3>4. /\ ~portFile.torn /\ portFile.state.last # 0
          /\ Distance(launchTask[e].port, portFile.state.last) <= launchTask[e].since
      BY <3>2, <3>3 DEF LaunchInv, FileIsAhead
    <3>5. Distance(launchTask[e].port, portFile.state.last) \in Int
      BY <1>t, <3>3, PortsAssumption DEF Distance, PortStates, AgentPorts
    <3> QED  BY <3>1, <3>3, <3>4, <3>5, <2>3, <2>8, PortsAssumption
  <2>15. WriterIsAhead'
    <3> SUFFICES ASSUME NEW e \in Deployments, NEW f \in Deployments, Counted(launchTask'[e]), f # e,
                        ProcessOf[f] = ProcessOf[e], launchTask'[f].step = "write"
                 PROVE  Distance(launchTask'[e].port, launchTask'[f].port) <= launchTask'[e].since
      BY DEF WriterIsAhead
    <3>1. CASE f = d
      BY <3>1, <2>7, <2>8, <2>13
    <3>2. CASE f # d
      <4>1. e # d /\ launchTask[f].step = "write" /\ launchTask'[f].port = launchTask[f].port
        BY <3>2, <2>8, <2>9 DEF Sync
      <4>2. /\ Counted(launchTask[e]) /\ launchTask'[e].since = launchTask[e].since + far
            /\ launchTask[e].since \in 0..PortCount /\ launchTask[e].port \in AgentPorts
        BY <4>1, <2>12
      <4>3. Distance(launchTask[e].port, launchTask[f].port) <= launchTask[e].since
        BY <4>1, <4>2 DEF LaunchInv, WriterIsAhead
      <4>4. Distance(launchTask[e].port, launchTask[f].port) \in Int
        BY <1>t, <4>2, PortsAssumption DEF Distance, LaunchTasks, AgentPorts
      <4> QED  BY <4>1, <4>2, <4>3, <4>4, <2>3, <2>8, PortsAssumption
    <3> QED  BY <3>1, <3>2
  <2>16. PortsInFlightAreDistinct'
    <3> SUFFICES ASSUME NEW e \in Deployments, NEW f \in Deployments, e # f,
                        Counted(launchTask'[e]), Counted(launchTask'[f]), ProcessOf[e] = ProcessOf[f]
                 PROVE  launchTask'[e].port # launchTask'[f].port
      BY DEF PortsInFlightAreDistinct, Counted
    <3>1. CASE e = d
      BY <3>1, <2>7, <2>8, <2>13
    <3>2. CASE f = d
      BY <3>2, <2>7, <2>8, <2>13
    <3>3. CASE e # d /\ f # d
      BY <3>3, <2>8, <2>12 DEF LaunchInv, PortsInFlightAreDistinct, Counted
    <3> QED  BY <3>1, <3>2, <3>3
  <2> QED  BY <2>10, <2>11, <2>14, <2>15, <2>16 DEF LaunchInv
<1> QED  BY <1>1, <1>2

\* Writes of the file: a task that still counts is one of the writer's process, or has no port.
LEMMA WritesOfTheFile ==
    ASSUME LaunchInv, LaunchShape', NEW d \in Deployments, NEW torn \in BOOLEAN, launchTask[d].step \in Sync,
           \A e \in Deployments \ {d} : launchTask'[e] = Blurred(d, torn)[e],
           launchTask'[d].step # "write",
           Counted(launchTask'[d]) => /\ Counted(launchTask[d]) /\ launchTask'[d].port = launchTask[d].port
                                      /\ launchTask'[d].since = launchTask[d].since,
           launchTask'[d].step \in Sync => launchTask[d].step = "write",
           \A e \in Deployments : Counted(launchTask'[e]) =>
               /\ ~torn /\ ~portFile'.torn /\ portFile'.state.last # 0
               /\ Distance(launchTask'[e].port, portFile'.state.last) <= launchTask'[e].since
    PROVE  LaunchInv'
<1>1. \A e \in Deployments \ {d} :
         /\ launchTask'[e].step = launchTask[e].step /\ launchTask'[e].port = launchTask[e].port
         /\ launchTask'[e].since = launchTask[e].since
         /\ Counted(launchTask'[e]) => Counted(launchTask[e]) /\ ProcessOf[e] = ProcessOf[d]
  <2> TAKE e \in Deployments \ {d}
  <2>1. LaunchShape /\ launchTask'[e] = Blurred(d, torn)[e]
    BY DEF LaunchInv
  <2>2. Counted(launchTask'[e]) => ~torn
    OBVIOUS
  <2> QED  BY <2>1, <2>2, BlurredTasks DEF Counted
<1>2. OneAtTheFile'
  BY <1>1 DEF LaunchInv, OneAtTheFile, Sync
<1>3. FileIsAhead'
  BY DEF FileIsAhead
<1>4. WriterIsAhead'
  <2> SUFFICES ASSUME NEW e \in Deployments, NEW f \in Deployments, Counted(launchTask'[e]), f # e,
                      ProcessOf[f] = ProcessOf[e], launchTask'[f].step = "write"
               PROVE  FALSE
    BY DEF WriterIsAhead
  <2>1. f # d /\ launchTask[f].step = "write"
    BY <1>1
  <2>2. ProcessOf[f] = ProcessOf[d]
    BY <1>1
  <2> QED  BY <2>1, <2>2 DEF LaunchInv, OneAtTheFile, Sync
<1>5. PortsInFlightAreDistinct'
  <2>1. \A e \in Deployments : Counted(launchTask'[e]) =>
           Counted(launchTask[e]) /\ launchTask'[e].port = launchTask[e].port
    BY <1>1
  <2> QED  BY <2>1 DEF LaunchInv, PortsInFlightAreDistinct, Counted
<1> QED  BY <1>2, <1>3, <1>4, <1>5 DEF LaunchInv

LEMMA AllocateWriteStep ==
    ASSUME LaunchInv, NEW d \in Deployments, AllocateWrite(d)
    PROVE  LaunchInv'
<1>t. LaunchShape /\ launchTask[d] \in LaunchTasks /\ launchTask[d].port \in AgentPorts
  BY PortsAssumption DEF LaunchInv, LaunchShape, AllocateWrite, LaunchTasks, AgentPorts
<1> DEFINE blurred == Blurred(d, FALSE)
<1>1. /\ launchTask' = [blurred EXCEPT ![d] = [blurred[d] EXCEPT !.step = "record", !.read = NoPortState]]
      /\ launchTask[d].step = "write"
  <2>1. blurred \in [Deployments -> LaunchTasks]
    BY <1>t, BlurredTasks
  <2> QED  BY <2>1 DEF AllocateWrite, LaunchTasks
<1>2. /\ blurred \in [Deployments -> LaunchTasks] /\ blurred[d] \in LaunchTasks
      /\ blurred[d].port = launchTask[d].port /\ blurred[d].since = launchTask[d].since
      /\ blurred[d].name = launchTask[d].name /\ (blurred[d].mixed <=> launchTask[d].mixed)
  BY <1>t, BlurredTasks
<1>3. \A e \in Deployments \ {d} : LET b == blurred[e]
                                       t == launchTask[e]
        IN  /\ b \in LaunchTasks
            /\ b.step = t.step /\ b.name = t.name /\ b.port = t.port /\ b.since = t.since
            /\ b.mixed <=> t.mixed \/ (t.port # 0 /\ ProcessOf[e] # ProcessOf[d])
  <2> TAKE e \in Deployments \ {d}
  <2>1. e \in Deployments /\ FALSE \in BOOLEAN
    OBVIOUS
  <2>2. LET b == Blurred(d, FALSE)[e]
            t == launchTask[e]
        IN  /\ b \in LaunchTasks
            /\ b.step = t.step /\ b.name = t.name /\ b.port = t.port /\ b.since = t.since
            /\ b.mixed <=> t.mixed \/ (t.port # 0 /\ (FALSE \/ ProcessOf[e] # ProcessOf[d]))
    BY <1>t, <2>1, BlurredTasks, Zenon
  <2> QED  BY <2>2
<1> HIDE DEF blurred
<1>4. /\ launchTask'[d].step = "record" /\ launchTask'[d].port = launchTask[d].port
      /\ launchTask'[d].since = launchTask[d].since /\ launchTask'[d].name = launchTask[d].name
      /\ (launchTask'[d].mixed <=> launchTask[d].mixed) /\ launchTask'[d] \in LaunchTasks
  BY <1>1, <1>2, WaitingIsATask DEF LaunchTasks, LaunchSteps
<1>5. \A e \in Deployments \ {d} : launchTask'[e] = blurred[e]
  BY <1>1, <1>2
<1>6. /\ portFile'.state.last = launchTask[d].port /\ ~portFile'.torn
      /\ portFile' \in [torn : BOOLEAN, state : PortStates]
  <2>1. launchTask[d].read.of \in [AgentPorts -> AgentNames \cup {NoAgent}]
    BY <1>t DEF LaunchTasks, PortStates
  <2> QED  BY <2>1, <1>t DEF AllocateWrite, PortStates, AgentPorts
<1>7. LaunchShape'
  <2>1. launchTask' \in [Deployments -> LaunchTasks]
    BY <1>1, <1>2, <1>4, <1>5
  <2>2. \A e \in Deployments :
           /\ launchTask'[e].port = 0 <=> launchTask'[e].step \in {"idle", "allocate"}
           /\ launchTask'[e].step # "idle" => launchTask'[e].name \in AgentNames
    BY <1>t, <1>1, <1>3, <1>4, <1>5, PortsAssumption DEF LaunchShape, AgentPorts
  <2> QED  BY <2>1, <2>2, <1>6 DEF LaunchShape
<1>8. ASSUME NEW e \in Deployments, Counted(launchTask'[e])
      PROVE  Distance(launchTask'[e].port, portFile'.state.last) <= launchTask'[e].since
  <2>1. CASE e = d
    <3>1. launchTask[d].since \in 0..PortCount
      BY <1>t DEF LaunchTasks
    <3>2. Distance(launchTask[d].port, launchTask[d].port) = 0
      BY <1>t, PortsAssumption DEF Distance, AgentPorts
    <3> QED  BY <2>1, <1>4, <1>6, <3>1, <3>2, PortsAssumption
  <2>2. CASE e # d
    <3>1. Counted(launchTask[e]) /\ ProcessOf[e] = ProcessOf[d]
      BY <2>2, <1>3, <1>5, <1>8 DEF Counted
    <3>2. Distance(launchTask[e].port, launchTask[d].port) <= launchTask[e].since
      BY <3>1, <2>2, <1>1 DEF LaunchInv, WriterIsAhead
    <3> QED  BY <3>2, <2>2, <1>3, <1>5, <1>6
  <2> QED  BY <2>1, <2>2
<1>9. portFile'.state.last # 0
  BY <1>6, <1>t, PortsAssumption DEF AgentPorts
<1>10. Counted(launchTask'[d]) => Counted(launchTask[d])
  BY <1>4 DEF Counted
<1>11. \A e \in Deployments \ {d} : launchTask'[e] = Blurred(d, FALSE)[e]
  BY <1>5 DEF blurred
<1>12. launchTask[d].step \in Sync /\ launchTask'[d].step # "write"
  BY <1>1, <1>4 DEF Sync
<1>13. \A e \in Deployments : Counted(launchTask'[e]) =>
          /\ ~FALSE /\ ~portFile'.torn /\ portFile'.state.last # 0
          /\ Distance(launchTask'[e].port, portFile'.state.last) <= launchTask'[e].since
  BY <1>6, <1>8, <1>9
<1> QED
  BY <1>1, <1>4, <1>7, <1>10, <1>11, <1>12, <1>13, WritesOfTheFile

\* Nobody counts on a torn file: each task is over, or blurred.
LEMMA TornFileStep ==
    ASSUME LaunchInv, NEW d \in Deployments, launchTask[d].step \in Sync, portFile' = TornFile,
           launchTask' \in [Deployments -> LaunchTasks],
           \A e \in Deployments : \/ launchTask'[e] = Waiting
                                  \/ e # d /\ launchTask'[e] = Blurred(d, TRUE)[e]
    PROVE  LaunchInv'
<1>1. \A e \in Deployments : \/ launchTask'[e].port = 0 /\ launchTask'[e].step = "idle"
                             \/ /\ launchTask'[e].step = launchTask[e].step
                                /\ launchTask'[e].name = launchTask[e].name
                                /\ launchTask'[e].port = launchTask[e].port
                                /\ launchTask[e].port # 0 => launchTask'[e].mixed
  <2> TAKE e \in Deployments
  <2>1. CASE launchTask'[e] = Waiting
    BY <2>1, WaitingIsATask
  <2>2. CASE e # d /\ launchTask'[e] = Blurred(d, TRUE)[e]
    <3> DEFINE x == launchTask[e].port # 0
    <3>1. launchTask'[e] = [launchTask[e] EXCEPT !.mixed = @ \/ x]
      BY <2>2 DEF Blurred
    <3>2. launchTask[e] \in LaunchTasks /\ x \in BOOLEAN
      BY DEF LaunchInv, LaunchShape
    <3>3. x <=> launchTask[e].port # 0
      OBVIOUS
    <3> HIDE DEF x
    <3> QED  BY <3>1, <3>2, <3>3, BlurredTask
  <2> QED  BY <2>1, <2>2
<1>2. LaunchShape'
  <2>1. portFile' \in [torn : BOOLEAN, state : PortStates]
    BY WaitingIsATask DEF TornFile
  <2> QED  BY <1>1, <2>1 DEF LaunchInv, LaunchShape
<1>3. \A e \in Deployments : ~Counted(launchTask'[e])
  BY <1>1 DEF Counted
<1>4. OneAtTheFile'
  BY <1>1 DEF LaunchInv, OneAtTheFile, Sync
<1> QED
  BY <1>2, <1>3, <1>4
  DEF LaunchInv, FileIsAhead, WriterIsAhead, PortsInFlightAreDistinct, Counted

\* A write of the file fails, or a process dies: some tasks end, and the file is torn or as it was.
LEMMA TasksEnd ==
    ASSUME LaunchInv, NEW d \in Deployments, NEW torn \in BOOLEAN, torn => launchTask[d].step \in Sync,
           NEW Over, Over \subseteq Deployments, d \in Over,
           portFile' = IF torn THEN TornFile ELSE portFile,
           launchTask' = [e \in Deployments |->
                             IF e \in Over THEN Waiting
                             ELSE IF torn THEN Blurred(d, TRUE)[e] ELSE launchTask[e]]
    PROVE  LaunchInv'
<1>1. LaunchShape /\ \A e \in Deployments : launchTask[e] \in LaunchTasks /\ Blurred(d, TRUE)[e] \in LaunchTasks
  BY BlurredTasks DEF LaunchInv, LaunchShape
<1>2. launchTask' \in [Deployments -> LaunchTasks]
  BY <1>1, WaitingIsATask
<1>3. CASE torn
  BY <1>2, <1>3, TornFileStep
<1>4. CASE ~torn
  <2>1. \A e \in Deployments : launchTask'[e] = Waiting \/ launchTask'[e] = launchTask[e]
    BY <1>4
  <2>2. LaunchShape'
    BY <1>1, <1>2, <1>4, <2>1, WaitingIsATask DEF LaunchShape
  <2>3. \A e \in Deployments : Quiet(launchTask[e], launchTask'[e])
    BY <2>1, WaitingIsATask DEF Quiet, Sync
  <2> QED  BY <1>4, <2>2, <2>3, QuietSteps
<1> QED  BY <1>3, <1>4

LEMMA RecordStep ==
    ASSUME LaunchInv, NEW d \in Deployments, Record(d)
    PROVE  LaunchInv'
<1>t. /\ LaunchShape /\ launchTask[d] \in LaunchTasks /\ launchTask[d].port \in AgentPorts
      /\ launchTask[d].step = "record" /\ launchTask[d].name \in AgentNames
  BY PortsAssumption DEF LaunchInv, LaunchShape, Record, LaunchTasks, AgentPorts
<1> DEFINE blurred == Blurred(d, FALSE)
<1>1. launchTask' = [blurred EXCEPT ![d] = [blurred[d] EXCEPT !.step = "pull"]]
  <2>1. blurred \in [Deployments -> LaunchTasks]
    BY <1>t, BlurredTasks
  <2> QED  BY <2>1 DEF Record, LaunchTasks
<1>2. /\ blurred \in [Deployments -> LaunchTasks] /\ blurred[d] \in LaunchTasks
      /\ blurred[d].port = launchTask[d].port /\ blurred[d].since = launchTask[d].since
      /\ blurred[d].name = launchTask[d].name /\ (blurred[d].mixed <=> launchTask[d].mixed)
  BY <1>t, BlurredTasks
<1>3. \A e \in Deployments \ {d} : LET b == blurred[e]
                                       t == launchTask[e]
        IN  /\ b \in LaunchTasks
            /\ b.step = t.step /\ b.name = t.name /\ b.port = t.port /\ b.since = t.since
            /\ b.mixed <=> t.mixed \/ (t.port # 0 /\ ProcessOf[e] # ProcessOf[d])
  <2> TAKE e \in Deployments \ {d}
  <2>1. e \in Deployments /\ FALSE \in BOOLEAN
    OBVIOUS
  <2>2. LET b == Blurred(d, FALSE)[e]
            t == launchTask[e]
        IN  /\ b \in LaunchTasks
            /\ b.step = t.step /\ b.name = t.name /\ b.port = t.port /\ b.since = t.since
            /\ b.mixed <=> t.mixed \/ (t.port # 0 /\ (FALSE \/ ProcessOf[e] # ProcessOf[d]))
    BY <1>t, <2>1, BlurredTasks, Zenon
  <2> QED  BY <2>2
<1> HIDE DEF blurred
<1>4. /\ launchTask'[d].step = "pull" /\ launchTask'[d].port = launchTask[d].port
      /\ launchTask'[d].since = launchTask[d].since /\ launchTask'[d].name = launchTask[d].name
      /\ (launchTask'[d].mixed <=> launchTask[d].mixed) /\ launchTask'[d] \in LaunchTasks
  BY <1>1, <1>2 DEF LaunchTasks, LaunchSteps
<1>5. \A e \in Deployments \ {d} : launchTask'[e] = blurred[e]
  BY <1>1, <1>2
<1>6. /\ ~portFile'.torn /\ portFile' \in [torn : BOOLEAN, state : PortStates]
      /\ ~portFile.torn => portFile'.state.last = portFile.state.last
  <2>1. read_port_state \in PortStates
    BY <1>t, WaitingIsATask DEF read_port_state, LaunchShape
  <2> DEFINE new == [read_port_state EXCEPT !.of[launchTask[d].port] = launchTask[d].name]
  <2>2. new \in PortStates /\ new.last = read_port_state.last
    BY <2>1, <1>t DEF PortStates
  <2>3. portFile' = [torn |-> FALSE, state |-> new]
    BY DEF Record
  <2> HIDE DEF new
  <2> QED  BY <2>2, <2>3 DEF read_port_state
<1>7. LaunchShape'
  <2>1. launchTask' \in [Deployments -> LaunchTasks]
    BY <1>1, <1>2, <1>4, <1>5
  <2>2. \A e \in Deployments :
           /\ launchTask'[e].port = 0 <=> launchTask'[e].step \in {"idle", "allocate"}
           /\ launchTask'[e].step # "idle" => launchTask'[e].name \in AgentNames
    BY <1>t, <1>3, <1>4, <1>5, PortsAssumption DEF LaunchShape, AgentPorts
  <2> QED  BY <2>1, <2>2, <1>6 DEF LaunchShape
<1>8. ASSUME NEW e \in Deployments, Counted(launchTask'[e])
      PROVE  /\ portFile'.state.last # 0
             /\ Distance(launchTask'[e].port, portFile'.state.last) <= launchTask'[e].since
  <2>1. Counted(launchTask[e]) /\ ProcessOf[e] = ProcessOf[d]
    BY <1>3, <1>4, <1>5, <1>8 DEF Counted
  <2>2. launchTask[e].step # "write"
    BY <2>1, <1>t DEF LaunchInv, OneAtTheFile, Sync
  <2>3. /\ ~portFile.torn /\ portFile.state.last # 0
        /\ Distance(launchTask[e].port, portFile.state.last) <= launchTask[e].since
    BY <2>1, <2>2 DEF LaunchInv, FileIsAhead
  <2>4. launchTask'[e].port = launchTask[e].port /\ launchTask'[e].since = launchTask[e].since
    BY <1>3, <1>4, <1>5
  <2> QED  BY <2>3, <2>4, <1>6
<1>10. Counted(launchTask'[d]) => Counted(launchTask[d])
  BY <1>4 DEF Counted
<1>11. \A e \in Deployments \ {d} : launchTask'[e] = Blurred(d, FALSE)[e]
  BY <1>5 DEF blurred
<1>12. launchTask[d].step \in Sync /\ launchTask'[d].step # "write" /\ launchTask'[d].step \notin Sync
  BY <1>t, <1>4 DEF Sync
<1>13. \A e \in Deployments : Counted(launchTask'[e]) =>
          /\ ~FALSE /\ ~portFile'.torn /\ portFile'.state.last # 0
          /\ Distance(launchTask'[e].port, portFile'.state.last) <= launchTask'[e].since
  BY <1>6, <1>8
<1> QED
  BY <1>4, <1>7, <1>10, <1>11, <1>12, <1>13, WritesOfTheFile

LEMMA LaunchStep == LaunchInv /\ [LaNext]_laVars => LaunchInv'
<1> SUFFICES ASSUME LaunchInv, [LaNext]_laVars PROVE LaunchInv'
  OBVIOUS
<1>t. /\ portFile \in [torn : BOOLEAN, state : PortStates]
      /\ launchTask \in [Deployments -> LaunchTasks]
      /\ \A d \in Deployments : launchTask[d] \in LaunchTasks
      /\ \A d \in Deployments : launchTask[d].port = 0 <=> launchTask[d].step \in {"idle", "allocate"}
      /\ \A d \in Deployments : launchTask[d].step # "idle" => launchTask[d].name \in AgentNames
  BY DEF LaunchInv, LaunchShape
<1>w. Waiting \in LaunchTasks /\ Waiting.port = 0 /\ Waiting.step = "idle" /\ NoPortState \in PortStates
  BY WaitingIsATask
<1>1. ASSUME NEW d \in Deployments, NEW n \in AgentNames, Deploy(d, n) PROVE LaunchInv'
  <2> DEFINE task == [Waiting EXCEPT !.step = "allocate", !.name = n]
  <2>1. /\ task \in LaunchTasks /\ task.port = 0 /\ task.step = "allocate" /\ task.name = n
    BY <1>w DEF LaunchTasks, LaunchSteps
  <2>2. Quiet(launchTask[d], task)
    BY <1>1, <2>1 DEF Deploy, Quiet, Sync
  <2>3. portFile' = portFile /\ launchTask' = [launchTask EXCEPT ![d] = task]
    BY <1>1 DEF Deploy
  <2> HIDE DEF task
  <2> QED  BY <2>1, <2>2, <2>3, OneQuietStep
<1>2. ASSUME NEW d \in Deployments, NEW ok \in BOOLEAN, PullImage(d, ok) PROVE LaunchInv'
  <2> DEFINE task == IF ok THEN [launchTask[d] EXCEPT !.step = "create"] ELSE Waiting
  <2>1. task \in LaunchTasks
    BY <1>t, <1>w DEF LaunchTasks, LaunchSteps
  <2>2. Quiet(launchTask[d], task)
    BY <1>2, <1>t, <1>w DEF PullImage, Quiet, Sync, LaunchTasks
  <2>3. /\ task.port = 0 <=> task.step \in {"idle", "allocate"}
        /\ task.step # "idle" => task.name \in AgentNames
    BY <1>2, <1>t, <1>w DEF PullImage, LaunchTasks
  <2>4. portFile' = portFile /\ launchTask' = [launchTask EXCEPT ![d] = task]
    BY <1>2 DEF PullImage
  <2> HIDE DEF task
  <2> QED  BY <2>1, <2>2, <2>3, <2>4, OneQuietStep
<1>3. ASSUME NEW d \in Deployments, CreateContainer(d) PROVE LaunchInv'
  <2>1. CASE container[launchTask[d].name].st = "none"
    <3> DEFINE task == [launchTask[d] EXCEPT !.step = "start"]
    <3>1. task \in LaunchTasks
      BY <1>t DEF LaunchTasks, LaunchSteps
    <3>2. Quiet(launchTask[d], task)
      BY <1>3, <1>t DEF CreateContainer, Quiet, Sync, LaunchTasks
    <3>3. /\ task.port = 0 <=> task.step \in {"idle", "allocate"}
          /\ task.step # "idle" => task.name \in AgentNames
      BY <1>3, <1>t DEF CreateContainer, LaunchTasks
    <3>4. portFile' = portFile /\ launchTask' = [launchTask EXCEPT ![d] = task]
      BY <1>3, <2>1 DEF CreateContainer
    <3> HIDE DEF task
    <3> QED  BY <3>1, <3>2, <3>3, <3>4, OneQuietStep
  <2>2. CASE container[launchTask[d].name].st # "none"
    <3>1. portFile' = portFile /\ launchTask' = [launchTask EXCEPT ![d] = Waiting]
      BY <1>3, <2>2 DEF CreateContainer
    <3>2. Quiet(launchTask[d], Waiting)
      BY <1>3, <1>w DEF CreateContainer, Quiet, Sync
    <3> QED  BY <3>1, <3>2, <1>w, OneQuietStep
  <2> QED  BY <2>1, <2>2
<1>4. ASSUME NEW d \in Deployments, StartContainer(d) PROVE LaunchInv'
  <2>1. portFile' = portFile /\ launchTask' = [launchTask EXCEPT ![d] = Waiting]
    BY <1>4 DEF StartContainer
  <2>2. Quiet(launchTask[d], Waiting)
    BY <1>4, <1>w DEF StartContainer, Quiet, Sync
  <2> QED  BY <2>1, <2>2, <1>w, OneQuietStep
<1>5. ASSUME UNCHANGED <<portFile, launchTask>> PROVE LaunchInv'
  <2>1. LaunchShape' /\ \A e \in Deployments : Quiet(launchTask[e], launchTask'[e])
    BY <1>5 DEF LaunchInv, LaunchShape, Quiet
  <2> QED  BY <1>5, <2>1, QuietSteps
<1>6. ASSUME NEW d \in Deployments, AllocateRead(d) PROVE LaunchInv'
  BY AllocateReadStep, <1>6
<1>7. ASSUME NEW d \in Deployments, AllocateWrite(d) PROVE LaunchInv'
  BY <1>7, AllocateWriteStep
<1>8. ASSUME NEW d \in Deployments, NEW torn \in BOOLEAN, PortWriteFails(d, torn) PROVE LaunchInv'
  <2>1. launchTask' = [e \in Deployments |->
                          IF e \in {d} THEN Waiting
                          ELSE IF torn THEN Blurred(d, TRUE)[e] ELSE launchTask[e]]
    BY <1>8 DEF PortWriteFails
  <2>2. launchTask[d].step \in Sync /\ portFile' = IF torn THEN TornFile ELSE portFile
    BY <1>8 DEF PortWriteFails, Sync
  <2> QED  BY <2>1, <2>2, TasksEnd
<1>81. ASSUME NEW d \in Deployments, NEW torn \in BOOLEAN, ProcessDies(d, torn) PROVE LaunchInv'
  <2> DEFINE Over == {e \in Deployments : ProcessOf[e] = ProcessOf[d]}
  <2>1. launchTask' = [e \in Deployments |->
                          IF e \in Over THEN Waiting
                          ELSE IF torn THEN Blurred(d, TRUE)[e] ELSE launchTask[e]]
    BY <1>81 DEF ProcessDies
  <2>2. torn => launchTask[d].step \in Sync
    BY <1>81 DEF ProcessDies, Sync
  <2>3. portFile' = IF torn THEN TornFile ELSE portFile
    BY <1>81 DEF ProcessDies
  <2>4. Over \subseteq Deployments /\ d \in Over
    OBVIOUS
  <2> HIDE DEF Over
  <2> QED  BY <2>1, <2>2, <2>3, <2>4, TasksEnd
<1>9. ASSUME NEW d \in Deployments, Record(d) PROVE LaunchInv'
  BY <1>9, RecordStep
<1> QED
  BY <1>1, <1>2, <1>3, <1>4, <1>5, <1>6, <1>7, <1>8, <1>81, <1>9
  DEF LaNext, laVars, RemoveContainer, OtherListens, OtherLeaves

\* While one process deploys several packages, also when it writes the file in vain, no two wait
\* for their images with the same port until the search has come around the whole range (monotonic_port_candidates), whatever the
\* other processes do to the file.
THEOREM PortsStayDistinct == LaSpec => []PortsInFlightAreDistinct
<1>1. LaunchInv => PortsInFlightAreDistinct
  BY DEF LaunchInv
<1> QED  BY <1>1, LaunchInitially, LaunchStep, PTL DEF LaSpec

----------------------------------------------------------------------------
(* The pod of an OmegonAgent. *)

StepNames == ObjectNames \cup WorkloadKinds

\* The place of a step in a reconciliation.
StepRank ==
    [n \in StepNames |-> CASE n = "styrene-id" -> 1 [] n \in TlsSteps -> 2 [] n = "vox" -> 3 [] n = "catalog" -> 4
                           [] n \in WorkloadKinds -> 5 [] n = "service" -> 6 [] OTHER -> 7]

Names(q) == {q[i] : i \in 1..Len(q)}
InOrder(q) == q \in Seq(StepNames) /\ \A i, j \in 1..Len(q) : i < j => StepRank[q[i]] < StepRank[q[j]]

\* The steps S in order, their places between two.
Piece(q, S, lo, hi) == InOrder(q) /\ Names(q) = S /\ \A n \in S : lo <= StepRank[n] /\ StepRank[n] <= hi

\* The steps of a reconciliation, after the identity and altogether.
LaterSteps(s) ==
    {"vox", KindOf(s)} \cup When(s.primary, {"catalog"}) \cup When(~is_bounded(s), {"service"})
    \cup When(is_bounded(s) /\ "inline" \in s.prompt.source, {"prompt"})
AllSteps(s) ==
    LaterSteps(s) \cup When(s.identity.provision, {"styrene-id"})
    \cup When(s.identity.provision /\ control_plane_tls_enabled(s), {resolved_control_tls(s).name})

\* What a step leaves behind.
DoneStep(n, s, flag) ==
    IF n \in WorkloadKinds THEN workload[n].there /\ workload[n].tpl = pod_template(s, flag)
    ELSE objects[n] = KeysOf(n, s)

OperatorFields == {"todo", "spec", "clean", "flag"}

PodShape ==
    /\ cr \in Specs
    /\ op = [f \in OperatorFields |-> op[f]] /\ op.spec \in Specs
    /\ objects = [n \in ObjectNames |-> objects[n]]
    /\ workload = [k \in WorkloadKinds |-> workload[k]]
    /\ kubepod = [k \in WorkloadKinds |-> kubepod[k]]
    /\ InOrder(op.todo) /\ Names(op.todo) \subseteq AllSteps(op.spec)

\* A reconciliation without an error has done what it has no longer to do.
DoneIsDone == op.clean => \A n \in AllSteps(op.spec) \ Names(op.todo) : DoneStep(n, op.spec, op.flag)

\* The bundle of a primary agent comes before its workload.
BundleComesFirst ==
    /\ op.spec.primary /\ op.todo # <<>> => "catalog" \in Names(op.todo) \/ objects["catalog"] # {}
    /\ \A k \in WorkloadKinds : workload[k].tpl.primary => objects["catalog"] # {}

\* The inductive invariant.
PodInv == PodShape /\ DoneIsDone /\ BundleComesFirst /\ PrimaryHasItsBundle /\ ProbesMeetTheServer

LEMMA Ranks ==
    /\ "styrene-id" \in StepNames /\ StepRank["styrene-id"] = 1
    /\ "vox" \in StepNames /\ StepRank["vox"] = 3
    /\ "catalog" \in StepNames /\ StepRank["catalog"] = 4
    /\ "service" \in StepNames /\ StepRank["service"] = 6
    /\ "prompt" \in StepNames /\ StepRank["prompt"] = 7
    /\ \A n \in TlsSteps : n \in StepNames /\ StepRank[n] = 2
    /\ \A n \in WorkloadKinds : n \in StepNames /\ StepRank[n] = 5
  BY DEF StepRank, StepNames, ObjectNames, WorkloadKinds, TlsSteps

LEMMA RanksAreNumbers == \A n \in StepNames : StepRank[n] \in Nat
  BY DEF StepRank, StepNames, ObjectNames, WorkloadKinds, TlsSteps

LEMMA NoSteps == InOrder(<<>>) /\ Names(<<>>) = {}
  BY DEF InOrder, Names

LEMMA OneStep == \A n \in StepNames : InOrder(<<n>>) /\ Names(<<n>>) = {n}
  BY DEF InOrder, Names

LEMMA OneStepPiece ==
    ASSUME NEW n \in StepNames, NEW k \in Nat, StepRank[n] = k PROVE Piece(<<n>>, {n}, k, k)
  BY OneStep DEF Piece

LEMMA PerhapsAStep ==
    ASSUME NEW c \in BOOLEAN, NEW n \in StepNames, NEW k \in Nat, StepRank[n] = k
    PROVE  Piece(If(c, n), When(c, {n}), k, k)
<1>1. CASE c
  BY <1>1, OneStep DEF If, When, Piece
<1>2. CASE ~c
  BY <1>2, NoSteps DEF If, When, Piece
<1> QED  BY <1>1, <1>2

LEMMA StepsJoined ==
    ASSUME NEW a, NEW b, InOrder(a), InOrder(b), \A x \in Names(a), y \in Names(b) : StepRank[x] < StepRank[y]
    PROVE  InOrder(a \o b) /\ Names(a \o b) = Names(a) \cup Names(b)
<1>1. a \in Seq(StepNames) /\ b \in Seq(StepNames)
  BY DEF InOrder
<1>2. PICK m \in Nat, n \in Nat : m = Len(a) /\ n = Len(b)
  BY <1>1
<1>3. PICK c : c = a \o b
  OBVIOUS
<1>4. /\ c \in Seq(StepNames) /\ Len(c) = m + n
      /\ \A i \in 1..(m + n) : c[i] = IF i <= m THEN a[i] ELSE b[i - m]
  BY <1>1, <1>2, <1>3
<1>5. \A i \in 1..m : i \in 1..(m + n) /\ c[i] = a[i]
  BY <1>4
<1>6. \A i \in 1..n : m + i \in 1..(m + n) /\ c[m + i] = b[i]
  BY <1>4
<1>7. \A i \in 1..(m + n) : i \in 1..m \/ (i - m \in 1..n /\ c[i] = b[i - m])
  BY <1>4
<1>8. Names(c) = Names(a) \cup Names(b)
  <2>1. Names(c) \subseteq Names(a) \cup Names(b)
    BY <1>2, <1>4, <1>5, <1>7 DEF Names
  <2>2. Names(a) \subseteq Names(c)
    BY <1>2, <1>4, <1>5 DEF Names
  <2>3. Names(b) \subseteq Names(c)
    BY <1>2, <1>4, <1>6 DEF Names
  <2> QED  BY <2>1, <2>2, <2>3
<1>9. ASSUME NEW i \in 1..(m + n), NEW j \in 1..(m + n), i < j PROVE StepRank[c[i]] < StepRank[c[j]]
  <2>1. CASE i \in 1..m /\ j \in 1..m
    BY <1>2, <1>5, <1>9, <2>1 DEF InOrder
  <2>2. CASE i \in 1..m /\ j \notin 1..m
    <3>1. c[i] \in Names(a)
      BY <1>2, <1>5, <2>2 DEF Names
    <3>2. c[j] \in Names(b)
      BY <1>2, <1>7, <2>2 DEF Names
    <3> QED  BY <3>1, <3>2
  <2>3. CASE i \notin 1..m
    <3>1. j \notin 1..m
      BY <1>9, <2>3
    <3>2. i - m \in 1..n /\ j - m \in 1..n /\ i - m < j - m /\ c[i] = b[i - m] /\ c[j] = b[j - m]
      BY <1>7, <1>9, <2>3, <3>1
    <3> QED  BY <1>2, <3>2 DEF InOrder
  <2> QED  BY <2>1, <2>2, <2>3
<1>10. InOrder(c)
  BY <1>4, <1>9 DEF InOrder
<1> QED  BY <1>3, <1>8, <1>10

LEMMA PiecesJoined ==
    ASSUME NEW a, NEW b, NEW S, NEW T, NEW lo \in Nat, NEW mid \in Nat, NEW next \in Nat, NEW hi \in Nat,
           Piece(a, S, lo, mid), Piece(b, T, next, hi), lo <= mid, mid < next, next <= hi
    PROVE  Piece(a \o b, S \cup T, lo, hi)
<1>1. \A n \in S : n \in StepNames
  <2>1. a \in Seq(StepNames) /\ S = {a[i] : i \in 1..Len(a)}
    BY DEF Piece, InOrder, Names
  <2> QED  BY <2>1
<1>2. \A n \in T : n \in StepNames
  <2>1. b \in Seq(StepNames) /\ T = {b[i] : i \in 1..Len(b)}
    BY DEF Piece, InOrder, Names
  <2> QED  BY <2>1
<1>3. \A n \in S : StepRank[n] \in Nat /\ lo <= StepRank[n] /\ StepRank[n] <= mid
  BY <1>1, RanksAreNumbers DEF Piece
<1>4. \A n \in T : StepRank[n] \in Nat /\ next <= StepRank[n] /\ StepRank[n] <= hi
  BY <1>2, RanksAreNumbers DEF Piece
<1>5. \A x \in S, y \in T : StepRank[x] < StepRank[y]
  BY <1>3, <1>4
<1>6. InOrder(a) /\ Names(a) = S /\ InOrder(b) /\ Names(b) = T
  BY DEF Piece
<1>7. InOrder(a \o b) /\ Names(a \o b) = S \cup T
  BY <1>5, <1>6, StepsJoined
<1>8. \A n \in S \cup T : lo <= StepRank[n] /\ StepRank[n] <= hi
  BY <1>3, <1>4
<1> QED  BY <1>7, <1>8 DEF Piece

\* The rest of an ordered list is one, and its head is not of it.
LEMMA RestOfSteps ==
    ASSUME NEW q, InOrder(q), q # <<>>
    PROVE  /\ InOrder(Tail(q)) /\ Head(q) \in StepNames
           /\ Names(q) = {Head(q)} \cup Names(Tail(q))
           /\ \A n \in Names(Tail(q)) : n \in StepNames /\ StepRank[Head(q)] < StepRank[n]
<1>1. q \in Seq(StepNames)
  BY DEF InOrder
<1>2. PICK m \in Nat : m = Len(q) /\ m > 0
  BY <1>1
<1>3. PICK t : t = Tail(q)
  OBVIOUS
<1>4. /\ t \in Seq(StepNames) /\ Len(t) = m - 1 /\ Head(q) = q[1]
      /\ \A i \in 1..(m - 1) : t[i] = q[i + 1] /\ i + 1 \in 1..m
  BY <1>1, <1>2, <1>3
<1>5. \A i \in 1..m : i = 1 \/ (i - 1 \in 1..(m - 1) /\ t[i - 1] = q[i])
  BY <1>4
<1>6. 1 \in 1..m /\ q[1] \in StepNames
  BY <1>1, <1>2
<1>7. InOrder(t)
  <2>1. ASSUME NEW i \in 1..(m - 1), NEW j \in 1..(m - 1), i < j PROVE StepRank[t[i]] < StepRank[t[j]]
    <3>1. i + 1 \in 1..m /\ j + 1 \in 1..m /\ i + 1 < j + 1 /\ t[i] = q[i + 1] /\ t[j] = q[j + 1]
      BY <1>4, <2>1
    <3> QED  BY <1>2, <3>1 DEF InOrder
  <2> QED  BY <1>4, <2>1 DEF InOrder
<1>8. Names(q) = {q[1]} \cup Names(t)
  <2>1. Names(q) \subseteq {q[1]} \cup Names(t)
    BY <1>2, <1>4, <1>5 DEF Names
  <2>2. Names(t) \subseteq Names(q) /\ q[1] \in Names(q)
    BY <1>2, <1>4, <1>6 DEF Names
  <2> QED  BY <2>1, <2>2
<1>9. ASSUME NEW n \in Names(t) PROVE n \in StepNames /\ StepRank[q[1]] < StepRank[n]
  <2>1. PICK i \in 1..(m - 1) : n = t[i]
    BY <1>4 DEF Names
  <2>2. n = q[i + 1] /\ i + 1 \in 1..m /\ 1 < i + 1
    BY <1>4, <2>1
  <2> QED  BY <1>1, <1>2, <1>6, <2>2 DEF InOrder
<1> QED  BY <1>3, <1>4, <1>6, <1>7, <1>8, <1>9

LEMMA SpecFacts ==
    ASSUME NEW s \in Specs
    PROVE  /\ s.primary \in BOOLEAN /\ s.identity.provision \in BOOLEAN
           /\ control_plane_tls_enabled(s) \in BOOLEAN
           /\ KindOf(s) \in WorkloadKinds
           /\ KindOf(s) = "deployment" <=> ~is_bounded(s)
           /\ resolved_control_tls(s).name \in TlsSteps
<1>1. s \in AgentSpecs
  BY AgentPodAssumption
<1> QED
  BY <1>1 DEF AgentSpecs, IdentitySpec, ControlPlaneTlsSpec, control_plane_tls_enabled, KindOf, WorkloadKinds,
              is_bounded, resolved_control_tls, TlsSteps

LEMMA LaterStepsInOrder ==
    ASSUME NEW s \in Specs
    PROVE  Piece(AfterIdentity(s), LaterSteps(s), 3, 7)
<1> PICK kind \in WorkloadKinds : kind = KindOf(s)
  BY SpecFacts
<1> PICK primary \in BOOLEAN : primary = s.primary
  BY SpecFacts
<1> PICK daemon \in BOOLEAN : daemon = ~is_bounded(s)
  OBVIOUS
<1> PICK inline \in BOOLEAN : inline = (is_bounded(s) /\ "inline" \in s.prompt.source)
  OBVIOUS
<1>1. PICK a : a = <<"vox">> /\ Piece(a, {"vox"}, 3, 3)
  BY OneStepPiece, Ranks
<1>2. PICK b : b = If(primary, "catalog") /\ Piece(b, When(primary, {"catalog"}), 4, 4)
  BY PerhapsAStep, Ranks
<1>3. PICK c : c = <<kind>> /\ Piece(c, {kind}, 5, 5)
  BY OneStepPiece, Ranks
<1>4. PICK d : d = If(daemon, "service") /\ Piece(d, When(daemon, {"service"}), 6, 6)
  BY PerhapsAStep, Ranks
<1>5. PICK e : e = If(inline, "prompt") /\ Piece(e, When(inline, {"prompt"}), 7, 7)
  BY PerhapsAStep, Ranks
<1>6. Piece(a \o b, {"vox"} \cup When(primary, {"catalog"}), 3, 4)
  BY <1>1, <1>2, PiecesJoined
<1>7. Piece(a \o b \o c, {"vox"} \cup When(primary, {"catalog"}) \cup {kind}, 3, 5)
  BY <1>3, <1>6, PiecesJoined
<1>8. Piece(a \o b \o c \o d, {"vox"} \cup When(primary, {"catalog"}) \cup {kind} \cup When(daemon, {"service"}), 3, 6)
  BY <1>4, <1>7, PiecesJoined
<1>9. Piece(a \o b \o c \o d \o e,
            {"vox"} \cup When(primary, {"catalog"}) \cup {kind} \cup When(daemon, {"service"})
            \cup When(inline, {"prompt"}), 3, 7)
  BY <1>5, <1>8, PiecesJoined
<1>10. a \o b \o c \o d \o e = AfterIdentity(s)
  BY <1>1, <1>2, <1>3, <1>4, <1>5 DEF AfterIdentity
<1>11. {"vox"} \cup When(primary, {"catalog"}) \cup {kind} \cup When(daemon, {"service"})
            \cup When(inline, {"prompt"}) = LaterSteps(s)
  BY DEF LaterSteps
<1> QED  BY <1>9, <1>10, <1>11

LEMMA StepsInOrder ==
    ASSUME NEW s \in Specs
    PROVE  Piece(ReconcileSteps(s), AllSteps(s), 1, 7)
<1> PICK provision \in BOOLEAN : provision = s.identity.provision
  BY SpecFacts
<1> PICK tls \in BOOLEAN : tls = (s.identity.provision /\ control_plane_tls_enabled(s))
  BY SpecFacts
<1> PICK name \in TlsSteps : name = resolved_control_tls(s).name
  BY SpecFacts
<1>1. PICK a : a = If(provision, "styrene-id") /\ Piece(a, When(provision, {"styrene-id"}), 1, 1)
  BY PerhapsAStep, Ranks
<1>2. PICK b : b = If(tls, name) /\ Piece(b, When(tls, {name}), 2, 2)
  BY PerhapsAStep, Ranks
<1>3. PICK c : c = AfterIdentity(s) /\ Piece(c, LaterSteps(s), 3, 7)
  BY LaterStepsInOrder
<1>4. Piece(a \o b, When(provision, {"styrene-id"}) \cup When(tls, {name}), 1, 2)
  BY <1>1, <1>2, PiecesJoined
<1>5. Piece(a \o b \o c, When(provision, {"styrene-id"}) \cup When(tls, {name}) \cup LaterSteps(s), 1, 7)
  BY <1>3, <1>4, PiecesJoined
<1>6. a \o b \o c = ReconcileSteps(s)
  BY <1>1, <1>2, <1>3 DEF ReconcileSteps
<1>7. When(provision, {"styrene-id"}) \cup When(tls, {name}) \cup LaterSteps(s) = AllSteps(s)
  BY DEF AllSteps
<1> QED  BY <1>5, <1>6, <1>7

\* The names of the steps are no workloads' but one.
LEMMA ObjectsAreNoWorkloads == ObjectNames \cap WorkloadKinds = {}
  BY DEF ObjectNames, WorkloadKinds

LEMMA KeysAreSome == \A s : /\ KeysOf("catalog", s) # {} /\ KeysOf("service", s) # {}
                            /\ KeysOf("vox", s) # {} /\ KeysOf("prompt", s) # {}
  BY DEF KeysOf

\* Every volume a pod requires of the operator is one a step fills, with the keys it projects.
LEMMA VolumesAreFilled ==
    ASSUME NEW s \in Specs, control_plane_tls_enabled(s) => s.identity.provision,
           NEW v \in Volumes(s), v.required, v.object \in ObjectNames
    PROVE  v.object \in AllSteps(s) /\ KeysOf(v.object, s) # {} /\ v.keys \subseteq KeysOf(v.object, s)
<1> PICK tls : tls = resolved_control_tls(s)
  OBVIOUS
<1>1. v \in {Volume("vox-config", "vox", {})}
        \cup {[Volume("agent-catalog", "catalog", {}) EXCEPT !.required = FALSE]}
        \cup When("discord" \in s.vox, Scratch({"omegon-extensions"}))
        \cup When("aether" \in s.vox, Scratch({"shared", "extensions", "styrened-config"}))
        \cup When("auth" \in s.secrets, {Volume("auth-json", "user", {"auth.json"})})
        \cup When(s.identity.provision, {Volume("styrene-id", "styrene-id", {"root-secret"})})
        \cup When(control_plane_tls_enabled(s), {Volume("control-tls", tls.name, tls.keys)})
        \cup When("runtime" \in s.secrets, {Volume("runtime-secrets", "user", {})})
        \cup When(is_bounded(s), PromptVolume(s) \cup Scratch({"output"}))
  BY Zenon DEF Volumes
<1>o. "user" \notin ObjectNames /\ "" \notin ObjectNames
  BY DEF ObjectNames
<1>s. ASSUME NEW names, v \in Scratch(names) PROVE FALSE
  <2>1. PICK n \in names : v = Volume(n, "", {})
    BY <1>s DEF Scratch
  <2>2. v.object = ""
    BY <2>1 DEF Volume
  <2> QED  BY <1>o, <2>2
<1>u. ASSUME NEW name, NEW keys, v = Volume(name, "user", keys) PROVE FALSE
  BY <1>o, <1>u DEF Volume
<1>2. CASE v = Volume("vox-config", "vox", {})
  <2>1. v.object = "vox" /\ v.keys = {}
    BY <1>2 DEF Volume
  <2>2. "vox" \in AllSteps(s)
    BY DEF AllSteps, LaterSteps
  <2> QED  BY <2>1, <2>2, KeysAreSome
<1>3. CASE v = [Volume("agent-catalog", "catalog", {}) EXCEPT !.required = FALSE]
  BY <1>3 DEF Volume
<1>4. CASE s.identity.provision /\ v = Volume("styrene-id", "styrene-id", {"root-secret"})
  <2>1. v.object = "styrene-id" /\ v.keys = {"root-secret"}
    BY <1>4 DEF Volume
  <2>2. "styrene-id" \in AllSteps(s)
    BY <1>4 DEF AllSteps, When
  <2>3. KeysOf("styrene-id", s) = {"root-secret", "derivation-label"}
    BY DEF KeysOf
  <2> QED  BY <2>1, <2>2, <2>3
<1>5. CASE control_plane_tls_enabled(s) /\ v = Volume("control-tls", tls.name, tls.keys)
  <2>1. v.object = tls.name /\ v.keys = tls.keys
    BY <1>5 DEF Volume
  <2>2. tls.name \in AllSteps(s)
    BY <1>5 DEF AllSteps, When
  <2>3. tls.name \in {"control-tls", "given-tls"}
    BY SpecFacts DEF TlsSteps
  <2>4. KeysOf(tls.name, s) = tls.keys
    BY <2>3 DEF KeysOf
  <2>5. tls.keys # {}
    BY DEF resolved_control_tls
  <2> QED  BY <2>1, <2>2, <2>4, <2>5
<1>6. CASE is_bounded(s) /\ v \in PromptVolume(s)
  <2>1. v = Volume("prompt", "prompt", {}) /\ "inline" \in s.prompt.source
    BY <1>6, <1>u DEF PromptVolume, When
  <2>2. v.object = "prompt" /\ v.keys = {}
    BY <2>1 DEF Volume
  <2>3. "prompt" \in AllSteps(s)
    BY <1>6, <2>1 DEF AllSteps, LaterSteps, When
  <2> QED  BY <2>2, <2>3, KeysAreSome
<1> QED
  BY <1>1, <1>2, <1>3, <1>4, <1>5, <1>6, <1>s, <1>u DEF When

LEMMA PodInitially == ApInit => PodInv
<1> SUFFICES ASSUME ApInit PROVE PodInv
  OBVIOUS
<1>1. PICK flag \in BOOLEAN : op = [todo |-> <<>>, spec |-> cr, clean |-> FALSE, flag |-> flag]
  BY DEF ApInit
<1>2. op = [f \in OperatorFields |-> op[f]] /\ op.todo = <<>> /\ op.spec = cr /\ op.clean = FALSE
  BY <1>1 DEF OperatorFields
<1>3. \A k \in WorkloadKinds : ~workload[k].there /\ ~workload[k].tpl.primary /\ ~kubepod[k].started
  BY DEF ApInit, NoTemplate, NoPod
<1>4. PodShape
  BY <1>2, NoSteps DEF ApInit, PodShape
<1>5. DoneIsDone /\ BundleComesFirst
  BY <1>2, <1>3 DEF DoneIsDone, BundleComesFirst
<1>6. PrimaryHasItsBundle /\ ProbesMeetTheServer
  BY <1>3 DEF PrimaryHasItsBundle, ProbesMeetTheServer, WorkloadKinds
<1> QED  BY <1>4, <1>5, <1>6 DEF PodInv

\* The template of a daemon: what it is asked for is what it serves.
LEMMA DaemonsAreProbedAsTheyServe ==
    ASSUME NEW s, NEW flag, ~is_bounded(s)
    PROVE  pod_template(s, flag).probe = ServerScheme(pod_template(s, flag))
<1>1. PICK args, probe : args = Args(s, flag) /\ probe = probe_scheme(s, flag)
  OBVIOUS
<1>2. "--control-tls" \in args <=> flag /\ control_plane_tls_enabled(s)
  BY <1>1 DEF Args, When
<1>3. probe = IF control_plane_tls_enabled(s) /\ flag THEN "https" ELSE "http"
  BY <1>1 DEF probe_scheme
<1>4. PICK bounded \in BOOLEAN : bounded = is_bounded(s)
  BY DEF is_bounded
<1>5. ~bounded
  BY <1>4
<1>6. pod_template(s, flag).probe = probe /\ pod_template(s, flag).args = args
  BY <1>1, <1>4, <1>5 DEF pod_template
<1> QED  BY <1>2, <1>3, <1>6 DEF ServerScheme

\* One object is written; the workloads stay.
LEMMA ApplyObjectStep ==
    ASSUME PodInv, NEW n \in ObjectNames, ApplyObject(n) PROVE PodInv'
<1> PICK todo, spec, flag : todo = op.todo /\ spec = op.spec /\ flag = op.flag
  OBVIOUS
<1> PICK rest : rest = Tail(todo)
  OBVIOUS
<1>1. /\ todo # <<>> /\ Head(todo) = n /\ spec \in Specs
      /\ InOrder(todo) /\ Names(todo) \subseteq AllSteps(spec)
  BY DEF ApplyObject, PodInv, PodShape
<1>2. /\ op' = [f \in OperatorFields |-> op'[f]]
      /\ op'.todo = rest /\ op'.spec = spec /\ op'.clean = op.clean /\ op'.flag = flag
  BY DEF ApplyObject, PodInv, PodShape, OperatorFields
<1>3. InOrder(rest) /\ Names(todo) = {n} \cup Names(rest)
  BY <1>1, RestOfSteps
<1>4. /\ objects' = [m \in ObjectNames |-> objects'[m]] /\ objects'[n] = KeysOf(n, spec)
      /\ \A m \in ObjectNames \ {n} : objects'[m] = objects[m]
      /\ UNCHANGED <<cr, workload, kubepod>>
  BY DEF ApplyObject, PodInv, PodShape
<1>5. PodShape'
  BY <1>1, <1>2, <1>3, <1>4 DEF PodInv, PodShape
<1>6. DoneIsDone'
  <2> SUFFICES ASSUME op.clean, NEW m \in AllSteps(spec) \ Names(rest) PROVE DoneStep(m, spec, flag)'
    BY <1>2 DEF DoneIsDone
  <2>0. m \in StepNames
    BY <1>1, Ranks, SpecFacts DEF AllSteps, LaterSteps, When
  <2>1. CASE m = n
    BY <1>4, <2>1, ObjectsAreNoWorkloads DEF DoneStep
  <2>2. CASE m # n
    <3>1. DoneStep(m, spec, flag)
      BY <1>3, <2>2 DEF PodInv, DoneIsDone
    <3> QED  BY <1>4, <2>0, <2>2, <3>1 DEF DoneStep, StepNames
  <2> QED  BY <2>1, <2>2
<1>7. objects["catalog"] # {} => objects'["catalog"] # {}
  BY <1>4, KeysAreSome DEF ObjectNames
<1>8. BundleComesFirst'
  <2>1. spec.primary => "catalog" \in Names(rest) \/ objects'["catalog"] # {}
    <3>1. spec.primary => "catalog" \in Names(todo) \/ objects["catalog"] # {}
      BY <1>1 DEF PodInv, BundleComesFirst
    <3> QED  BY <1>3, <1>4, <1>7, <3>1, KeysAreSome
  <2> QED  BY <1>2, <1>4, <1>7, <2>1 DEF PodInv, BundleComesFirst
<1>9. PrimaryHasItsBundle' /\ ProbesMeetTheServer'
  BY <1>4 DEF PodInv, PrimaryHasItsBundle, ProbesMeetTheServer, ServerScheme
<1> QED  BY <1>5, <1>6, <1>8, <1>9 DEF PodInv

\* The workload is written; it is the only one of the specification, and behind the bundle.
LEMMA ApplyWorkloadStep ==
    ASSUME PodInv, NEW k \in WorkloadKinds, ApplyWorkload(k) PROVE PodInv'
<1> PICK todo, spec, flag : todo = op.todo /\ spec = op.spec /\ flag = op.flag
  OBVIOUS
<1> PICK rest, tpl : rest = Tail(todo) /\ tpl = pod_template(spec, flag)
  OBVIOUS
<1>1. /\ todo # <<>> /\ Head(todo) = k /\ spec \in Specs
      /\ InOrder(todo) /\ Names(todo) \subseteq AllSteps(spec)
  BY DEF ApplyWorkload, PodInv, PodShape
<1>2. /\ op' = [f \in OperatorFields |-> op'[f]]
      /\ op'.todo = rest /\ op'.spec = spec /\ op'.clean = op.clean /\ op'.flag = flag
  BY DEF ApplyWorkload, PodInv, PodShape, OperatorFields
<1>3. /\ InOrder(rest) /\ Names(todo) = {k} \cup Names(rest)
      /\ \A n \in Names(rest) : n \in StepNames /\ StepRank[k] < StepRank[n]
  BY <1>1, RestOfSteps
<1>4. /\ workload' = [q \in WorkloadKinds |-> workload'[q]]
      /\ workload'[k].there /\ workload'[k].tpl = tpl
      /\ \A q \in WorkloadKinds \ {k} : workload'[q] = workload[q]
      /\ UNCHANGED <<cr, objects>>
  BY DEF ApplyWorkload, PodInv, PodShape
<1>5. /\ kubepod' = [q \in WorkloadKinds |-> kubepod'[q]]
      /\ \A q \in WorkloadKinds \ {k} : kubepod'[q] = kubepod[q]
      /\ \/ kubepod'[k] = kubepod[k] /\ workload[k].tpl = tpl
         \/ ~kubepod'[k].started
  BY DEF ApplyWorkload, PodInv, PodShape, NoPod
<1>6. k \in AllSteps(spec) /\ k = KindOf(spec)
  <2>1. k \in AllSteps(spec)
    BY <1>1, <1>3
  <2>2. k \notin TlsSteps /\ k \notin {"vox", "catalog", "service", "prompt", "styrene-id"}
    BY DEF WorkloadKinds, TlsSteps
  <2> QED  BY <1>1, <2>1, <2>2, SpecFacts DEF AllSteps, LaterSteps, When
<1>7. spec.primary => objects["catalog"] # {}
  <2>1. "catalog" \notin Names(rest)
    BY <1>3, Ranks
  <2>2. "catalog" # k
    BY DEF WorkloadKinds
  <2>3. "catalog" \notin Names(todo)
    BY <1>3, <2>1, <2>2
  <2> QED  BY <1>1, <2>3 DEF PodInv, BundleComesFirst
<1>8. tpl.primary = spec.primary
  BY DEF pod_template
<1>9. PodShape'
  BY <1>1, <1>2, <1>3, <1>4, <1>5 DEF PodInv, PodShape
<1>10. DoneIsDone'
  <2> SUFFICES ASSUME op.clean, NEW m \in AllSteps(spec) \ Names(rest) PROVE DoneStep(m, spec, flag)'
    BY <1>2 DEF DoneIsDone
  <2>1. CASE m = k
    BY <1>4, <2>1 DEF DoneStep
  <2>2. CASE m # k
    <3>1. DoneStep(m, spec, flag)
      BY <1>3, <2>2 DEF PodInv, DoneIsDone
    <3> QED  BY <1>4, <2>2, <3>1 DEF DoneStep
  <2> QED  BY <2>1, <2>2
<1>11. BundleComesFirst'
  <2>1. \A q \in WorkloadKinds : workload'[q].tpl.primary => objects["catalog"] # {}
    BY <1>4, <1>7, <1>8 DEF PodInv, BundleComesFirst
  <2> QED  BY <1>2, <1>4, <1>7, <2>1 DEF PodInv, BundleComesFirst
<1>12. PrimaryHasItsBundle'
  <2> SUFFICES ASSUME NEW q \in WorkloadKinds, kubepod'[q].started, workload'[q].tpl.primary
               PROVE  kubepod'[q].bundle
    BY DEF PrimaryHasItsBundle
  <2>1. CASE q = k
    BY <1>4, <1>5, <2>1 DEF PodInv, PrimaryHasItsBundle
  <2>2. CASE q # k
    BY <1>4, <1>5, <2>2 DEF PodInv, PrimaryHasItsBundle
  <2> QED  BY <2>1, <2>2
<1>13. ProbesMeetTheServer'
  <2>1. CASE k = "deployment"
    <3>1. ~is_bounded(spec)
      BY <1>1, <1>6, <2>1, SpecFacts
    <3>2. tpl.probe = ServerScheme(tpl)
      BY <3>1, DaemonsAreProbedAsTheyServe
    <3> QED  BY <1>4, <2>1, <3>2 DEF ProbesMeetTheServer, ServerScheme
  <2>2. CASE k # "deployment"
    <3>1. workload'["deployment"] = workload["deployment"]
      BY <1>4, <2>2 DEF WorkloadKinds
    <3> QED  BY <3>1 DEF PodInv, ProbesMeetTheServer, ServerScheme
  <2> QED  BY <2>1, <2>2
<1> QED  BY <1>9, <1>10, <1>11, <1>12, <1>13 DEF PodInv

\* A reconciliation begins, goes on without the identity or ends; nothing is written.
LEMMA PlanStep ==
    ASSUME PodInv, UNCHANGED <<objects, workload, kubepod>>, cr' \in Specs,
           op' = [f \in OperatorFields |-> op'[f]], op'.spec \in Specs,
           InOrder(op'.todo), Names(op'.todo) \subseteq AllSteps(op'.spec),
           op'.clean => op' = op \/ Names(op'.todo) = AllSteps(op'.spec),
           \/ op'.todo = <<>> \/ op' = op
           \/ op'.spec.primary => "catalog" \in Names(op'.todo)
    PROVE  PodInv'
<1>1. PodShape'
  BY DEF PodInv, PodShape
<1>2. DoneIsDone'
  <2>1. CASE op' = op
    BY <2>1 DEF PodInv, DoneIsDone, DoneStep
  <2>2. CASE op' # op
    BY <2>2 DEF DoneIsDone
  <2> QED  BY <2>1, <2>2
<1>3. BundleComesFirst'
  BY DEF PodInv, BundleComesFirst
<1>4. PrimaryHasItsBundle' /\ ProbesMeetTheServer'
  BY DEF PodInv, PrimaryHasItsBundle, ProbesMeetTheServer, ServerScheme
<1> QED  BY <1>1, <1>2, <1>3, <1>4 DEF PodInv

LEMMA PodStep == PodInv /\ [ApNext]_apVars => PodInv'
<1> SUFFICES ASSUME PodInv, [ApNext]_apVars PROVE PodInv'
  OBVIOUS
<1>0. cr \in Specs /\ op.spec \in Specs /\ op = [f \in OperatorFields |-> op[f]]
  BY DEF PodInv, PodShape
<1>1. CASE BeginReconcile
  <2>1. PICK todo, spec : todo = ReconcileSteps(cr) /\ spec = cr
    OBVIOUS
  <2>2. InOrder(todo) /\ Names(todo) = AllSteps(spec)
    BY <1>0, <2>1, StepsInOrder DEF Piece
  <2>3. /\ op' = [f \in OperatorFields |-> op'[f]] /\ op'.todo = todo /\ op'.spec = spec
        /\ UNCHANGED <<cr, objects, workload, kubepod>>
    BY <1>0, <1>1, <2>1 DEF BeginReconcile, OperatorFields
  <2>4. spec.primary => "catalog" \in AllSteps(spec)
    BY DEF AllSteps, LaterSteps, When
  <2> QED  BY <1>0, <2>1, <2>2, <2>3, <2>4, PlanStep
<1>2. ASSUME NEW n \in ObjectNames, ApplyObject(n) PROVE PodInv'
  BY <1>2, ApplyObjectStep
<1>3. ASSUME NEW k \in WorkloadKinds, ApplyWorkload(k) PROVE PodInv'
  BY <1>3, ApplyWorkloadStep
<1>4. ASSUME NEW k \in WorkloadKinds, PodStarts(k) PROVE PodInv'
  <2>1. /\ kubepod' = [q \in WorkloadKinds |-> kubepod'[q]]
        /\ \A q \in WorkloadKinds \ {k} : kubepod'[q] = kubepod[q]
        /\ kubepod'[k].bundle <=> objects["catalog"] # {}
        /\ UNCHANGED <<cr, objects, workload, op>>
    BY <1>4 DEF PodStarts, PodInv, PodShape
  <2>2. PodShape' /\ DoneIsDone' /\ BundleComesFirst' /\ ProbesMeetTheServer'
    BY <2>1 DEF PodInv, PodShape, DoneIsDone, DoneStep, BundleComesFirst, ProbesMeetTheServer, ServerScheme
  <2>3. PrimaryHasItsBundle'
    BY <2>1 DEF PodInv, BundleComesFirst, PrimaryHasItsBundle
  <2> QED  BY <2>2, <2>3 DEF PodInv
<1>5. CASE StepFails
  <2>1. /\ op' = [f \in OperatorFields |-> op'[f]] /\ op'.spec = op.spec /\ op'.clean = FALSE
        /\ op'.todo = IF Head(op.todo) \in IdentitySteps THEN AfterIdentity(op.spec) ELSE <<>>
        /\ UNCHANGED <<cr, objects, workload, kubepod>>
    BY <1>0, <1>5 DEF StepFails, OperatorFields
  <2> PICK spec \in Specs : spec = op.spec
    BY <1>0
  <2>2. PICK todo : todo = AfterIdentity(spec)
    OBVIOUS
  <2>3. InOrder(todo) /\ Names(todo) = LaterSteps(spec)
    BY <2>2, LaterStepsInOrder DEF Piece
  <2>4. LaterSteps(spec) \subseteq AllSteps(spec) /\ (spec.primary => "catalog" \in LaterSteps(spec))
    BY DEF AllSteps, LaterSteps, When
  <2>5. CASE op'.todo = todo
    BY <1>0, <2>1, <2>2, <2>3, <2>4, <2>5, PlanStep
  <2>6. CASE op'.todo = <<>>
    BY <1>0, <2>1, <2>6, NoSteps, PlanStep
  <2> QED  BY <2>1, <2>2, <2>5, <2>6
<1>6. CASE EditSpec
  <2>1. cr' \in Specs /\ UNCHANGED <<objects, workload, kubepod, op>>
    BY <1>6 DEF EditSpec
  <2>2. InOrder(op.todo) /\ Names(op.todo) \subseteq AllSteps(op.spec)
    BY DEF PodInv, PodShape
  <2> QED  BY <1>0, <2>1, <2>2, PlanStep
<1>7. CASE OperatorRestarts
  <2>1. /\ op' = [f \in OperatorFields |-> op'[f]] /\ op'.spec = op.spec /\ op'.clean = FALSE /\ op'.todo = <<>>
        /\ UNCHANGED <<cr, objects, workload, kubepod>>
    BY <1>0, <1>7 DEF OperatorRestarts, OperatorFields
  <2> QED  BY <1>0, <2>1, NoSteps, PlanStep
<1>8. CASE UNCHANGED apVars
  BY <1>8 DEF apVars, PodInv, PodShape, DoneIsDone, DoneStep, BundleComesFirst, PrimaryHasItsBundle,
              ProbesMeetTheServer, ServerScheme
<1> QED
  BY <1>1, <1>2, <1>3, <1>4, <1>5, <1>6, <1>7, <1>8 DEF ApNext

\* For any specification, edits of it, failing calls and restarts of the operator with another
\* runtime flag: after a reconciliation without an error every volume the pod requires is
\* filled, a primary never starts without its bundle, and a daemon is probed in the scheme it
\* serves (reconcile, pod_spec, provision_identity).
THEOREM PodsServe == ApSpec => []PodsCanServe
<1>1. PodInv => PodsCanServe
  <2> SUFFICES ASSUME PodInv PROVE PodsCanServe
    OBVIOUS
  <2>1. PodIsNotStuck
    <3> SUFFICES ASSUME op.todo = <<>>, op.clean, op.spec = cr, control_plane_tls_enabled(cr) => cr.identity.provision
                 PROVE  /\ workload[KindOf(cr)].there /\ Startable(workload[KindOf(cr)].tpl)
                        /\ cr.mode = "daemon" => objects["service"] # {}
      BY DEF PodIsNotStuck
    <3> PICK s \in Specs : s = cr
      BY DEF PodInv, PodShape
    <3> PICK flag : flag = op.flag
      OBVIOUS
    <3>1. \A n \in AllSteps(s) : DoneStep(n, s, flag)
      BY NoSteps DEF PodInv, DoneIsDone
    <3>2. KindOf(s) \in AllSteps(s) /\ KindOf(s) \in WorkloadKinds
      BY SpecFacts DEF AllSteps, LaterSteps
    <3>3. workload[KindOf(s)].there /\ workload[KindOf(s)].tpl = pod_template(s, flag)
      BY <3>1, <3>2 DEF DoneStep
    <3>4. pod_template(s, flag).volumes = Volumes(s)
      BY DEF pod_template
    <3>5. ASSUME NEW v \in Volumes(s), v.required, v.object \in ObjectNames
          PROVE  objects[v.object] # {} /\ v.keys \subseteq objects[v.object]
      <4>1. v.object \in AllSteps(s) /\ KeysOf(v.object, s) # {} /\ v.keys \subseteq KeysOf(v.object, s)
        BY <3>5, VolumesAreFilled
      <4>2. objects[v.object] = KeysOf(v.object, s)
        BY <3>1, <3>5, <4>1, ObjectsAreNoWorkloads DEF DoneStep
      <4> QED  BY <4>1, <4>2
    <3>6. Startable(workload[KindOf(s)].tpl)
      BY <3>3, <3>4, <3>5 DEF Startable, Mountable
    <3>7. s.mode = "daemon" => objects["service"] # {}
      <4>1. s.mode = "daemon" => "service" \in AllSteps(s)
        BY DEF AllSteps, LaterSteps, When, is_bounded
      <4>2. "service" \notin WorkloadKinds
        BY DEF WorkloadKinds
      <4> QED  BY <3>1, <4>1, <4>2, KeysAreSome DEF DoneStep
    <3> QED  BY <3>3, <3>6, <3>7
  <2> QED  BY <2>1 DEF PodInv, PodsCanServe
<1> QED
  BY <1>1, PodInitially, PodStep, PTL DEF ApSpec
=============================================================================
