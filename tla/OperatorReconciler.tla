------------------------- MODULE OperatorReconciler -------------------------
(***************************************************************************)
(* The managed-agent half of auspex-operator: the fleet API and the        *)
(* administrator edit OmegonAgent resources, one or more operator          *)
(* processes watch them and reconcile each into Kubernetes objects, and    *)
(* the cluster collects the objects of deleted agents and starts the pods. *)
(*                                                                         *)
(* reconcile awaits one API call after another, so it is one step per      *)
(* call: between two of them the resource may change, be deleted or be     *)
(* created again, another operator may write, and the process may stop.    *)
(***************************************************************************)
EXTENDS Naturals, SequencesExt, FiniteSets

CONSTANTS Agents,       \* names of OmegonAgents in the watched namespace
          Operators,    \* operator processes (two overlap in an upgrade)
          Primary,      \* the bootstrapped agent, or NoAgent
          NoAgent,
          PrimarySpec,  \* what primary_agent_manifest writes
          Specs,        \* what the API and the administrator write
          Kubectl,      \* whether an administrator edits resources too
          MaxEdits,     \* bound on edits of OmegonAgents
          MaxFaults     \* bound on failed calls, crashes and outside edits

VARIABLES cr,       \* the OmegonAgents in the API server
          objs,     \* the objects of each agent: the resource last applied
          meddled,  \* agents whose Deployment another manager has edited
          rootSecret, \* the operator's root identity Secret is usable
          runs,     \* history: the prompts bounded runs were given
          boot,     \* how far each operator's start has come
          seen,     \* each operator's watch cache
          due,      \* agents each operator has to reconcile now
          requeued, \* agents each operator reconciles again later
          work,     \* the reconcile each operator has under way per agent
          edits, faults

cluster == <<cr, objs, meddled, rootSecret, runs>>
operator == <<boot, seen, due, requeued, work>>
vars == <<cluster, operator, edits, faults>>

(***************************************************************************)
(* Data.  A specification keeps what the objects are made from: mode is    *)
(* AgentMode, image stands for every other field of the pod template,      *)
(* provision and tls for identity.provision and control_plane_tls_enabled, *)
(* leaf for the leaf epoch, inline for the prompt text (0: none), catalog  *)
(* for the built-in primary bundle.                                        *)
(***************************************************************************)
Modes == {"daemon", "cronjob", "job"}

OmegonAgentSpec == [mode: Modes, image: Nat, provision: BOOLEAN,
                    tls: BOOLEAN, leaf: Nat, inline: Nat, catalog: BOOLEAN]

\* One version of a resource.  gen orders the edits of all resources; uid is
\* the generation the resource was created in.
OmegonAgent == [uid: Nat, gen: Nat, spec: OmegonAgentSpec]
NoCr == [uid |-> 0, gen |-> 0]

Identity == {"StyreneId", "ControlTls"}
Workloads == {"Deployment", "CronJob", "Job"}
Kinds == Identity \cup Workloads \cup {"Vox", "Catalog", "Service", "Prompt"}

Idle == [cr |-> NoCr, plan |-> << >>]
Busy(o, a) == work[o][a] # Idle

ASSUME ConstantsAreProper ==
    /\ Specs \subseteq OmegonAgentSpec /\ PrimarySpec \in OmegonAgentSpec
    /\ Primary \in Agents \cup {NoAgent} /\ NoAgent \notin Agents
    /\ Kubectl \in BOOLEAN /\ MaxEdits \in Nat /\ MaxFaults \in Nat

(***************************************************************************)
(* What reconcile writes, and in which order.                              *)
(***************************************************************************)
WorkloadOf(mode) == CASE mode = "daemon" -> "Deployment"
                      [] mode = "cronjob" -> "CronJob"
                      [] mode = "job" -> "Job"

Plan(s) ==
    (IF s.provision THEN <<"StyreneId">> ELSE << >>)
    \o (IF s.provision /\ s.tls THEN <<"ControlTls">> ELSE << >>)
    \o <<"Vox">>
    \o (IF s.catalog THEN <<"Catalog">> ELSE << >>)
    \o <<WorkloadOf(s.mode)>>
    \o (IF s.mode = "daemon" THEN <<"Service">> ELSE << >>)
    \o (IF s.mode # "daemon" /\ s.inline # 0 THEN <<"Prompt">> ELSE << >>)

\* The pod template: the volumes it mounts name objects, not their content.
pod_spec(s) == [image |-> s.image, provision |-> s.provision, tls |-> s.tls,
                prompt |-> s.inline # 0]

Content(k, s) ==
    CASE k \in Workloads -> pod_spec(s)
      [] k = "ControlTls" -> [leaf |-> s.leaf]
      [] k = "Vox" -> [vox |-> s.image]
      [] k = "Prompt" -> [text |-> s.inline]
      [] OTHER -> [fixed |-> TRUE]

\* What is left of a plan whose first step, an identity, has failed: the
\* other identity is not tried either.
WithoutIdentity(p) == IF Tail(p) # << >> /\ Head(Tail(p)) \in Identity
                      THEN Tail(Tail(p)) ELSE Tail(p)

Exists(a, k) == objs[a][k] # NoCr

\* The object is what version c of the resource asks for.
Current(a, k, c) == /\ Exists(a, k)
                    /\ objs[a][k].uid = c.uid
                    /\ Content(k, objs[a][k].spec) = Content(k, c.spec)

\* A server-side apply the API server turns down whatever it is given: a
\* Job's template cannot be changed, the operator does not force fields that
\* another manager owns, and without the operator's root secret there is
\* nothing to derive an identity from.
Refuses(a, k, c) ==
    \/ k = "Job" /\ Exists(a, k) /\ Content(k, objs[a][k].spec) # Content(k, c.spec)
    \/ k = "Deployment" /\ a \in meddled
    \/ k \in Identity /\ ~rootSecret

Up(o) == boot[o] = "up"

\* A changed or deleted workload wakes every running operator: the
\* controller watches the Deployments, CronJobs and Jobs its agents own.
Owned(a, k) == IF k \in Workloads
               THEN [o \in Operators |-> IF Up(o) THEN due[o] \cup {a} ELSE due[o]]
               ELSE due

Init == /\ cr = [a \in Agents |-> NoCr]
        /\ objs = [a \in Agents |-> [k \in Kinds |-> NoCr]]
        /\ meddled = {} /\ rootSecret \in BOOLEAN /\ runs = {}
        /\ boot = [o \in Operators |-> "down"]
        /\ seen = [o \in Operators |-> [a \in Agents |-> NoCr]]
        /\ due = [o \in Operators |-> {}] /\ requeued = [o \in Operators |-> {}]
        /\ work = [o \in Operators |-> [a \in Agents |-> Idle]]
        /\ edits = 0 /\ faults = 0

(***************************************************************************)
(* Edits of the resources.                                                 *)
(***************************************************************************)
\* Stores specification s as the next version of a's resource, unless that
\* changes nothing.
Write(a, s) ==
    LET old == cr[a]
        new == [uid |-> IF old = NoCr THEN edits + 1 ELSE old.uid,
                gen |-> edits + 1, spec |-> s]
    IN  /\ cr' = [cr EXCEPT ![a] = IF old # NoCr /\ old.spec = s THEN old ELSE new]
        /\ edits' = edits + 1

\* An apply or a merge patch that names no leaf epoch leaves the stored one.
KeepLeaf(a, s) == IF cr[a] = NoCr THEN s ELSE [s EXCEPT !.leaf = cr[a].spec.leaf]

\* Mutant: the handler writes the workload itself.
deploy_agent_and_workload(o, a, s) ==
    /\ Up(o) /\ edits < MaxEdits
    /\ Write(a, KeepLeaf(a, s))
    /\ objs' = [objs EXCEPT ![a][WorkloadOf(s.mode)] = cr'[a]]
    /\ UNCHANGED <<meddled, rootSecret, runs, operator, faults>>

deploy_agent_handler(o, a, s) ==
    /\ Up(o) /\ edits < MaxEdits
    /\ Write(a, KeepLeaf(a, s))
    /\ UNCHANGED <<objs, meddled, rootSecret, runs, operator, faults>>

patch_agent_handler(o, a, s) ==
    /\ Up(o) /\ edits < MaxEdits
    /\ cr[a] # NoCr
    /\ Write(a, KeepLeaf(a, s))
    /\ UNCHANGED <<objs, meddled, rootSecret, runs, operator, faults>>

rotate_control_tls_handler(o, a) ==
    /\ Up(o) /\ edits < MaxEdits
    /\ cr[a] # NoCr
    /\ Write(a, [cr[a].spec EXCEPT !.tls = TRUE, !.leaf = edits + 1])
    /\ UNCHANGED <<objs, meddled, rootSecret, runs, operator, faults>>

\* The administrator writes a manifest without the operator's help, deletes a
\* resource, edits a Deployment by hand, or creates the root secret.
AdminApplies(a, s) ==
    /\ Kubectl /\ edits < MaxEdits
    /\ Write(a, KeepLeaf(a, s))
    /\ UNCHANGED <<objs, meddled, rootSecret, runs, operator, faults>>

AdminDeletes(a) ==
    /\ edits < MaxEdits
    /\ cr[a] # NoCr
    /\ cr' = [cr EXCEPT ![a] = NoCr]
    /\ edits' = edits + 1
    /\ UNCHANGED <<objs, meddled, rootSecret, runs, operator, faults>>

AdminMeddles(a) ==
    /\ Kubectl /\ faults < MaxFaults
    /\ Exists(a, "Deployment") /\ a \notin meddled
    /\ meddled' = meddled \cup {a}
    /\ due' = Owned(a, "Deployment")
    /\ faults' = faults + 1
    /\ UNCHANGED <<cr, objs, rootSecret, runs, boot, seen, requeued, work, edits>>

AdminCreatesRootSecret ==
    /\ ~rootSecret
    /\ rootSecret' = TRUE
    /\ UNCHANGED <<cr, objs, meddled, runs, operator, edits, faults>>

(***************************************************************************)
(* Start and stop of an operator process.                                  *)
(***************************************************************************)
\* main checks for the primary agent before it serves or watches anything.
ensure_primary_agent(o) ==
    /\ boot[o] = "down"
    /\ boot' = [boot EXCEPT ![o] = IF Primary = NoAgent \/ cr[Primary] # NoCr
                                   THEN "up" ELSE "creating"]
    /\ UNCHANGED <<cluster, seen, due, requeued, work, edits, faults>>

\* The forced apply after the check, whatever has happened since.  It is not
\* an edit of a user's, so the bound does not apply to it.
BootstrapPrimary(o) ==
    /\ boot[o] = "creating"
    /\ boot' = [boot EXCEPT ![o] = "up"]
    /\ Write(Primary, KeepLeaf(Primary, PrimarySpec))
    /\ UNCHANGED <<objs, meddled, rootSecret, runs, seen, due, requeued, work, faults>>

\* The process ends: killed, a failed bootstrap call, or one of the three
\* tasks of the select returning.  Nothing it held in memory survives.
Crash(o) ==
    /\ faults < MaxFaults /\ boot[o] # "down"
    /\ boot' = [boot EXCEPT ![o] = "down"]
    /\ seen' = [seen EXCEPT ![o] = [a \in Agents |-> NoCr]]
    /\ due' = [due EXCEPT ![o] = {}]
    /\ requeued' = [requeued EXCEPT ![o] = {}]
    /\ work' = [work EXCEPT ![o] = [a \in Agents |-> Idle]]
    /\ faults' = faults + 1
    /\ UNCHANGED <<cluster, edits>>

(***************************************************************************)
(* The controller loop.  kube-rs (external) keeps a cache of the resources, *)
(* runs at most one reconcile per resource and keeps later requests.       *)
(***************************************************************************)
WatchDelivers(o, a) ==
    /\ Up(o) /\ seen[o][a] # cr[a]
    /\ seen' = [seen EXCEPT ![o][a] = cr[a]]
    /\ due' = [due EXCEPT ![o] = IF cr[a] = NoCr THEN @ ELSE @ \cup {a}]
    /\ UNCHANGED <<cluster, boot, requeued, work, edits, faults>>

RequeueFires(o, a) ==
    /\ a \in requeued[o]
    /\ requeued' = [requeued EXCEPT ![o] = @ \ {a}]
    /\ due' = [due EXCEPT ![o] = @ \cup {a}]
    /\ UNCHANGED <<cluster, boot, seen, work, edits, faults>>

\* reconcile is called with the cached resource, or not at all when the
\* cache no longer has it.
ReconcileStarts(o, a) ==
    /\ a \in due[o] /\ ~Busy(o, a)
    /\ due' = [due EXCEPT ![o] = @ \ {a}]
    /\ IF seen[o][a] = NoCr
       THEN UNCHANGED <<requeued, work>>
       ELSE /\ requeued' = [requeued EXCEPT ![o] = @ \ {a}]
            /\ work' = [work EXCEPT ![o][a] = [cr |-> seen[o][a],
                                               plan |-> Plan(seen[o][a].spec)]]
    /\ UNCHANGED <<cluster, boot, seen, edits, faults>>

\* Mutant: objects are created, and never updated.
CreateMissing(o, a) ==
    LET c == work[o][a].cr
        k == Head(work[o][a].plan)
    IN  /\ Busy(o, a) /\ work[o][a].plan # << >>
        /\ ~Refuses(a, k, c)
        /\ objs' = IF Exists(a, k) THEN objs ELSE [objs EXCEPT ![a][k] = c]
        /\ due' = IF Exists(a, k) THEN due ELSE Owned(a, k)
        /\ work' = [work EXCEPT ![o][a].plan = Tail(@)]
        /\ UNCHANGED <<cr, meddled, rootSecret, runs, boot, seen, requeued, edits, faults>>

\* One server-side apply of reconcile succeeds.
Apply(o, a) ==
    LET c == work[o][a].cr
        k == Head(work[o][a].plan)
    IN  /\ Busy(o, a) /\ work[o][a].plan # << >>
        /\ ~Refuses(a, k, c)
        /\ objs' = [objs EXCEPT ![a][k] = c]
        /\ due' = IF Current(a, k, c) THEN due ELSE Owned(a, k)
        /\ work' = [work EXCEPT ![o][a].plan = Tail(@)]
        /\ UNCHANGED <<cr, meddled, rootSecret, runs, boot, seen, requeued, edits, faults>>

\* Mutant: a failed reconcile waits for the next change.
FailsForGood(o, a) ==
    LET k == Head(work[o][a].plan)
    IN  /\ work' = [work EXCEPT ![o][a] =
                        IF k \in Identity
                        THEN [@ EXCEPT !.plan = WithoutIdentity(@)]
                        ELSE Idle]
        /\ UNCHANGED requeued

\* What a failed call does to the reconcile: a failed identity is logged and
\* the reconcile goes on without it, any other error ends it with a requeue.
Fails(o, a) ==
    LET k == Head(work[o][a].plan)
    IN  IF k \in Identity
        THEN /\ work' = [work EXCEPT ![o][a].plan = WithoutIdentity(@)]
             /\ UNCHANGED requeued
        ELSE /\ work' = [work EXCEPT ![o][a] = Idle]
             /\ requeued' = [requeued EXCEPT ![o] = @ \cup {a}]

ApplyRefused(o, a) ==
    /\ Busy(o, a) /\ work[o][a].plan # << >>
    /\ Refuses(a, Head(work[o][a].plan), work[o][a].cr)
    /\ Fails(o, a)
    /\ UNCHANGED <<cluster, boot, seen, due, edits, faults>>

ApplyFails(o, a) ==
    /\ Busy(o, a) /\ work[o][a].plan # << >>
    /\ faults < MaxFaults
    /\ faults' = faults + 1
    /\ Fails(o, a)
    /\ UNCHANGED <<cluster, boot, seen, due, edits>>

ReconcileEnds(o, a) ==
    /\ Busy(o, a) /\ work[o][a].plan = << >>
    /\ work' = [work EXCEPT ![o][a] = Idle]
    /\ requeued' = [requeued EXCEPT ![o] = @ \cup {a}]
    /\ UNCHANGED <<cluster, boot, seen, due, edits, faults>>

(***************************************************************************)
(* The cluster (external).                                                 *)
(***************************************************************************)
\* The collector deletes an object whose owning resource is gone.
GarbageCollected(a, k) ==
    /\ Exists(a, k) /\ (cr[a] = NoCr \/ cr[a].uid # objs[a][k].uid)
    /\ objs' = [objs EXCEPT ![a][k] = NoCr]
    /\ meddled' = IF k = "Deployment" THEN meddled \ {a} ELSE meddled
    /\ due' = Owned(a, k)
    /\ UNCHANGED <<cr, rootSecret, runs, boot, seen, requeued, work, edits, faults>>

\* The volumes a pod of this template waits for.
Mounts(t) == {"Vox"} \cup (IF t.provision THEN {"StyreneId"} ELSE {})
             \cup (IF t.tls THEN {"ControlTls"} ELSE {})
             \cup (IF t.prompt THEN {"Prompt"} ELSE {})

\* The pod of a Job starts once every volume it mounts exists, and reads the
\* prompt that is there.  The run is recorded with the prompt its own
\* resource declares.
JobPodStarts(a) ==
    LET job == objs[a]["Job"]
        run == [agent |-> a, job |-> job.uid, asked |-> job.spec.inline,
                read |-> IF job.spec.inline = 0 THEN 0 ELSE objs[a]["Prompt"].spec.inline]
    IN  /\ Exists(a, "Job")
        /\ \A k \in Mounts(pod_spec(job.spec)) : Exists(a, k)
        /\ \A r \in runs : r.agent = a => r.job # job.uid
        /\ runs' = runs \cup {run}
        /\ UNCHANGED <<cr, objs, meddled, rootSecret, operator, edits, faults>>

(***************************************************************************)
(* What the fleet API reports.  No code writes an OmegonAgent's status, so *)
(* its phase reads as Pending for ever.                                    *)
(***************************************************************************)
Phase(a) == "Pending"

managed_agent_lifecycle(a) ==
    LET daemon == cr[a].spec.mode = "daemon"
    IN  [workload_created |-> IF daemon THEN Exists(a, "Deployment")
                                        ELSE Phase(a) # "Pending",
         failed |-> Phase(a) = "Failed",
         acp |-> daemon]

Edit(a) == \/ AdminDeletes(a) \/ AdminMeddles(a)
           \/ \E s \in Specs : AdminApplies(a, s)
           \/ \E o \in Operators :
                \/ rotate_control_tls_handler(o, a)
                \/ \E s \in Specs : \/ deploy_agent_handler(o, a, s)
                                    \/ patch_agent_handler(o, a, s)

Start(o) == ensure_primary_agent(o) \/ BootstrapPrimary(o)

Reconcile(o, a) == \/ WatchDelivers(o, a) \/ RequeueFires(o, a)
                   \/ ReconcileStarts(o, a) \/ ReconcileEnds(o, a)
                   \/ Apply(o, a) \/ ApplyRefused(o, a)

Next == \/ \E a \in Agents : Edit(a) \/ JobPodStarts(a)
        \/ AdminCreatesRootSecret
        \/ \E o \in Operators : Start(o) \/ Crash(o)
        \/ \E o \in Operators, a \in Agents : Reconcile(o, a) \/ ApplyFails(o, a)
        \/ \E a \in Agents, k \in Kinds : GarbageCollected(a, k)

Spec == Init /\ [][Next]_vars

\* An operator that is down is started again, its loop and its watches go
\* on, and the collector collects; edits, failures and crashes are bounded,
\* so they stop.
Fairness == /\ \A o \in Operators : WF_vars(Start(o))
            /\ \A o \in Operators, a \in Agents :
                  /\ WF_vars(WatchDelivers(o, a)) /\ WF_vars(RequeueFires(o, a))
                  /\ WF_vars(ReconcileStarts(o, a)) /\ WF_vars(ReconcileEnds(o, a))
                  /\ WF_vars(Apply(o, a)) /\ WF_vars(ApplyRefused(o, a))
            /\ \A a \in Agents, k \in Kinds : WF_vars(GarbageCollected(a, k))

FairSpec == Spec /\ Fairness

-----------------------------------------------------------------------------
(***************************************************************************)
(* Properties.                                                             *)
(***************************************************************************)
Crs == OmegonAgent \cup {NoCr}

\* Every variable holds what the code can store in it: a reconcile under way
\* works on a version of the resource that was stored, along the steps that
\* version asks for, and an operator that is not up has nothing under way.
TypeOK ==
    /\ cr \in [Agents -> Crs] /\ objs \in [Agents -> [Kinds -> Crs]]
    /\ meddled \subseteq {a \in Agents : Exists(a, "Deployment")}
    /\ rootSecret \in BOOLEAN
    /\ boot \in [Operators -> {"down", "creating", "up"}]
    /\ seen \in [Operators -> [Agents -> Crs]]
    /\ \A o \in Operators : due[o] \cup requeued[o] \subseteq Agents
    /\ \A o \in Operators, a \in Agents :
          /\ work[o][a].cr \in Crs
          /\ ToSet(work[o][a].plan) \subseteq Kinds
          /\ Busy(o, a) => Up(o)
    /\ edits \in Nat /\ faults \in Nat

\* A running operator never loses track of an agent it knows: whatever a
\* reconcile ran into, it is under way, asked for or due again later.  No
\* event would bring back an agent whose identity Secret failed, because
\* Secrets and ConfigMaps are not watched.
NothingIsForgotten ==
    \A o \in Operators, a \in Agents :
        Up(o) /\ seen[o][a] # NoCr => Busy(o, a) \/ a \in due[o] \cup requeued[o]

\* An operator's write never takes an object of an agent back to an older
\* version of its resource: a reconcile that was overtaken by an edit, a
\* deletion or a restart does not undo what a later one has applied.
ObjectsNeverRegress ==
    [][\A a \in Agents, k \in Kinds :
          objs'[a][k] # NoCr => objs'[a][k].gen >= objs[a][k].gen]_vars

\* What step k of the plan has to wait for: an earlier step, or k itself, that
\* the cluster refuses.
Held(a, k) ==
    LET p == Plan(cr[a].spec)
    IN  \E i, j \in DOMAIN p :
            /\ p[i] = k /\ j <= i /\ Refuses(a, p[j], cr[a])
            /\ p[j] \in Identity => k \in Identity

\* Once edits and failures stop, every object an agent asks for is there and
\* is what its resource says, down to the certificate epoch, and an agent
\* that was deleted has left nothing behind.  The exceptions are what the
\* cluster refuses and the steps behind it.
Converges ==
    <>[](\A a \in Agents :
            IF cr[a] = NoCr
            THEN \A k \in Kinds : ~Exists(a, k)
            ELSE \A k \in ToSet(Plan(cr[a].spec)) :
                    Current(a, k, cr[a]) \/ Held(a, k))

\* An agent ends up with the workload of its mode and no other.
OnlyTheModesWorkload ==
    <>[](\A a \in Agents, k \in Workloads :
            cr[a] # NoCr /\ Exists(a, k) => k = WorkloadOf(cr[a].spec.mode))

\* A Job runs the prompt its resource declares.
JobsRunTheirPrompt == \A r \in runs : r.read = r.asked

\* The fleet API reports a workload that exists as created.
WorkloadIsReported ==
    \A a \in Agents :
        cr[a] # NoCr /\ Exists(a, WorkloadOf(cr[a].spec.mode))
            => managed_agent_lifecycle(a).workload_created
=============================================================================
