---------------------- MODULE OperatorReconcilerProofs ----------------------
(***************************************************************************)
(* Proofs about OperatorReconciler for any agents, specifications, edits,  *)
(* failures and crashes: no operator forgets an agent it knows, and a      *)
(* single operator never takes an object back to an older version.         *)
(***************************************************************************)
EXTENDS OperatorReconciler, SequenceTheorems, TLAPS

-----------------------------------------------------------------------------
(***************************************************************************)
(* The shapes of the state.                                                *)
(***************************************************************************)
Reconciles == [cr: Crs, plan: Seq(Kinds)]

ClusterShape == /\ cr \in [Agents -> Crs] /\ objs \in [Agents -> [Kinds -> Crs]]
                /\ edits \in Nat

OperatorShape == /\ boot \in [Operators -> {"down", "creating", "up"}]
                 /\ seen \in [Operators -> [Agents -> Crs]]
                 /\ due \in [Operators -> SUBSET Agents]
                 /\ requeued \in [Operators -> SUBSET Agents]
                 /\ work \in [Operators -> [Agents -> Reconciles]]
                 /\ \A o \in Operators : boot[o] = "creating" => Primary # NoAgent

\* A reconcile under way works on a version of the resource.
WorkHasAResource == \A o \in Operators, a \in Agents :
                        Busy(o, a) => work[o][a].cr # NoCr

Shape == ClusterShape /\ OperatorShape /\ WorkHasAResource

\* A version that is kept somewhere has a generation.
LEMMA VersionsHaveGenerations ==
    \A c \in Crs : c.gen \in Nat /\ (c # NoCr => c \in OmegonAgent)
  BY DEF Crs, OmegonAgent, NoCr

\* Plan is a sequence of the kinds reconcile applies.
LEMMA PlanIsOfKinds == \A s \in OmegonAgentSpec : Plan(s) \in Seq(Kinds)
<1> TAKE s \in OmegonAgentSpec
<1> DEFINE p1 == IF s.provision THEN <<"StyreneId">> ELSE << >>
           p2 == IF s.provision /\ s.tls THEN <<"ControlTls">> ELSE << >>
           p4 == IF s.catalog THEN <<"Catalog">> ELSE << >>
           p5 == <<WorkloadOf(s.mode)>>
           p6 == IF s.mode = "daemon" THEN <<"Service">> ELSE << >>
           p7 == IF s.mode # "daemon" /\ s.inline # 0 THEN <<"Prompt">> ELSE << >>
<1>1. /\ p1 \in Seq(Kinds) /\ p2 \in Seq(Kinds) /\ <<"Vox">> \in Seq(Kinds)
      /\ p4 \in Seq(Kinds) /\ p6 \in Seq(Kinds) /\ p7 \in Seq(Kinds)
  <2>1. << >> \in Seq(Kinds) /\ \A k \in Kinds : <<k>> \in Seq(Kinds)
    OBVIOUS
  <2>2. /\ "StyreneId" \in Kinds /\ "ControlTls" \in Kinds /\ "Vox" \in Kinds
        /\ "Catalog" \in Kinds /\ "Service" \in Kinds /\ "Prompt" \in Kinds
    BY DEF Kinds, Identity
  <2> QED
    BY <2>1, <2>2, Zenon
<1>2. WorkloadOf(s.mode) \in Kinds
  BY DEF OmegonAgentSpec, Modes, WorkloadOf, Kinds, Workloads
<1>3. p5 \in Seq(Kinds)
  BY <1>2
<1>4. Plan(s) = p1 \o p2 \o <<"Vox">> \o p4 \o p5 \o p6 \o p7
  BY DEF Plan
<1> HIDE DEF p1, p2, p4, p5, p6, p7
<1>5. p1 \o p2 \o <<"Vox">> \o p4 \o p5 \o p6 \o p7 \in Seq(Kinds)
  BY <1>1, <1>3
<1> QED
  BY <1>4, <1>5

\* Dropping the identity steps leaves a plan.
LEMMA RestIsAPlan ==
    \A p \in Seq(Kinds) : p # << >> => /\ Tail(p) \in Seq(Kinds)
                                       /\ WithoutIdentity(p) \in Seq(Kinds)
                                       /\ Head(p) \in Kinds
  BY DEF WithoutIdentity

\* What a handler stores is a specification.
LEMMA KeepLeafIsASpec ==
    ASSUME ClusterShape, NEW a \in Agents, NEW s \in OmegonAgentSpec
    PROVE  KeepLeaf(a, s) \in OmegonAgentSpec
<1>1. cr[a] # NoCr => cr[a].spec.leaf \in Nat
  BY VersionsHaveGenerations DEF ClusterShape, OmegonAgent, OmegonAgentSpec
<1>2. \A n \in Nat : [s EXCEPT !.leaf = n] \in OmegonAgentSpec
  BY DEF OmegonAgentSpec
<1> QED
  BY <1>1, <1>2 DEF KeepLeaf

LEMMA RotatedIsASpec ==
    ASSUME NEW s \in OmegonAgentSpec, NEW n \in Nat
    PROVE  [s EXCEPT !.tls = TRUE, !.leaf = n] \in OmegonAgentSpec
  BY DEF OmegonAgentSpec

\* Write stores the next version, or leaves the stored one.
LEMMA WriteStores ==
    ASSUME ClusterShape, NEW a \in Agents, NEW s \in OmegonAgentSpec, Write(a, s)
    PROVE  \E c \in OmegonAgent :
              /\ cr' = [cr EXCEPT ![a] = c] /\ edits' = edits + 1
              /\ c = cr[a] \/ c.gen = edits + 1
<1> DEFINE new == [uid |-> IF cr[a] = NoCr THEN edits + 1 ELSE cr[a].uid,
                   gen |-> edits + 1, spec |-> s]
<1>1. cr[a] \in Crs /\ edits \in Nat
  BY DEF ClusterShape
<1>2. cr[a] # NoCr => cr[a] \in OmegonAgent /\ cr[a].uid \in Nat
  BY <1>1 DEF Crs, OmegonAgent
<1>3. new \in OmegonAgent /\ new.gen = edits + 1
  BY <1>1, <1>2 DEF OmegonAgent
<1>4. CASE cr[a] # NoCr /\ cr[a].spec = s
  BY <1>2, <1>4 DEF Write
<1>5. CASE ~(cr[a] # NoCr /\ cr[a].spec = s)
  <2>1. cr' = [cr EXCEPT ![a] = new] /\ edits' = edits + 1
    BY <1>5 DEF Write
  <2> HIDE DEF new
  <2> QED
    BY <1>3, <2>1
<1> QED
  BY <1>4, <1>5

\* An edit of a resource stores a later version of it, keeps the stored one or
\* deletes it, and touches nothing else.
EditsResource(a) ==
    /\ \E c \in Crs : /\ cr' = [cr EXCEPT ![a] = c]
                      /\ c = cr[a] \/ c = NoCr \/ c.gen = edits + 1
    /\ edits' = edits + 1
    /\ UNCHANGED <<objs, operator>>

LEMMA WritesEdit ==
    ASSUME ClusterShape, NEW a \in Agents, NEW s \in OmegonAgentSpec, Write(a, s),
           UNCHANGED <<objs, operator>>
    PROVE  EditsResource(a)
  BY WriteStores DEF EditsResource, Crs

LEMMA HandlersEdit ==
    ASSUME ClusterShape, NEW a \in Agents, Edit(a)
    PROVE  EditsResource(a) \/ AdminMeddles(a)
<1>1. CASE AdminDeletes(a)
  BY <1>1 DEF AdminDeletes, EditsResource, Crs
<1>2. CASE AdminMeddles(a)
  BY <1>2
<1>3. ASSUME NEW s \in Specs, UNCHANGED <<objs, operator>>, Write(a, KeepLeaf(a, s))
      PROVE  EditsResource(a)
  <2>1. KeepLeaf(a, s) \in OmegonAgentSpec
    BY ConstantsAreProper, KeepLeafIsASpec
  <2> QED
    BY <1>3, <2>1, WritesEdit
<1>4. ASSUME NEW s \in Specs, AdminApplies(a, s)
      PROVE  EditsResource(a)
  BY <1>3, <1>4 DEF AdminApplies
<1>5. ASSUME NEW o \in Operators, rotate_control_tls_handler(o, a)
      PROVE  EditsResource(a)
  <2>1. cr[a].spec \in OmegonAgentSpec /\ edits + 1 \in Nat
    BY <1>5, VersionsHaveGenerations
    DEF rotate_control_tls_handler, ClusterShape, OmegonAgent
  <2>2. [cr[a].spec EXCEPT !.tls = TRUE, !.leaf = edits + 1] \in OmegonAgentSpec
    BY <2>1, RotatedIsASpec
  <2> QED
    BY <1>5, <2>2, WritesEdit DEF rotate_control_tls_handler
<1>6. ASSUME NEW o \in Operators, NEW s \in Specs,
             deploy_agent_handler(o, a, s) \/ patch_agent_handler(o, a, s)
      PROVE  EditsResource(a)
  BY <1>3, <1>6 DEF deploy_agent_handler, patch_agent_handler
<1> QED
  BY <1>1, <1>2, <1>4, <1>5, <1>6 DEF Edit

\* What a woken operator has to do only grows.
LEMMA OwnedGrows ==
    ASSUME OperatorShape, NEW a \in Agents, NEW k
    PROVE  /\ Owned(a, k) \in [Operators -> SUBSET Agents]
           /\ \A o \in Operators : due[o] \subseteq Owned(a, k)[o]
<1>1. due \in [Operators -> SUBSET Agents]
  BY DEF OperatorShape
<1> QED
  BY <1>1 DEF Owned

-----------------------------------------------------------------------------
(***************************************************************************)
(* No operator forgets an agent.                                           *)
(***************************************************************************)
\* A process that is not up knows no agent.
DownKnowsNothing ==
    \A o \in Operators, a \in Agents : ~Up(o) => seen[o][a] = NoCr

KnownInv == Shape /\ DownKnowsNothing /\ NothingIsForgotten

LEMMA KnownInitially == Init => KnownInv
<1> SUFFICES ASSUME Init PROVE KnownInv
  OBVIOUS
<1>1. NoCr \in Crs /\ Idle \in Reconciles /\ Idle.cr = NoCr
  BY DEF Crs, Idle, Reconciles
<1>2. ClusterShape /\ OperatorShape
  BY <1>1 DEF Init, ClusterShape, OperatorShape
<1>3. WorkHasAResource /\ DownKnowsNothing /\ NothingIsForgotten
  BY DEF Init, WorkHasAResource, DownKnowsNothing, NothingIsForgotten, Busy, Up
<1> QED
  BY <1>2, <1>3 DEF KnownInv, Shape

LEMMA EditKeepsKnown ==
    ASSUME KnownInv, NEW a \in Agents, EditsResource(a)
    PROVE  KnownInv'
<1>1. ClusterShape'
  BY DEF KnownInv, Shape, ClusterShape, EditsResource
<1>2. UNCHANGED operator
  BY DEF EditsResource
<1>3. /\ OperatorShape' /\ WorkHasAResource'
      /\ DownKnowsNothing' /\ NothingIsForgotten'
  BY <1>2 DEF KnownInv, Shape, OperatorShape, WorkHasAResource, DownKnowsNothing,
              NothingIsForgotten, operator, Busy, Up
<1> QED
  BY <1>1, <1>3 DEF KnownInv, Shape

\* A step that leaves an operator's reconciles alone and asks for no less.
LEMMA AskingKeepsKnown ==
    ASSUME KnownInv, ClusterShape',
           UNCHANGED <<boot, seen, requeued, work>>,
           due' \in [Operators -> SUBSET Agents],
           \A o \in Operators : due[o] \subseteq due'[o]
    PROVE  KnownInv'
<1>1. OperatorShape' /\ WorkHasAResource'
  BY DEF KnownInv, Shape, OperatorShape, WorkHasAResource, Busy
<1>2. DownKnowsNothing' /\ NothingIsForgotten'
  BY DEF KnownInv, DownKnowsNothing, NothingIsForgotten, Busy, Up
<1> QED
  BY <1>1, <1>2 DEF KnownInv, Shape

LEMMA ClusterKeepsKnown ==
    ASSUME KnownInv, NEW a \in Agents
    PROVE  /\ AdminMeddles(a) \/ JobPodStarts(a) \/ AdminCreatesRootSecret => KnownInv'
           /\ \A k \in Kinds : GarbageCollected(a, k) => KnownInv'
<1>1. OperatorShape /\ ClusterShape /\ due \in [Operators -> SUBSET Agents]
  BY DEF KnownInv, Shape, OperatorShape
<1>2. CASE AdminMeddles(a)
  <2>1. ClusterShape'
    BY <1>1, <1>2 DEF AdminMeddles, ClusterShape
  <2>2. due' = Owned(a, "Deployment") /\ UNCHANGED <<boot, seen, requeued, work>>
    BY <1>2 DEF AdminMeddles
  <2> QED
    BY <1>1, <2>1, <2>2, OwnedGrows, AskingKeepsKnown
<1>3. CASE JobPodStarts(a) \/ AdminCreatesRootSecret
  <2>1. ClusterShape' /\ due' = due /\ UNCHANGED <<boot, seen, requeued, work>>
    BY <1>1, <1>3 DEF JobPodStarts, AdminCreatesRootSecret, ClusterShape, operator
  <2> QED
    BY <1>1, <2>1, AskingKeepsKnown
<1>4. ASSUME NEW k \in Kinds, GarbageCollected(a, k)
      PROVE  KnownInv'
  <2>1. ClusterShape'
    BY <1>1, <1>4 DEF GarbageCollected, ClusterShape, Crs
  <2>2. due' = Owned(a, k) /\ UNCHANGED <<boot, seen, requeued, work>>
    BY <1>4 DEF GarbageCollected
  <2> QED
    BY <1>1, <2>1, <2>2, OwnedGrows, AskingKeepsKnown
<1> QED
  BY <1>2, <1>3, <1>4

LEMMA StartKeepsKnown ==
    ASSUME KnownInv, NEW o \in Operators, Start(o) \/ Crash(o)
    PROVE  KnownInv'
<1> USE DEF KnownInv, Shape
<1>1. CASE ensure_primary_agent(o)
  <2>1. ClusterShape' /\ OperatorShape' /\ WorkHasAResource'
    BY <1>1 DEF ClusterShape, OperatorShape, WorkHasAResource, Busy,
                ensure_primary_agent, cluster
  <2>2. DownKnowsNothing' /\ NothingIsForgotten'
    BY <1>1 DEF OperatorShape, DownKnowsNothing, NothingIsForgotten, Busy, Up,
                ensure_primary_agent
  <2> QED
    BY <2>1, <2>2
<1>2. CASE BootstrapPrimary(o)
  <2>1. Primary \in Agents
    BY <1>2, ConstantsAreProper DEF BootstrapPrimary, OperatorShape
  <2>2. KeepLeaf(Primary, PrimarySpec) \in OmegonAgentSpec
    BY <2>1, ConstantsAreProper, KeepLeafIsASpec
  <2>3. ClusterShape'
    BY <1>2, <2>1, <2>2, WriteStores DEF BootstrapPrimary, ClusterShape, Crs
  <2>4. OperatorShape' /\ WorkHasAResource'
    BY <1>2 DEF OperatorShape, WorkHasAResource, Busy, BootstrapPrimary
  <2>5. DownKnowsNothing' /\ NothingIsForgotten'
    BY <1>2 DEF OperatorShape, DownKnowsNothing, NothingIsForgotten, Busy, Up,
                BootstrapPrimary
  <2> QED
    BY <2>3, <2>4, <2>5
<1>3. CASE Crash(o)
  <2>1. ClusterShape'
    BY <1>3 DEF ClusterShape, Crash, cluster
  <2>2. NoCr \in Crs /\ Idle \in Reconciles
    BY DEF Crs, Idle, Reconciles
  <2>3. OperatorShape' /\ WorkHasAResource'
    BY <1>3, <2>2 DEF OperatorShape, WorkHasAResource, Busy, Crash
  <2>4. DownKnowsNothing' /\ NothingIsForgotten'
    BY <1>3 DEF OperatorShape, DownKnowsNothing, NothingIsForgotten, Busy, Up, Crash
  <2> QED
    BY <2>1, <2>3, <2>4
<1> QED
  BY <1>1, <1>2, <1>3 DEF Start

\* A step of reconcile: agent a's reconcile at operator o becomes w, and if
\* none is left under way a is asked for or due again.
LEMMA WorkKeepsKnown ==
    ASSUME KnownInv, NEW o \in Operators, NEW a \in Agents, NEW w \in Reconciles,
           ClusterShape', UNCHANGED <<boot, seen>>,
           work' = [work EXCEPT ![o][a] = w], w = Idle \/ w.cr # NoCr,
           due' \in [Operators -> SUBSET Agents],
           requeued' \in [Operators -> SUBSET Agents],
           \A p \in Operators, b \in Agents :
               /\ p # o \/ b # a
               /\ b \in due[p] \cup requeued[p]
               => b \in due'[p] \cup requeued'[p],
           seen[o][a] # NoCr => w # Idle \/ a \in due'[o] \cup requeued'[o]
    PROVE  KnownInv'
<1> USE DEF KnownInv, Shape
<1>1. OperatorShape' /\ WorkHasAResource'
  BY DEF OperatorShape, WorkHasAResource, Busy
<1>2. DownKnowsNothing' /\ NothingIsForgotten'
  BY DEF OperatorShape, DownKnowsNothing, NothingIsForgotten, Busy, Up
<1> QED
  BY <1>1, <1>2

\* What a step of a reconcile finds: an agent's reconcile, and its next kind.
LEMMA WorkUnderWay ==
    ASSUME KnownInv, NEW o \in Operators, NEW a \in Agents, Busy(o, a)
    PROVE  /\ work[o][a] \in Reconciles /\ work[o][a].cr \in OmegonAgent
           /\ work[o][a].cr # NoCr
           /\ work[o][a].plan # << >> => Head(work[o][a].plan) \in Kinds
<1>1. work[o][a] \in Reconciles /\ work[o][a].cr # NoCr
  BY DEF KnownInv, Shape, OperatorShape, WorkHasAResource
<1>2. work[o][a].cr \in Crs /\ work[o][a].plan \in Seq(Kinds)
  BY <1>1 DEF Reconciles
<1> QED
  BY <1>1, <1>2, VersionsHaveGenerations, RestIsAPlan

LEMMA PlanAdvances ==
    ASSUME NEW w \in Reconciles, w.cr # NoCr, w.plan # << >>
    PROVE  LET v == [w EXCEPT !.plan = Tail(@)]
               u == [w EXCEPT !.plan = WithoutIdentity(@)]
           IN  /\ v \in Reconciles /\ v.cr = w.cr /\ v # Idle
               /\ u \in Reconciles /\ u.cr = w.cr /\ u # Idle
<1>1. w.plan \in Seq(Kinds)
  BY DEF Reconciles
<1>2. Tail(w.plan) \in Seq(Kinds) /\ WithoutIdentity(w.plan) \in Seq(Kinds)
  BY <1>1, RestIsAPlan
<1>3. \A p \in Seq(Kinds) : /\ [w EXCEPT !.plan = p] \in Reconciles
                            /\ [w EXCEPT !.plan = p].cr = w.cr
  BY DEF Reconciles
<1>4. Idle.cr = NoCr
  BY DEF Idle
<1> QED
  BY <1>2, <1>3, <1>4

LEMMA WatchKeepsKnown ==
    ASSUME KnownInv, NEW o \in Operators, NEW a \in Agents,
           WatchDelivers(o, a) \/ RequeueFires(o, a)
    PROVE  KnownInv'
<1> USE DEF KnownInv, Shape
<1>1. ClusterShape'
  BY DEF ClusterShape, WatchDelivers, RequeueFires, cluster
<1>2. CASE WatchDelivers(o, a)
  <2>1. /\ seen' = [seen EXCEPT ![o][a] = cr[a]] /\ cr[a] \in Crs
        /\ UNCHANGED <<boot, requeued, work>> /\ Up(o)
    BY <1>2 DEF WatchDelivers, ClusterShape
  <2>2. due' \in [Operators -> SUBSET Agents] /\ \A p \in Operators : due[p] \subseteq due'[p]
    BY <1>2 DEF WatchDelivers, OperatorShape
  <2>3. cr[a] # NoCr => a \in due'[o]
    BY <1>2 DEF WatchDelivers, OperatorShape
  <2>4. OperatorShape' /\ WorkHasAResource'
    BY <2>1, <2>2 DEF OperatorShape, WorkHasAResource, Busy
  <2>5. \A p \in Operators, b \in Agents :
            seen'[p][b] = IF p = o /\ b = a THEN cr[a] ELSE seen[p][b]
    BY <2>1 DEF OperatorShape
  <2>6. DownKnowsNothing' /\ NothingIsForgotten'
    BY <2>1, <2>2, <2>3, <2>5 DEF DownKnowsNothing, NothingIsForgotten, Busy, Up
  <2> QED
    BY <1>1, <2>4, <2>6
<1>3. CASE RequeueFires(o, a)
  <2>1. /\ requeued' = [requeued EXCEPT ![o] = @ \ {a}]
        /\ due' = [due EXCEPT ![o] = @ \cup {a}]
        /\ UNCHANGED <<boot, seen, work>>
    BY <1>3 DEF RequeueFires
  <2>2. OperatorShape' /\ WorkHasAResource' /\ DownKnowsNothing'
    BY <2>1 DEF OperatorShape, WorkHasAResource, DownKnowsNothing, Busy, Up
  <2>3. \A p \in Operators, b \in Agents :
            b \in due[p] \cup requeued[p] => b \in due'[p] \cup requeued'[p]
    BY <2>1 DEF OperatorShape
  <2>4. NothingIsForgotten'
    BY <2>1, <2>3 DEF NothingIsForgotten, Busy, Up
  <2> QED
    BY <1>1, <2>2, <2>4
<1> QED
  BY <1>2, <1>3

LEMMA StartingKeepsKnown ==
    ASSUME KnownInv, NEW o \in Operators, NEW a \in Agents, ReconcileStarts(o, a)
    PROVE  KnownInv'
<1> DEFINE w == [cr |-> seen[o][a], plan |-> Plan(seen[o][a].spec)]
<1>0. OperatorShape /\ ClusterShape /\ seen[o][a] \in Crs
  BY DEF KnownInv, Shape, OperatorShape
<1>1. ClusterShape'
  BY <1>0 DEF ClusterShape, ReconcileStarts, cluster
<1>2. UNCHANGED <<boot, seen>> /\ due' \in [Operators -> SUBSET Agents]
  BY <1>0 DEF ReconcileStarts, OperatorShape
<1>3. CASE seen[o][a] = NoCr
  <2>1. UNCHANGED <<requeued, work>>
    BY <1>3 DEF ReconcileStarts
  <2>2. \A p \in Operators, b \in Agents :
            p # o \/ b # a => (b \in due[p] => b \in due'[p])
    BY <1>0 DEF ReconcileStarts, OperatorShape
  <2>3. OperatorShape' /\ WorkHasAResource' /\ DownKnowsNothing'
    BY <1>2, <2>1 DEF KnownInv, Shape, OperatorShape, WorkHasAResource, DownKnowsNothing,
                      Busy, Up
  <2>4. NothingIsForgotten'
    BY <1>2, <1>3, <2>1, <2>2 DEF KnownInv, NothingIsForgotten, Busy, Up
  <2> QED
    BY <1>1, <2>3, <2>4 DEF KnownInv, Shape
<1>4. CASE seen[o][a] # NoCr
  <2>1. seen[o][a].spec \in OmegonAgentSpec
    BY <1>0, <1>4, VersionsHaveGenerations DEF OmegonAgent
  <2>2. w \in Reconciles /\ w.cr = seen[o][a]
    BY <1>0, <2>1, PlanIsOfKinds DEF Reconciles
  <2>3. w.cr # NoCr /\ w # Idle
    BY <1>4, <2>2 DEF Idle
  <2>4. work' = [work EXCEPT ![o][a] = w] /\ requeued' \in [Operators -> SUBSET Agents]
    <3>1. work' = [work EXCEPT ![o][a] = w]
      BY <1>4 DEF ReconcileStarts
    <3>2. requeued' = [requeued EXCEPT ![o] = @ \ {a}]
      BY <1>4 DEF ReconcileStarts
    <3>3. requeued' \in [Operators -> SUBSET Agents]
      BY <1>0, <3>2 DEF OperatorShape
    <3> QED
      BY <3>1, <3>3
  <2>5. \A p \in Operators, b \in Agents :
            /\ p # o \/ b # a
            /\ b \in due[p] \cup requeued[p]
            => b \in due'[p] \cup requeued'[p]
    BY <1>0, <1>4 DEF ReconcileStarts, OperatorShape
  <2> HIDE DEF w
  <2> QED
    BY <1>1, <1>2, <2>2, <2>3, <2>4, <2>5, WorkKeepsKnown
<1> QED
  BY <1>3, <1>4

LEMMA ApplyKeepsKnown ==
    ASSUME KnownInv, NEW o \in Operators, NEW a \in Agents, Apply(o, a)
    PROVE  KnownInv'
<1>1. Busy(o, a) /\ work[o][a].plan # << >>
  BY DEF Apply
<1> PICK w : w = work[o][a]
  OBVIOUS
<1> DEFINE v == [w EXCEPT !.plan = Tail(@)]
<1>2. /\ w \in Reconciles /\ w.cr \in OmegonAgent /\ w.cr # NoCr
      /\ w.plan # << >> /\ Head(w.plan) \in Kinds
  BY <1>1, WorkUnderWay
<1>3. v \in Reconciles /\ v.cr = w.cr /\ v # Idle
  BY <1>2, PlanAdvances
<1>4. work' = [work EXCEPT ![o][a] = v]
  BY DEF Apply
<1>5. OperatorShape /\ ClusterShape
  BY DEF KnownInv, Shape
<1>6. ClusterShape'
  BY <1>2, <1>5 DEF Apply, ClusterShape, Crs
<1>7. due' = due \/ \E k : due' = Owned(a, k)
  BY DEF Apply
<1>8. due' \in [Operators -> SUBSET Agents] /\ \A p \in Operators : due[p] \subseteq due'[p]
  BY <1>5, <1>7, OwnedGrows DEF OperatorShape
<1>9. UNCHANGED <<boot, seen, requeued>> /\ requeued \in [Operators -> SUBSET Agents]
  BY <1>5 DEF Apply, OperatorShape
<1> HIDE DEF v
<1> QED
  BY <1>2, <1>3, <1>4, <1>6, <1>8, <1>9, WorkKeepsKnown

LEMMA FailureKeepsKnown ==
    ASSUME KnownInv, NEW o \in Operators, NEW a \in Agents,
           ApplyRefused(o, a) \/ ApplyFails(o, a)
    PROVE  KnownInv'
<1>1. Busy(o, a) /\ work[o][a].plan # << >> /\ Fails(o, a)
  BY DEF ApplyRefused, ApplyFails
<1>2. UNCHANGED <<cluster, boot, seen, due, edits>>
  BY DEF ApplyRefused, ApplyFails
<1>3. OperatorShape /\ ClusterShape
  BY DEF KnownInv, Shape
<1>4. ClusterShape'
  BY <1>2, <1>3 DEF ClusterShape, cluster
<1>5. due' \in [Operators -> SUBSET Agents]
  BY <1>2, <1>3 DEF OperatorShape
<1>6. CASE Head(work[o][a].plan) \in Identity
  <2> PICK w : w = work[o][a]
    OBVIOUS
  <2> DEFINE u == [w EXCEPT !.plan = WithoutIdentity(@)]
  <2>1. w \in Reconciles /\ w.cr # NoCr /\ w.plan # << >>
    BY <1>1, WorkUnderWay
  <2>2. u \in Reconciles /\ u.cr = w.cr /\ u # Idle
    BY <2>1, PlanAdvances
  <2>3. work' = [work EXCEPT ![o][a] = u] /\ requeued' = requeued
    BY <1>1, <1>6 DEF Fails
  <2>4. requeued \in [Operators -> SUBSET Agents]
    BY <1>3 DEF OperatorShape
  <2> HIDE DEF u
  <2> QED
    BY <1>2, <1>4, <1>5, <2>1, <2>2, <2>3, <2>4, WorkKeepsKnown
<1>7. CASE Head(work[o][a].plan) \notin Identity
  <2>1. Idle \in Reconciles
    BY DEF Idle, Reconciles, Crs
  <2>2. /\ work' = [work EXCEPT ![o][a] = Idle]
        /\ requeued' = [requeued EXCEPT ![o] = @ \cup {a}]
    BY <1>1, <1>7 DEF Fails
  <2>3. /\ requeued' \in [Operators -> SUBSET Agents] /\ a \in requeued'[o]
        /\ \A p \in Operators : requeued[p] \subseteq requeued'[p]
    BY <1>3, <2>2 DEF OperatorShape
  <2> QED
    BY <1>2, <1>4, <1>5, <2>1, <2>2, <2>3, WorkKeepsKnown
<1> QED
  BY <1>6, <1>7

LEMMA EndKeepsKnown ==
    ASSUME KnownInv, NEW o \in Operators, NEW a \in Agents, ReconcileEnds(o, a)
    PROVE  KnownInv'
<1>1. OperatorShape /\ ClusterShape
  BY DEF KnownInv, Shape
<1>2. ClusterShape' /\ UNCHANGED <<boot, seen, due>>
  BY <1>1 DEF ReconcileEnds, ClusterShape, cluster
<1>3. Idle \in Reconciles
  BY DEF Idle, Reconciles, Crs
<1>4. /\ work' = [work EXCEPT ![o][a] = Idle]
      /\ requeued' = [requeued EXCEPT ![o] = @ \cup {a}]
  BY DEF ReconcileEnds
<1>5. /\ requeued' \in [Operators -> SUBSET Agents] /\ a \in requeued'[o]
      /\ due' \in [Operators -> SUBSET Agents]
      /\ \A p \in Operators : requeued[p] \subseteq requeued'[p]
  BY <1>1, <1>2, <1>4 DEF OperatorShape
<1> QED
  BY <1>2, <1>3, <1>4, <1>5, WorkKeepsKnown

LEMMA StepKeepsKnown == KnownInv /\ [Next]_vars => KnownInv'
<1> SUFFICES ASSUME KnownInv, [Next]_vars PROVE KnownInv'
  OBVIOUS
<1>1. CASE UNCHANGED vars
  BY <1>1 DEF vars, cluster, operator, KnownInv, Shape, ClusterShape, OperatorShape,
              WorkHasAResource, DownKnowsNothing, NothingIsForgotten, Busy, Up
<1>2. ASSUME NEW a \in Agents, Edit(a) \/ JobPodStarts(a)
      PROVE  KnownInv'
  <2>1. ClusterShape
    BY DEF KnownInv, Shape
  <2> QED
    BY <1>2, <2>1, HandlersEdit, EditKeepsKnown, ClusterKeepsKnown
<1>3. CASE AdminCreatesRootSecret
  BY <1>3 DEF AdminCreatesRootSecret, operator, KnownInv, Shape, ClusterShape,
     OperatorShape, WorkHasAResource, DownKnowsNothing, NothingIsForgotten, Busy, Up
<1>4. ASSUME NEW o \in Operators, Start(o) \/ Crash(o)
      PROVE  KnownInv'
  BY <1>4, StartKeepsKnown
<1>5. ASSUME NEW o \in Operators, NEW a \in Agents, Reconcile(o, a) \/ ApplyFails(o, a)
      PROVE  KnownInv'
  BY <1>5, WatchKeepsKnown, StartingKeepsKnown, ApplyKeepsKnown, FailureKeepsKnown,
     EndKeepsKnown DEF Reconcile
<1>6. ASSUME NEW a \in Agents, NEW k \in Kinds, GarbageCollected(a, k)
      PROVE  KnownInv'
  BY <1>6, ClusterKeepsKnown
<1> QED
  BY <1>1, <1>2, <1>3, <1>4, <1>5, <1>6 DEF Next

LEMMA KnownHolds == Spec => []KnownInv
<1> QED
  BY KnownInitially, StepKeepsKnown, PTL DEF Spec

\* An operator that is up never loses track of an agent in its cache: through
\* edits, refused and failed calls, restarts and other operators' writes, the
\* agent's reconcile is under way, asked for or due again later
\* (reconciler.rs: reconcile, error_policy).
THEOREM AgentsAreNotForgotten == Spec => []NothingIsForgotten
<1>1. KnownInv => NothingIsForgotten
  BY DEF KnownInv
<1> QED
  BY <1>1, KnownHolds, PTL

-----------------------------------------------------------------------------
(***************************************************************************)
(* A single operator writes versions in order.                             *)
(***************************************************************************)
\* The operator runs as one replica (deploy/brutus-control-plane/deployment.yaml),
\* so except in an upgrade one process reconciles.
OneOperator == \A o, p \in Operators : o = p

\* Every version that is kept somewhere was stored by an edit that has been.
NoVersionIsAhead ==
    \A a \in Agents :
        /\ cr[a].gen <= edits
        /\ \A k \in Kinds : objs[a][k].gen <= edits
        /\ \A o \in Operators : seen[o][a].gen <= edits /\ work[o][a].cr.gen <= edits

\* No copy of a resource is newer than the resource.
ResourceIsNewest ==
    \A a \in Agents : cr[a] # NoCr =>
        /\ \A k \in Kinds : objs[a][k].gen <= cr[a].gen
        /\ \A o \in Operators :
              seen[o][a].gen <= cr[a].gen /\ work[o][a].cr.gen <= cr[a].gen

\* What an operator works on and has applied is no newer than what it has seen.
CacheIsNewer ==
    \A o \in Operators, a \in Agents : seen[o][a] # NoCr =>
        /\ work[o][a].cr.gen <= seen[o][a].gen
        /\ \A k \in Kinds : objs[a][k].gen <= seen[o][a].gen

\* No object is newer than the version the reconcile under way writes.
WorkIsNewer ==
    \A o \in Operators, a \in Agents : Busy(o, a) =>
        \A k \in Kinds : objs[a][k].gen <= work[o][a].cr.gen

OrderInv == NoVersionIsAhead /\ ResourceIsNewest /\ CacheIsNewer /\ WorkIsNewer

LEMMA GenerationsAreNumbers ==
    ASSUME Shape
    PROVE  /\ edits \in Nat /\ NoCr.gen = 0 /\ Idle.cr = NoCr
           /\ \A a \in Agents : cr[a].gen \in Nat /\ cr[a] \in Crs
           /\ \A a \in Agents, k \in Kinds : objs[a][k].gen \in Nat
           /\ \A o \in Operators, a \in Agents :
                 seen[o][a].gen \in Nat /\ work[o][a].cr.gen \in Nat
<1>1. edits \in Nat /\ NoCr.gen = 0 /\ Idle.cr = NoCr
  BY DEF Shape, ClusterShape, NoCr, Idle
<1>2. /\ \A a \in Agents : cr[a] \in Crs
      /\ \A a \in Agents, k \in Kinds : objs[a][k] \in Crs
      /\ \A o \in Operators, a \in Agents : seen[o][a] \in Crs /\ work[o][a].cr \in Crs
  BY DEF Shape, ClusterShape, OperatorShape, Reconciles
<1> QED
  BY <1>1, <1>2, VersionsHaveGenerations

LEMMA OrderInitially == Init => OrderInv
  BY DEF Init, OrderInv, NoVersionIsAhead, ResourceIsNewest, CacheIsNewer, WorkIsNewer,
         Busy, NoCr, Idle

\* The resource changes.
LEMMA EditKeepsOrder ==
    ASSUME Shape, OrderInv, NEW a \in Agents, NEW c \in Crs,
           cr' = [cr EXCEPT ![a] = c], edits' = edits + 1,
           c = cr[a] \/ c = NoCr \/ c.gen = edits + 1,
           UNCHANGED <<objs, seen, work>>
    PROVE  OrderInv'
<1>1. cr \in [Agents -> Crs]
  BY DEF Shape, ClusterShape
<1>2. \A b \in Agents : cr'[b] = IF b = a THEN c ELSE cr[b]
  BY <1>1
<1>3. c.gen \in Nat
  BY VersionsHaveGenerations
<1>4. NoVersionIsAhead'
  BY <1>2, <1>3, GenerationsAreNumbers DEF OrderInv, NoVersionIsAhead
<1>5. ResourceIsNewest'
  BY <1>2, <1>3, GenerationsAreNumbers DEF OrderInv, NoVersionIsAhead, ResourceIsNewest
<1>6. CacheIsNewer' /\ WorkIsNewer'
  BY DEF OrderInv, CacheIsNewer, WorkIsNewer, Busy
<1> QED
  BY <1>4, <1>5, <1>6 DEF OrderInv

\* The watch delivers the resource as it is.
LEMMA WatchKeepsOrder ==
    ASSUME Shape, OrderInv, NEW o \in Operators, NEW a \in Agents, WatchDelivers(o, a)
    PROVE  OrderInv'
<1>1. /\ UNCHANGED <<cr, objs, work, edits>>
      /\ seen' = [seen EXCEPT ![o][a] = cr[a]] /\ seen \in [Operators -> [Agents -> Crs]]
  BY DEF WatchDelivers, cluster, Shape, OperatorShape
<1>2. \A p \in Operators, b \in Agents :
          seen'[p][b] = IF p = o /\ b = a THEN cr[a] ELSE seen[p][b]
  BY <1>1
<1>3. NoVersionIsAhead' /\ ResourceIsNewest'
  BY <1>1, <1>2, GenerationsAreNumbers DEF OrderInv, NoVersionIsAhead, ResourceIsNewest
<1>4. CacheIsNewer'
  BY <1>1, <1>2 DEF OrderInv, ResourceIsNewest, CacheIsNewer
<1>5. WorkIsNewer'
  BY <1>1 DEF OrderInv, WorkIsNewer, Busy
<1> QED
  BY <1>3, <1>4, <1>5 DEF OrderInv

\* A reconcile starts on the cached version, goes on, or ends.
LEMMA WorkKeepsOrder ==
    ASSUME Shape, OrderInv, NEW o \in Operators, NEW a \in Agents, NEW w,
           work' = [work EXCEPT ![o][a] = w], UNCHANGED <<cr, objs, seen, edits>>,
           \/ w = Idle
           \/ Busy(o, a) /\ w.cr = work[o][a].cr
           \/ seen[o][a] # NoCr /\ w.cr = seen[o][a]
    PROVE  OrderInv'
<1>1. work \in [Operators -> [Agents -> Reconciles]]
  BY DEF Shape, OperatorShape
<1>2. \A p \in Operators, b \in Agents :
          work'[p][b] = IF p = o /\ b = a THEN w ELSE work[p][b]
  BY <1>1
<1>3. w.cr.gen \in Nat /\ (w.cr = NoCr => w.cr.gen = 0)
  BY GenerationsAreNumbers
<1>4. NoVersionIsAhead' /\ ResourceIsNewest'
  BY <1>2, <1>3, GenerationsAreNumbers DEF OrderInv, NoVersionIsAhead, ResourceIsNewest
<1>5. CacheIsNewer'
  BY <1>2, <1>3, GenerationsAreNumbers DEF OrderInv, CacheIsNewer
<1>6. WorkIsNewer'
  BY <1>2, GenerationsAreNumbers DEF OrderInv, CacheIsNewer, WorkIsNewer, Busy
<1> QED
  BY <1>4, <1>5, <1>6 DEF OrderInv

\* Apply writes the version the only operator works on.
LEMMA ApplyKeepsOrder ==
    ASSUME Shape, OrderInv, OneOperator, NEW o \in Operators, NEW a \in Agents, Apply(o, a)
    PROVE  /\ OrderInv'
           /\ \A b \in Agents, k \in Kinds : objs'[b][k].gen >= objs[b][k].gen
<1> PICK v : v = work[o][a]
  OBVIOUS
<1> PICK c : c = v.cr
  OBVIOUS
<1> PICK j : j = Head(v.plan)
  OBVIOUS
<1>1. objs' = [objs EXCEPT ![a][j] = c]
  BY DEF Apply
<1>2. work' = [work EXCEPT ![o][a] = [v EXCEPT !.plan = Tail(@)]]
  BY DEF Apply
<1>3. UNCHANGED <<cr, seen, edits>> /\ Busy(o, a)
  BY DEF Apply
<1>4. /\ work \in [Operators -> [Agents -> Reconciles]] /\ v \in Reconciles
      /\ objs \in [Agents -> [Kinds -> Crs]]
  BY DEF Shape, ClusterShape, OperatorShape
<1>5. [v EXCEPT !.plan = Tail(@)].cr = c
  BY <1>4 DEF Reconciles
<1>6. \A p \in Operators, b \in Agents : work'[p][b].cr = work[p][b].cr
  BY <1>2, <1>4, <1>5
<1>7. \A b \in Agents, k \in Kinds :
          objs'[b][k] = IF b = a /\ k = j THEN c ELSE objs[b][k]
  BY <1>1, <1>4
<1>8. \A p \in Operators, b \in Agents : Busy(p, b)' => Busy(p, b)
  <2>1. \A p \in Operators, b \in Agents : p # o \/ b # a => work'[p][b] = work[p][b]
    BY <1>2, <1>4
  <2> QED
    BY <1>3, <2>1 DEF Busy
<1>9. \A k \in Kinds : objs[a][k].gen <= c.gen
  BY <1>3 DEF OrderInv, WorkIsNewer
<1>10. c.gen \in Nat
  BY GenerationsAreNumbers
<1>11. NoVersionIsAhead' /\ ResourceIsNewest'
  BY <1>3, <1>6, <1>7 DEF OrderInv, NoVersionIsAhead, ResourceIsNewest
<1>12. CacheIsNewer'
  <2>1. \A p \in Operators : seen[p][a] # NoCr => c.gen <= seen[p][a].gen
    BY DEF OrderInv, CacheIsNewer, OneOperator
  <2> QED
    BY <1>3, <1>6, <1>7, <2>1 DEF OrderInv, CacheIsNewer
<1>13. WorkIsNewer'
  <2>1. \A p \in Operators : c.gen <= work[p][a].cr.gen
    BY <1>10 DEF OneOperator
  <2> QED
    BY <1>6, <1>7, <1>8, <2>1 DEF OrderInv, WorkIsNewer
<1>14. \A b \in Agents, k \in Kinds : objs'[b][k].gen >= objs[b][k].gen
  BY <1>7, <1>9, <1>10, GenerationsAreNumbers
<1> QED
  BY <1>11, <1>12, <1>13, <1>14 DEF OrderInv

\* The collector removes an object.
LEMMA CollectorKeepsOrder ==
    ASSUME Shape, OrderInv, NEW a \in Agents, NEW k \in Kinds, GarbageCollected(a, k)
    PROVE  /\ OrderInv'
           /\ \A b \in Agents, j \in Kinds :
                 objs'[b][j] # NoCr => objs'[b][j] = objs[b][j]
<1>1. objs' = [objs EXCEPT ![a][k] = NoCr] /\ UNCHANGED <<cr, seen, work, edits>>
  BY DEF GarbageCollected
<1>2. objs \in [Agents -> [Kinds -> Crs]]
  BY DEF Shape, ClusterShape
<1>3. \A b \in Agents, j \in Kinds :
          objs'[b][j] = IF b = a /\ j = k THEN NoCr ELSE objs[b][j]
  BY <1>1, <1>2
<1>4. NoVersionIsAhead' /\ ResourceIsNewest'
  BY <1>1, <1>3, GenerationsAreNumbers DEF OrderInv, NoVersionIsAhead, ResourceIsNewest
<1>5. CacheIsNewer'
  BY <1>1, <1>3, GenerationsAreNumbers DEF OrderInv, CacheIsNewer
<1>6. WorkIsNewer'
  BY <1>1, <1>3, GenerationsAreNumbers DEF OrderInv, WorkIsNewer, Busy
<1> QED
  BY <1>3, <1>4, <1>5, <1>6 DEF OrderInv

LEMMA CrashKeepsOrder ==
    ASSUME Shape, OrderInv, NEW o \in Operators, Crash(o)
    PROVE  OrderInv'
<1>1. /\ UNCHANGED <<cr, objs, edits>>
      /\ seen' = [seen EXCEPT ![o] = [a \in Agents |-> NoCr]]
      /\ work' = [work EXCEPT ![o] = [a \in Agents |-> Idle]]
  BY DEF Crash, cluster
<1>2. \A p \in Operators, b \in Agents :
          /\ seen'[p][b] = IF p = o THEN NoCr ELSE seen[p][b]
          /\ work'[p][b] = IF p = o THEN Idle ELSE work[p][b]
  BY <1>1 DEF Shape, OperatorShape
<1>3. NoVersionIsAhead' /\ ResourceIsNewest'
  BY <1>1, <1>2, GenerationsAreNumbers DEF OrderInv, NoVersionIsAhead, ResourceIsNewest
<1>4. CacheIsNewer'
  BY <1>1, <1>2 DEF OrderInv, CacheIsNewer
<1>5. WorkIsNewer'
  BY <1>1, <1>2 DEF OrderInv, WorkIsNewer, Busy
<1> QED
  BY <1>3, <1>4, <1>5 DEF OrderInv

\* A step that changes no version leaves the order.
LEMMA QuietKeepsOrder ==
    ASSUME OrderInv, UNCHANGED <<cr, objs, seen, work, edits>>
    PROVE  OrderInv'
  BY DEF OrderInv, NoVersionIsAhead, ResourceIsNewest, CacheIsNewer, WorkIsNewer, Busy

\* What a step of the operator may do to an object.
ObjectsAdvance == \A a \in Agents, k \in Kinds :
                      objs'[a][k] # NoCr => objs'[a][k].gen >= objs[a][k].gen

LEMMA QuietAdvances ==
    ASSUME Shape, UNCHANGED objs
    PROVE  ObjectsAdvance
  BY GenerationsAreNumbers DEF ObjectsAdvance

LEMMA StepKeepsOrder ==
    ASSUME KnownInv, OrderInv, OneOperator, [Next]_vars
    PROVE  OrderInv' /\ ObjectsAdvance
<1>1. Shape /\ ClusterShape
  BY DEF KnownInv, Shape
<1>2. ASSUME UNCHANGED <<cr, objs, seen, work, edits>>
      PROVE  OrderInv' /\ ObjectsAdvance
  BY <1>1, <1>2, QuietKeepsOrder, QuietAdvances
<1>3. CASE UNCHANGED vars \/ AdminCreatesRootSecret
  BY <1>2, <1>3 DEF vars, cluster, operator, AdminCreatesRootSecret
<1>4. ASSUME NEW a \in Agents, EditsResource(a)
      PROVE  OrderInv' /\ ObjectsAdvance
  BY <1>1, <1>4, EditKeepsOrder, QuietAdvances DEF EditsResource, operator
<1>5. ASSUME NEW a \in Agents, Edit(a) \/ JobPodStarts(a)
      PROVE  OrderInv' /\ ObjectsAdvance
  <2>1. CASE Edit(a)
    <3>1. EditsResource(a) \/ AdminMeddles(a)
      BY <1>1, <2>1, HandlersEdit
    <3> QED
      BY <1>2, <1>4, <3>1 DEF AdminMeddles
  <2>2. CASE JobPodStarts(a)
    BY <1>2, <2>2 DEF JobPodStarts, operator
  <2> QED
    BY <1>5, <2>1, <2>2
<1>6. ASSUME NEW o \in Operators, Start(o) \/ Crash(o)
      PROVE  OrderInv' /\ ObjectsAdvance
  <2>1. CASE ensure_primary_agent(o)
    BY <1>2, <2>1 DEF ensure_primary_agent, cluster
  <2>2. CASE BootstrapPrimary(o)
    <3>1. Primary \in Agents
      BY <1>1, <2>2, ConstantsAreProper DEF BootstrapPrimary, Shape, OperatorShape
    <3>2. KeepLeaf(Primary, PrimarySpec) \in OmegonAgentSpec
      BY <1>1, <3>1, ConstantsAreProper, KeepLeafIsASpec
    <3>3. UNCHANGED <<objs, seen, work>> /\ Write(Primary, KeepLeaf(Primary, PrimarySpec))
      BY <2>2 DEF BootstrapPrimary
    <3>4. PICK c \in OmegonAgent :
              /\ cr' = [cr EXCEPT ![Primary] = c] /\ edits' = edits + 1
              /\ c = cr[Primary] \/ c.gen = edits + 1
      BY <1>1, <3>1, <3>2, <3>3, WriteStores
    <3>5. c \in Crs
      BY DEF Crs
    <3> QED
      BY <1>1, <3>1, <3>3, <3>4, <3>5, EditKeepsOrder, QuietAdvances
  <2>3. CASE Crash(o)
    BY <1>1, <2>3, CrashKeepsOrder, QuietAdvances DEF Crash, cluster
  <2> QED
    BY <1>6, <2>1, <2>2, <2>3 DEF Start
<1>7. ASSUME NEW o \in Operators, NEW a \in Agents, Reconcile(o, a) \/ ApplyFails(o, a)
      PROVE  OrderInv' /\ ObjectsAdvance
  <2>1. CASE WatchDelivers(o, a)
    BY <1>1, <2>1, WatchKeepsOrder, QuietAdvances DEF WatchDelivers, cluster
  <2>2. CASE RequeueFires(o, a)
    BY <1>2, <2>2 DEF RequeueFires, cluster
  <2>3. CASE ReconcileStarts(o, a)
    <3>1. CASE seen[o][a] = NoCr
      BY <1>2, <2>3, <3>1 DEF ReconcileStarts, cluster
    <3>2. CASE seen[o][a] # NoCr
      <4> DEFINE w == [cr |-> seen[o][a], plan |-> Plan(seen[o][a].spec)]
      <4>1. work' = [work EXCEPT ![o][a] = w] /\ w.cr = seen[o][a]
        BY <2>3, <3>2 DEF ReconcileStarts
      <4>2. UNCHANGED <<cr, objs, seen, edits>>
        BY <2>3 DEF ReconcileStarts, cluster
      <4> HIDE DEF w
      <4> QED
        BY <1>1, <3>2, <4>1, <4>2, WorkKeepsOrder, QuietAdvances
    <3> QED
      BY <3>1, <3>2
  <2>4. CASE ReconcileEnds(o, a)
    <3>1. work' = [work EXCEPT ![o][a] = Idle] /\ UNCHANGED <<cr, objs, seen, edits>>
      BY <2>4 DEF ReconcileEnds, cluster
    <3> QED
      BY <1>1, <3>1, WorkKeepsOrder, QuietAdvances
  <2>5. CASE Apply(o, a)
    BY <1>1, <2>5, ApplyKeepsOrder DEF ObjectsAdvance
  <2>6. CASE ApplyRefused(o, a) \/ ApplyFails(o, a)
    <3>1. /\ UNCHANGED <<cr, objs, seen, edits>> /\ Fails(o, a)
          /\ Busy(o, a) /\ work[o][a].plan # << >>
      BY <2>6 DEF ApplyRefused, ApplyFails, cluster
    <3>2. CASE Head(work[o][a].plan) \in Identity
      <4> PICK v : v = work[o][a]
        OBVIOUS
      <4> DEFINE u == [v EXCEPT !.plan = WithoutIdentity(@)]
      <4>1. v \in Reconciles /\ v.cr # NoCr /\ v.plan # << >>
        BY <3>1, WorkUnderWay
      <4>2. work' = [work EXCEPT ![o][a] = u] /\ u.cr = work[o][a].cr
        BY <3>1, <3>2, <4>1, PlanAdvances DEF Fails
      <4> HIDE DEF u
      <4> QED
        BY <1>1, <3>1, <4>2, WorkKeepsOrder, QuietAdvances
    <3>3. CASE Head(work[o][a].plan) \notin Identity
      <4>1. work' = [work EXCEPT ![o][a] = Idle]
        BY <3>1, <3>3 DEF Fails
      <4> QED
        BY <1>1, <3>1, <4>1, WorkKeepsOrder, QuietAdvances
    <3> QED
      BY <3>2, <3>3
  <2> QED
    BY <1>7, <2>1, <2>2, <2>3, <2>4, <2>5, <2>6 DEF Reconcile
<1>8. ASSUME NEW a \in Agents, NEW k \in Kinds, GarbageCollected(a, k)
      PROVE  OrderInv' /\ ObjectsAdvance
  <2>1. \A b \in Agents, j \in Kinds : objs[b][j].gen >= objs[b][j].gen
    BY <1>1, GenerationsAreNumbers
  <2> QED
    BY <1>1, <1>8, <2>1, CollectorKeepsOrder, Zenon DEF ObjectsAdvance
<1> QED
  BY <1>3, <1>5, <1>6, <1>7, <1>8 DEF Next

\* With one operator process, no write takes an object of an agent back to an
\* older version of its resource, whatever edits, deletions, failures and
\* restarts come between the calls of a reconcile.  Two processes that overlap
\* in an upgrade can: the older one may still apply what it read before
\* (reconciler.rs: reconcile applies the version it was called with).
THEOREM OneOperatorNeverRegresses ==
    ASSUME OneOperator
    PROVE  Spec => ObjectsNeverRegress
<1>1. Init => OrderInv
  BY OrderInitially
<1>2. KnownInv /\ OrderInv /\ [Next]_vars => OrderInv' /\ ObjectsAdvance
  BY StepKeepsOrder
<1>3. ObjectsAdvance <=> \A a \in Agents, k \in Kinds :
          objs'[a][k] # NoCr => objs'[a][k].gen >= objs[a][k].gen
  BY DEF ObjectsAdvance
<1> QED
  BY <1>1, <1>2, <1>3, KnownHolds, PTL DEF Spec, ObjectsNeverRegress
=============================================================================
