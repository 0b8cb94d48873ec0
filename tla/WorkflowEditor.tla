---------------------------- MODULE WorkflowEditor ----------------------------
(***************************************************************************)
(* The workflow builder (src/workflow.rs, WorkflowBuilderScreen in         *)
(* src/screens.rs).  A workflow exists four times: in the file, in the     *)
(* screen's signal with its validation and dispatch plan, in the editor    *)
(* mounted from the signal (assets/vendor/flow.bundle.js), and in the      *)
(* bodies on their way back from the editor.  Every change of the signal   *)
(* mounts the editor again.                                                *)
(***************************************************************************)
EXTENDS Integers, Sequences, FiniteSets, Functions, Selections

CONSTANTS
    StoredFlows,   \* flows the file may hold when the screen opens
    PaletteKinds,  \* kinds the operator adds from the palette
    MaxEdits,      \* changes made in the editor
    MaxAdds        \* nodes added from the palette

VARIABLES
    flowFile,   \* .auspex/workflows/default.flow; document 0 is a file that does not load
    workflow,   \* the signal: WorkflowState
    saveState,
    editor,     \* the mounted editor: its flow, whether its timer runs and, for the
                \* properties, the nodes deleted in it
    remount,    \* the effect that mounts the editor has to run
    saveQueue,  \* window._auspexFlowSaveQueue
    bodies,     \* sent to the screen's task and not yet received
    edits, adds

wfVars == <<flowFile, workflow, saveState, editor, remount, saveQueue, bodies, edits, adds>>

\* External: the roles of the shared catalog's kinds.
role_for(n) ==
    CASE n.kind = "webhook_input" -> "Trigger"
      [] n.kind = "result_output" -> "Output"
      [] n.kind = "branch" -> "Branch"
      [] n.kind \in {"fleet_dispatch", "sentry_submit"} -> "Executable"
      [] OTHER -> "Unknown"

Node(id, kind) == [id |-> id, kind |-> kind]
NodeIds(f) == {n.id : n \in f.nodes}
NodeOf(f, id) == CHOOSE n \in f.nodes : n.id = id
Targets(f, ids) == {f.edges[i][2] : i \in {j \in DOMAIN f.edges : f.edges[j][1] \in ids}}

starter_flow ==
    [nodes |-> {Node(1, "webhook_input"), Node(2, "fleet_dispatch"),
                Node(3, "sentry_submit"), Node(4, "result_output")},
     edges |-> <<<<1, 2>>, <<2, 3>>, <<3, 4>>>>]

\* The kinds there are: of the starter, of the palette and of whatever the file holds.
NodeKinds == {n.kind : n \in UNION {f.nodes : f \in StoredFlows \cup {starter_flow}}} \cup PaletteKinds

\* A flow: finitely many nodes, numbered, and edges between numbers, some of which may dangle.
Flows ==
    {f \in [nodes : SUBSET [id : Nat, kind : NodeKinds], edges : Seq(Nat \X Nat)] : IsFiniteSet(f.nodes)}

ASSUME FlowAssumption == \A f \in StoredFlows : f \in Flows

Triggers(f) == {n \in f.nodes : role_for(n) = "Trigger"}

\* reachable_nodes
reachable_nodes(f, start) ==
    LET within[k \in 0..Cardinality(f.nodes)] ==
            IF k = 0 THEN {start} ELSE within[k - 1] \cup Targets(f, within[k - 1])
    IN  within[Cardinality(f.nodes)]

\* validate_workflow: no error.  Sockets and identifiers are the editor's own and in order.
is_valid(f) ==
    /\ \A i \in DOMAIN f.edges : f.edges[i][1] \in NodeIds(f) /\ f.edges[i][2] \in NodeIds(f)
    /\ \A n \in f.nodes : role_for(n) # "Unknown"
    /\ \E n \in f.nodes : role_for(n) = "Output"
    /\ \E t \in f.nodes : Triggers(f) = {t} /\ NodeIds(f) \subseteq reachable_nodes(f, t.id)

\* Mutant: the walk goes through an output.
FollowsAnything(f, trail, id) == id \in NodeIds(f) /\ id \notin Range(trail)

\* Where compile_dispatch_plan goes on: each node once, and never through an output.
Follows(f, trail, id) ==
    id \in NodeIds(f) /\ id \notin Range(trail) /\ role_for(NodeOf(f, id)) # "Output"

\* compile_dispatch_plan: the trail goes on along the first edge of where it has come to.
OnwardEdges(f, trail) == {i \in DOMAIN f.edges : f.edges[i][1] = trail[Len(trail)]}
Onward(f, trail) ==
    LET on == OnwardEdges(f, trail)
        id == f.edges[First(on)][2]
    IN  IF on # {} /\ Follows(f, trail, id) THEN Append(trail, id) ELSE trail

\* From the trigger, as far as there are nodes.
Trail(f, start) ==
    LET walk[k \in 0..Cardinality(f.nodes)] ==
            IF k = 0 THEN <<start>> ELSE Onward(f, walk[k - 1])
    IN  walk[Cardinality(f.nodes)]

\* The places of a trail that are steps of a plan.
StepsOf(f, trail) == {i \in DOMAIN trail : role_for(NodeOf(f, trail[i])) \in {"Executable", "Branch"}}

NoPlan == [found |-> FALSE, steps |-> <<>>]

compile_dispatch_plan(f) ==
    IF ~is_valid(f) THEN NoPlan
    ELSE LET trail == Trail(f, (CHOOSE t \in Triggers(f) : TRUE).id)
         IN  [found |-> TRUE, steps |-> SelectAt(trail, StepsOf(f, trail))]

build_state(f, doc) == [doc |-> doc, flow |-> f, valid |-> is_valid(f), plan |-> compile_dispatch_plan(f)]

----------------------------------------------------------------------------
\* load_or_create_workflow: a file that does not load is replaced by the starter, and a
\* failing save goes unnoticed.
WfInit ==
    \/ \E f \in StoredFlows :
          /\ flowFile = [doc |-> 1, flow |-> f]
          /\ workflow = build_state(f, 1) /\ saveState = "loaded"
          /\ editor = [on |-> FALSE, flow |-> f, timer |-> FALSE, deleted |-> {}]
          /\ remount = TRUE /\ saveQueue = <<>> /\ bodies = <<>> /\ edits = 0 /\ adds = 0
    \/ \E saved \in BOOLEAN :
          /\ flowFile = [doc |-> IF saved THEN 2 ELSE 0, flow |-> starter_flow]
          /\ workflow = build_state(starter_flow, 2) /\ saveState = "created"
          /\ editor = [on |-> FALSE, flow |-> starter_flow, timer |-> FALSE, deleted |-> {}]
          /\ remount = TRUE /\ saveQueue = <<>> /\ bodies = <<>> /\ edits = 0 /\ adds = 0

\* A flow with some of its edges; the edges that join two of some nodes.
WithEdges(f, places) == [nodes |-> f.nodes, edges |-> SelectAt(f.edges, places)]
Joining(f, ids) == {i \in DOMAIN f.edges : {f.edges[i][1], f.edges[i][2]} \subseteq ids}

\* The effect: the editor is unmounted, which hands over what its timer still holds, and
\* mounted with the signal's flow, without the edges that dangle.
MountEditor ==
    /\ remount /\ remount' = FALSE
    /\ saveQueue' = IF editor.on /\ editor.timer THEN Append(saveQueue, editor.flow) ELSE saveQueue
    /\ editor' = [on |-> TRUE, timer |-> FALSE, deleted |-> editor.deleted,
                  flow |-> WithEdges(workflow.flow, Joining(workflow.flow, NodeIds(workflow.flow)))]
    /\ UNCHANGED <<flowFile, workflow, saveState, bodies, edits, adds>>

\* The operator connects two nodes, or deletes a node with its edges, or an edge; the editor
\* waits half a second for more.
EditTo(f) ==
    /\ editor.on /\ edits < MaxEdits
    /\ edits' = edits + 1
    /\ editor' = [editor EXCEPT !.flow = f, !.timer = TRUE,
                                !.deleted = @ \cup (NodeIds(editor.flow) \ NodeIds(f))]
    /\ UNCHANGED <<flowFile, workflow, saveState, remount, saveQueue, bodies, adds>>

Edit ==
    LET f == editor.flow
    IN  \/ \E a, b \in NodeIds(f) : a # b /\ EditTo([f EXCEPT !.edges = Append(@, <<a, b>>)])
        \/ \E n \in f.nodes :
              EditTo([WithEdges(f, {i \in DOMAIN f.edges : n.id \notin {f.edges[i][1], f.edges[i][2]}})
                      EXCEPT !.nodes = @ \ {n}])
        \/ \E i \in DOMAIN f.edges : EditTo(WithEdges(f, DOMAIN f.edges \ {i}))

\* onChange
TimerFires ==
    /\ editor.timer
    /\ editor' = [editor EXCEPT !.timer = FALSE]
    /\ saveQueue' = Append(saveQueue, editor.flow)
    /\ UNCHANGED <<flowFile, workflow, saveState, remount, bodies, edits, adds>>

\* drain: only the latest body is sent.
DrainQueue ==
    /\ saveQueue # <<>>
    /\ bodies' = Append(bodies, saveQueue[Len(saveQueue)]) /\ saveQueue' = <<>>
    /\ UNCHANGED <<flowFile, workflow, saveState, editor, remount, edits, adds>>

\* Mutant: the signal is set although the file could not be written.
SavesAnyway(next, ok) ==
    /\ flowFile' = IF ok THEN [doc |-> next.doc, flow |-> next.flow] ELSE flowFile
    /\ saveState' = "saved" /\ workflow' = next /\ remount' = TRUE

\* save_workflow, save_workflow_state: the signal changes only once the file has.
Saves(next, ok) ==
    IF ok
    THEN /\ flowFile' = [doc |-> next.doc, flow |-> next.flow]
         /\ saveState' = "saved" /\ workflow' = next /\ remount' = TRUE
    ELSE saveState' = "save failed" /\ UNCHANGED <<flowFile, workflow, remount>>

\* The screen's task: state_from_json with the document of the signal, then the file.
ReceiveBody(ok) ==
    /\ bodies # <<>> /\ bodies' = Tail(bodies)
    /\ Saves(build_state(Head(bodies), workflow.doc), ok)
    /\ UNCHANGED <<editor, saveQueue, edits, adds>>

\* add_catalog_node: a node without edges, added to the signal's flow.
add_catalog_node(kind, ok) ==
    /\ adds < MaxAdds /\ adds' = adds + 1
    /\ Saves(build_state([workflow.flow EXCEPT !.nodes = @ \cup {Node(5 + adds, kind)}], workflow.doc), ok)
    /\ UNCHANGED <<editor, saveQueue, bodies, edits>>

WfNext ==
    \/ MountEditor \/ Edit \/ TimerFires \/ DrainQueue
    \/ \E ok \in BOOLEAN : ReceiveBody(ok) \/ \E kind \in PaletteKinds : add_catalog_node(kind, ok)

WfSpec == WfInit /\ [][WfNext]_wfVars

----------------------------------------------------------------------------
HasEdge(f, a, b) == \E i \in DOMAIN f.edges : f.edges[i] = <<a, b>>

\* The dispatch plan an operator sees next to "saved" is one of the file: its document is the
\* file's, and its steps are executable nodes of the file's flow, each once and each joined to
\* the one before it, whichever of the two writers wrote last and whichever write failed
\* (save_workflow, compile_dispatch_plan).
PlanIsOfTheFile ==
    saveState = "saved" =>
        /\ flowFile.doc = workflow.doc /\ flowFile.flow = workflow.flow
        /\ LET s == workflow.plan.steps
               f == flowFile.flow
           IN  /\ workflow.plan.found => is_valid(f)
               /\ \A i \in DOMAIN s :
                     /\ s[i] \in NodeIds(f)
                     /\ role_for(NodeOf(f, s[i])) \in {"Executable", "Branch"}
                     /\ i > 1 => HasEdge(f, s[i - 1], s[i])
                     /\ \A j \in DOMAIN s : s[i] = s[j] => i = j

\* Expected to fail.  A node added from the palette and reported saved stays in the file unless
\* the operator deletes it: an edit that waits for the editor's timer, or in the queue, when
\* the node is added is handed over afterwards, without the node ("saved").
PaletteNodesStay ==
    [][\A id \in NodeIds(flowFile.flow) :
          id > 4 /\ id \notin editor.deleted => id \in NodeIds(flowFile'.flow)]_wfVars
=============================================================================
