-------------------------- MODULE ManagedAgentA2a --------------------------
(***************************************************************************)
(* Managed agents over Styrene A2A: the tools of the primary agent reach   *)
(* the supervisor through a private bridge, and the supervisor reaches the *)
(* worker through an MQTT broker.                                          *)
(*                                                                         *)
(*   bridge        one connection handler per client; puts a mutation on a *)
(*                 bounded channel and waits for its answer, or reads the  *)
(*                 projection snapshot                                     *)
(*   app loop      sends the prepared actions to the orchestrator, applies *)
(*                 its events, lets the mutation coordinator work through  *)
(*                 the channel, and publishes the snapshot                 *)
(*   orchestrator  a task of its own that owns the MQTT connection, behind *)
(*                 two bounded channels                                    *)
(*   broker, worker  external: at-least-once delivery with expiry, and a   *)
(*                 worker that executes one task per run id                *)
(*                                                                         *)
(* The app loop awaits in the middle of an iteration when the command      *)
(* channel is full; the rest of an iteration does not await, and is split  *)
(* at each try_recv.  A task handle is the run id (decode_event), so task  *)
(* handles and run ids are the same numbers here.                          *)
(***************************************************************************)
EXTENDS ManagedAgentRun, Sequences, FiniteSets

CONSTANTS
    Parents,          \* parent sessions, one bridge each
    Ops,              \* operation ids
    Keys,             \* <<p, o>>: the client of parent p uses operation id o
    MaxRuns,          \* bound on the runs created
    RequestCapacity,  \* capacity of the coordinator's channel
    CommandCapacity,  \* COMMAND_CHANNEL_CAPACITY
    EventCapacity,    \* EVENT_CHANNEL_CAPACITY
    Reliable          \* does the broker deliver every message just once?

ASSUME A2aAssumption ==
    /\ Keys \subseteq Parents \X Ops
    /\ MaxRuns \in Nat
    /\ RequestCapacity \in Nat \ {0}
    /\ CommandCapacity \in Nat \ {0}
    /\ EventCapacity \in Nat \ {0}
    /\ Reliable \in BOOLEAN

VARIABLES
    run,        \* run[r]: the supervisor's record of run r, with its parent
    created,    \* number of runs created; run ids are 1..created
    completed,  \* completed_operations: key -> run id, NoRun when absent
    requests,   \* mutations in the coordinator's channel
    told,       \* told[k]: runs the successful answers to key k have named
    asked,      \* <<p, r>>: parent p has asked for the cancellation of r
    attach,     \* the attach of the primary agent that the bridge serves
    actions,    \* prepared transport actions
    phase,      \* where the app loop is
    snapshot,   \* snapshot[p][r]: the state the bridge reports to p for r
    commands,   \* the orchestrator's command channel
    events,     \* the orchestrator's event channel
    orch,       \* the orchestrator's connection
    owed,       \* the event the orchestrator is sending, if any
    toWorker,   \* commands the broker holds for the worker
    toApp,      \* outcomes the broker holds for the app
    tasks       \* tasks[r]: what the worker does for run r

bridgeVars == <<requests, told, asked>>
loopVars == <<run, created, completed, actions, phase, snapshot>>
orchVars == <<commands, events, orch, owed>>
worldVars == <<toWorker, toApp, tasks>>
vars == <<run, created, completed, requests, told, asked, attach, actions,
          phase, snapshot, commands, events, orch, owed, toWorker, toApp, tasks>>

-----------------------------------------------------------------------------
RunIds == 1..MaxRuns
NoRun == 0
NoParent == "none"

Absent == [state |-> "Absent", task |-> NoTask, parent |-> NoParent]

Requests == [parent : Parents, op : Ops, run : RunIds \cup {NoRun},
             kind : {"Dispatch", "InvalidDispatch", "Cancel"}]

Commands == [kind : {"Dispatch", "Cancel"}, run : RunIds]

Outcomes == [type : {"Accepted", "Duplicate", "Completed", "Failed",
                     "CancellationAccepted", "TerminationConfirmed"},
             run : RunIds]

\* The transport's own events: Connected, Disconnected, CommandPublished,
\* CommandFailed.  None of them touches a run, so one value stands for all.
Notice == [type |-> "Notice", run |-> NoRun]

Events == Outcomes \cup {Notice}

NoEvent == [type |-> "none", run |-> NoRun]

TaskStates == {"none", "running", "cancelling", "succeeded", "unsuccessful",
               "cancelled"}

Known(r) == run[r].state # "Absent"

\* Runs, channels, snapshot and tasks have the shapes the code gives them,
\* and no channel holds more than its capacity.
TypeOK ==
    /\ run \in [RunIds -> [state : RunStates \cup {"Absent"},
                           task : RunIds \cup {NoTask},
                           parent : Parents \cup {NoParent}]]
    /\ created \in 0..MaxRuns
    /\ completed \in [Keys -> RunIds \cup {NoRun}]
    /\ requests \in Seq(Requests) /\ Len(requests) <= RequestCapacity
    /\ told \in [Keys -> SUBSET RunIds]
    /\ asked \subseteq Parents \X RunIds
    /\ attach \in {"pending", "done", "failed"}
    /\ actions \in Seq(Commands)
    /\ phase \in {"send", "events", "requests"}
    /\ snapshot \in [Parents -> [RunIds -> RunStates \cup {"Absent"}]]
    /\ commands \in Seq(Commands) /\ Len(commands) <= CommandCapacity
    /\ events \in Seq(Events) /\ Len(events) <= EventCapacity
    /\ orch \in {"disabled", "connecting", "serving"}
    /\ owed \in Events \cup {NoEvent}
    /\ toWorker \subseteq Commands
    /\ toApp \subseteq Outcomes
    /\ tasks \in [RunIds -> TaskStates]

Init ==
    /\ run = [r \in RunIds |-> Absent]
    /\ created = 0
    /\ completed = [k \in Keys |-> NoRun]
    /\ requests = << >>
    /\ told = [k \in Keys |-> {}]
    /\ asked = {}
    /\ attach = "pending"
    /\ actions = << >>
    /\ phase = "send"
    /\ snapshot = [p \in Parents |-> [r \in RunIds |-> "Absent"]]
    /\ commands = << >>
    /\ events = << >>
    /\ orch \in {"disabled", "connecting"}
    /\ owed = NoEvent
    /\ toWorker = {}
    /\ toApp = {}
    /\ tasks = [r \in RunIds |-> "none"]

-----------------------------------------------------------------------------
(***************************************************************************)
(* The bridge.  A client sends an operation, and sends it again when it    *)
(* gets no answer.  The handler puts it on the channel; the client may be  *)
(* gone by the time it is answered, which changes nothing.                 *)
(***************************************************************************)

serve_connection(p, o, kind, r) ==
    /\ attach # "failed"
    /\ Len(requests) < RequestCapacity
    /\ requests' = Append(requests, [parent |-> p, op |-> o, kind |-> kind, run |-> r])
    /\ asked' = IF kind = "Cancel" THEN asked \cup {<<p, r>>} ELSE asked
    /\ UNCHANGED <<told, attach, loopVars, orchVars, worldVars>>

\* Model bound: the dispatches waiting do not exceed the runs left to create.
RoomForRun ==
    created + Cardinality({i \in DOMAIN requests : requests[i].kind = "Dispatch"})
        < MaxRuns

\* A dispatch names no run; a cancellation names any run id.
ClientSends ==
    \E k \in Keys :
        \/ /\ RoomForRun \/ completed[k] # NoRun
           /\ serve_connection(k[1], k[2], "Dispatch", NoRun)
        \/ serve_connection(k[1], k[2], "InvalidDispatch", NoRun)
        \/ \E r \in RunIds : serve_connection(k[1], k[2], "Cancel", r)

\* The attach of the primary agent ends.  The app's controller is replaced
\* by the one the attach produced, which has no managed runs; the coordinator
\* is not replaced.  If it failed the bridge is dropped with its snapshot.
spawn_and_attach_omegon_with_bridge(ok) ==
    /\ attach = "pending"
    /\ attach' = IF ok THEN "done" ELSE "failed"
    /\ run' = [r \in RunIds |-> Absent]
    /\ snapshot' = IF ok THEN snapshot
                   ELSE [p \in Parents |-> [r \in RunIds |-> "Absent"]]
    /\ UNCHANGED <<created, completed, actions, phase, bridgeVars, orchVars, worldVars>>

-----------------------------------------------------------------------------
(***************************************************************************)
(* The app loop.                                                           *)
(***************************************************************************)

\* Mutant: the last slot of the channel is never used.
SendActionShort ==
    /\ phase = "send"
    /\ actions # << >>
    /\ orch # "disabled"
    /\ Len(commands) + 1 < CommandCapacity
    /\ commands' = Append(commands, Head(actions))
    /\ actions' = Tail(actions)
    /\ UNCHANGED <<run, created, completed, phase, snapshot, attach, bridgeVars,
                   events, orch, owed, worldVars>>

\* execute sends one action to the orchestrator, and waits for room.
SendAction ==
    /\ phase = "send"
    /\ actions # << >>
    /\ orch # "disabled"
    /\ Len(commands) < CommandCapacity
    /\ commands' = Append(commands, Head(actions))
    /\ actions' = Tail(actions)
    /\ UNCHANGED <<run, created, completed, phase, snapshot, attach, bridgeVars,
                   events, orch, owed, worldVars>>

\* Without an orchestrator the actions are dropped and an error recorded.
RejectActions ==
    /\ phase = "send"
    /\ actions # << >>
    /\ orch = "disabled"
    /\ actions' = << >>
    /\ UNCHANGED <<run, created, completed, phase, snapshot, attach, bridgeVars,
                   orchVars, worldVars>>

ActionsSent ==
    /\ phase = "send"
    /\ actions = << >>
    /\ phase' = "events"
    /\ UNCHANGED <<run, created, completed, actions, snapshot, attach, bridgeVars,
                   orchVars, worldVars>>

\* Mutant: an accepted cancellation is taken for a terminated task.
apply_a2a_event_early(e) ==
    LET it == run[e.run] IN
    CASE e.type \in {"Accepted", "Duplicate"} /\ accepts_dispatch(it) ->
             accept_dispatch(it, e.run)
      [] e.type = "Completed" /\ accepts_result(it) -> complete_from_result(it)
      [] e.type = "Failed" /\ accepts_ending(it)    -> fail(it)
      [] e.type \in {"CancellationAccepted", "TerminationConfirmed"}
           /\ accepts_ending(it) -> confirm_termination(it)
      [] OTHER -> it

\* Mutant: a cancellation accepted late reopens a run that has ended.
apply_a2a_event_reopening(e) ==
    LET it == run[e.run] IN
    CASE e.type \in {"Accepted", "Duplicate"} /\ accepts_dispatch(it) ->
             accept_dispatch(it, e.run)
      [] e.type = "Completed" /\ accepts_result(it) -> complete_from_result(it)
      [] e.type = "Failed" /\ accepts_ending(it)    -> fail(it)
      [] e.type = "CancellationAccepted"            -> mark_cancellation_accepted(it)
      [] e.type = "TerminationConfirmed" /\ accepts_ending(it) ->
             confirm_termination(it)
      [] OTHER -> it

\* The run after an outcome.  An outcome the run does not accept is an error
\* that leaves it as it is.
apply_a2a_event(e) ==
    LET it == run[e.run] IN
    CASE e.type \in {"Accepted", "Duplicate"} /\ accepts_dispatch(it) ->
             accept_dispatch(it, e.run)
      [] e.type = "Completed" /\ accepts_result(it) -> complete_from_result(it)
      [] e.type = "Failed" /\ accepts_ending(it)    -> fail(it)
      [] e.type = "CancellationAccepted" /\ accepts_cancellation_accepted(it) ->
             mark_cancellation_accepted(it)
      [] e.type = "TerminationConfirmed" /\ accepts_ending(it) ->
             confirm_termination(it)
      [] OTHER -> it

\* Only outcomes reach a run, and only a run the supervisor holds.  The
\* transport's own events become error notes or nothing.
apply_event ==
    /\ phase = "events"
    /\ events # << >>
    /\ LET e == Head(events) IN
       run' = IF e \in Outcomes /\ Known(e.run)
              THEN [run EXCEPT ![e.run] = apply_a2a_event(e)]
              ELSE run
    /\ events' = Tail(events)
    /\ UNCHANGED <<created, completed, actions, phase, snapshot, attach, bridgeVars,
                   commands, orch, owed, worldVars>>

EventsDrained ==
    /\ phase = "events"
    /\ events = << >>
    /\ phase' = "requests"
    /\ UNCHANGED <<run, created, completed, actions, snapshot, attach, bridgeVars,
                   orchVars, worldVars>>

-----------------------------------------------------------------------------
(***************************************************************************)
(* The mutation coordinator.  An operation already completed is answered   *)
(* from completed_operations, whatever it asks for this time.              *)
(***************************************************************************)

Key(q) == <<q.parent, q.op>>

Repeats(q) == completed[Key(q)] # NoRun

\* Mutant: the operation is not remembered.
CompletesForgetting(q, r, action) ==
    /\ completed' = completed
    /\ told' = [told EXCEPT ![Key(q)] = @ \cup {r}]
    /\ actions' = Append(actions, action)

Completes(q, r, action) ==
    /\ completed' = [completed EXCEPT ![Key(q)] = r]
    /\ told' = [told EXCEPT ![Key(q)] = @ \cup {r}]
    /\ actions' = Append(actions, action)

prepare_styrene_a2a_dispatch(q) ==
    LET r == created + 1 IN
    /\ q.kind = "Dispatch"
    /\ ~Repeats(q)
    /\ created' = r
    /\ run' = [run EXCEPT ![r] = [state |-> "Dispatching", task |-> NoTask,
                                  parent |-> q.parent]]
    /\ Completes(q, r, [kind |-> "Dispatch", run |-> r])

\* Mutant: the parent of the run is not checked.
CancelsAnyRun(q) ==
    /\ Known(q.run)
    /\ accepts_cancellation_request(run[q.run])

\* The run must be in the scope of the caller, and in a state that can be
\* cancelled.
CancelAccepted(q) ==
    /\ Known(q.run)
    /\ run[q.run].parent = q.parent
    /\ accepts_cancellation_request(run[q.run])

prepare_styrene_a2a_cancel(q) ==
    /\ q.kind = "Cancel"
    /\ ~Repeats(q)
    /\ CancelAccepted(q)
    /\ run' = [run EXCEPT ![q.run] = request_cancellation(@)]
    /\ Completes(q, q.run, [kind |-> "Cancel", run |-> q.run])
    /\ UNCHANGED created

AnswersDuplicate(q) ==
    /\ Repeats(q)
    /\ told' = [told EXCEPT ![Key(q)] = @ \cup {completed[Key(q)]}]
    /\ UNCHANGED <<run, created, completed, actions>>

\* The caller gets an error and nothing is recorded.
Refuses(q) ==
    /\ ~Repeats(q)
    /\ \/ q.kind = "InvalidDispatch"
       \/ q.kind = "Cancel" /\ ~CancelAccepted(q)
    /\ UNCHANGED <<run, created, completed, actions, told>>

process_pending ==
    /\ phase = "requests"
    /\ requests # << >>
    /\ LET q == Head(requests) IN
          \/ prepare_styrene_a2a_dispatch(q)
          \/ prepare_styrene_a2a_cancel(q)
          \/ AnswersDuplicate(q)
          \/ Refuses(q)
    /\ requests' = Tail(requests)
    /\ UNCHANGED <<asked, phase, snapshot, attach, orchVars, worldVars>>

Projection(p) ==
    [r \in RunIds |-> IF Known(r) /\ run[r].parent = p THEN run[r].state ELSE "Absent"]

\* Only the parents of active runs are refreshed.
ActiveParents == {run[r].parent : r \in {q \in RunIds : Known(q) /\ ~is_terminal(run[q])}}

sync_managed_agent_projection_snapshot ==
    /\ phase = "requests"
    /\ requests = << >>
    /\ snapshot' = [p \in Parents |-> IF p \in ActiveParents THEN Projection(p)
                                                            ELSE snapshot[p]]
    /\ phase' = "send"
    /\ UNCHANGED <<run, created, completed, actions, attach, bridgeVars, orchVars,
                   worldVars>>

-----------------------------------------------------------------------------
(***************************************************************************)
(* The orchestrator.  Whatever it does next, it first waits for room to    *)
(* send the event it owes.                                                 *)
(***************************************************************************)

send_event ==
    /\ owed # NoEvent
    /\ Len(events) < EventCapacity
    /\ events' = Append(events, owed)
    /\ owed' = NoEvent
    /\ UNCHANGED <<commands, orch, attach, loopVars, bridgeVars, worldVars>>

Reconnects(ok) ==
    /\ orch = "connecting"
    /\ owed = NoEvent
    /\ orch' = IF ok THEN "serving" ELSE "connecting"
    /\ owed' = Notice
    /\ UNCHANGED <<commands, events, attach, loopVars, bridgeVars, worldVars>>

TakesCommand ==
    /\ orch = "serving"
    /\ owed = NoEvent
    /\ commands # << >>
    /\ commands' = Tail(commands)
    /\ UNCHANGED <<events, attach, loopVars, bridgeVars, toApp, tasks>>

publish ==
    /\ TakesCommand
    /\ toWorker' = toWorker \cup {Head(commands)}
    /\ owed' = Notice
    /\ UNCHANGED orch

\* The command has left the channel and is not put back; it may or may not
\* have reached the broker before the error.
PublishFails ==
    /\ TakesCommand
    /\ toWorker' \in {toWorker, toWorker \cup {Head(commands)}}
    /\ owed' = Notice
    /\ orch' = "connecting"

\* What the broker may hold after it delivers m: delivery is at least once.
AfterDelivery(held, m) ==
    IF Reliable THEN {held \ {m}} ELSE {held, held \ {m}}

\* Outcomes are delivered in any order.
receive_event(m) ==
    /\ orch = "serving"
    /\ owed = NoEvent
    /\ m \in toApp
    /\ toApp' \in AfterDelivery(toApp, m)
    /\ owed' = m
    /\ UNCHANGED <<commands, events, orch, attach, loopVars, bridgeVars, toWorker, tasks>>

\* The connection is lost, or an envelope that is not an outcome for this
\* agent arrives: both end the connection.
ReceiveFails ==
    /\ orch = "serving"
    /\ owed = NoEvent
    /\ orch' = "connecting"
    /\ owed' = Notice
    /\ UNCHANGED <<commands, events, attach, loopVars, bridgeVars, worldVars>>

-----------------------------------------------------------------------------
(***************************************************************************)
(* The broker and the worker (external).                                   *)
(***************************************************************************)

\* A command outlives its TTL, or an outcome the MQTT session of an app that
\* is away.
MessageExpires ==
    /\ ~Reliable
    /\ \/ \E c \in toWorker : toWorker' = toWorker \ {c} /\ UNCHANGED toApp
       \/ /\ orch = "connecting"
          /\ \E m \in toApp : toApp' = toApp \ {m}
          /\ UNCHANGED toWorker
    /\ UNCHANGED <<attach, loopVars, bridgeVars, orchVars, tasks>>

\* The task of run r becomes state and the outcome type is published.
Reaches(r, state, type) ==
    /\ tasks' = [tasks EXCEPT ![r] = state]
    /\ toApp' = toApp \cup {[type |-> type, run |-> r]}
    /\ UNCHANGED <<attach, loopVars, bridgeVars, orchVars>>

\* The worker deduplicates dispatches by task id.
WorkerDispatch(r) ==
    /\ [kind |-> "Dispatch", run |-> r] \in toWorker
    /\ toWorker' \in AfterDelivery(toWorker, [kind |-> "Dispatch", run |-> r])
    /\ \/ tasks[r] = "none" /\ Reaches(r, "running", "Accepted")
       \/ tasks[r] = "none" /\ Reaches(r, "unsuccessful", "Failed")
       \/ tasks[r] # "none" /\ Reaches(r, tasks[r], "Duplicate")

\* A cancellation is accepted or carried out at once; without a task under
\* way it has no effect.
WorkerCancel(r) ==
    /\ [kind |-> "Cancel", run |-> r] \in toWorker
    /\ toWorker' \in AfterDelivery(toWorker, [kind |-> "Cancel", run |-> r])
    /\ \/ /\ tasks[r] \in {"running", "cancelling"}
          /\ \/ Reaches(r, "cancelling", "CancellationAccepted")
             \/ Reaches(r, "cancelled", "TerminationConfirmed")
       \/ /\ tasks[r] \notin {"running", "cancelling"}
          /\ UNCHANGED <<tasks, toApp, attach, loopVars, bridgeVars, orchVars>>

TaskEnds(r) ==
    /\ \/ tasks[r] \in {"running", "cancelling"} /\ Reaches(r, "succeeded", "Completed")
       \/ tasks[r] \in {"running", "cancelling"} /\ Reaches(r, "unsuccessful", "Failed")
       \/ tasks[r] = "cancelling" /\ Reaches(r, "cancelled", "TerminationConfirmed")
    /\ UNCHANGED toWorker

-----------------------------------------------------------------------------
AppLoop ==
    \/ SendAction
    \/ RejectActions
    \/ ActionsSent
    \/ apply_event
    \/ EventsDrained
    \/ process_pending
    \/ sync_managed_agent_projection_snapshot

Orchestrator ==
    \/ send_event
    \/ \E ok \in BOOLEAN : Reconnects(ok)
    \/ publish
    \/ PublishFails
    \/ \E m \in toApp : receive_event(m)
    \/ ReceiveFails

World ==
    \/ MessageExpires
    \/ \E r \in RunIds : WorkerDispatch(r) \/ WorkerCancel(r) \/ TaskEnds(r)

Next ==
    \/ ClientSends
    \/ \E ok \in BOOLEAN : spawn_and_attach_omegon_with_bridge(ok)
    \/ AppLoop
    \/ Orchestrator
    \/ World

Spec == Init /\ [][Next]_vars

-----------------------------------------------------------------------------
(***************************************************************************)
(* Safety.                                                                 *)
(***************************************************************************)

\* The task reached the outcome that a run state or an outcome message says.
Real(task, claim) ==
    /\ claim = "Completed" => task = "succeeded"
    /\ claim = "Failed" => task = "unsuccessful"
    /\ claim \in {"Cancelled", "TerminationConfirmed"} => task = "cancelled"

\* An outcome the supervisor holds, and one the bridge reports, is one the
\* worker reached, whatever the broker repeats, reorders or loses
\* (apply_a2a_event, sync_managed_agent_projection_snapshot).
OutcomesAreReal ==
    \A r \in RunIds :
        /\ Real(tasks[r], run[r].state)
        /\ \A p \in Parents : Real(tasks[r], snapshot[p][r])

\* The inductive strengthening of OutcomesAreReal: an outcome on its way is
\* real however late it is applied.
MessagesAreReal ==
    /\ \A m \in toApp : Real(tasks[m.run], m.type)
    /\ \A i \in DOMAIN events : events[i] \in Outcomes =>
                                  Real(tasks[events[i].run], events[i].type)
    /\ owed \in Outcomes => Real(tasks[owed.run], owed.type)

\* However often a client repeats an operation, every answer names the same
\* run, and the next repeat will be told that run too: a repeated dispatch
\* starts nothing (completed_operations).
OneRunPerOperation == \A k \in Keys : told[k] \subseteq {completed[k]}

\* A run is cancelled, at the supervisor or at the worker, only when the
\* session that dispatched it asked for that: a caller cannot reach the runs
\* of another parent (managed_agent_run_projection in apply).
CancelledOnRequest ==
    \A r \in RunIds :
        /\ Known(r)
        /\ \/ run[r].state \in {"Cancelling", "Cancelled"}
           \/ tasks[r] \in {"cancelling", "cancelled"}
        => <<run[r].parent, r>> \in asked

\* A run that has ended stays as it ended as long as the controller lives,
\* although outcomes are repeated and reordered.
TerminalIsFinal ==
    [][\A r \in RunIds :
          Known(r) /\ is_terminal(run[r]) /\ attach' = attach
              => run'[r] = run[r]]_vars

\* An operation that is answered as done has a run the supervisor holds: a
\* repeated dispatch is never answered with a success that no longer stands.
CompletedRunsAreKnown ==
    \A k \in Keys : completed[k] # NoRun => Known(completed[k])

-----------------------------------------------------------------------------
(***************************************************************************)
(* Liveness.                                                               *)
(*                                                                         *)
(* The app loop and the orchestrator are tasks that run whenever they can. *)
(* Clients refill a channel far more slowly than try_recv empties it, so a *)
(* drain ends.  The broker is reached some time when it is tried again and *)
(* again, and delivers what it holds.                                      *)
(***************************************************************************)

\* The orchestrator hands on an outcome that ends run r.
ReceivesEnd(r) ==
    \E m \in toApp : /\ m.run = r
                     /\ m.type \in {"Completed", "Failed", "TerminationConfirmed"}
                     /\ receive_event(m)

Fairness ==
    /\ WF_vars(AppLoop)
    /\ SF_vars(EventsDrained)
    /\ SF_vars(sync_managed_agent_projection_snapshot)
    /\ WF_vars(send_event)
    /\ SF_vars(Reconnects(TRUE))
    /\ \A r \in RunIds : SF_vars(ReceivesEnd(r))

FairSpec == Spec /\ Fairness

\* When a task has ended the supervisor learns of it, through any number of
\* lost connections, as long as the broker does not drop the outcome.
EndIsNoticed ==
    \A r \in RunIds :
        (Known(r) /\ tasks[r] \in {"succeeded", "unsuccessful", "cancelled"}) ~>
            (~Known(r) \/ is_terminal(run[r]))

\* What the loop still has to send fits the channel.  Past that the loop waits
\* for the orchestrator, which may be waiting for the loop to take events.
CommandsFit == Len(commands) + Len(actions) <= CommandCapacity

\* The app loop never stops in the middle of an iteration while its commands
\* fit the channel (send_action, process_pending), whatever the orchestrator's
\* connection and event channel do.
LoopKeepsTurning == []CommandsFit => []<>(phase = "requests")

\* The status the bridge reports for a run that has ended says so in the end
\* (sync_managed_agent_projection_snapshot).
EndIsReported ==
    \A p \in Parents, r \in RunIds :
        (run[r].parent = p /\ is_terminal(run[r])) ~>
            (~Known(r) \/ snapshot[p][r] \in TerminalStates)

=============================================================================
