------------------------ MODULE ManagedAgentControl ------------------------
(***************************************************************************)
(* Managed-agent supervision over the Omegon control WebSocket.            *)
(*                                                                         *)
(*   AppController      dispatch_managed_agent, cancel_managed_agent,      *)
(*                      tick_managed_agents, drain_all_instance_sessions   *)
(*   supervisor runtime the runs and the ledger of commands sent for them  *)
(*   event stream       one WebSocket task per instance: outbox, inbox,    *)
(*                      reconnection                                       *)
(*   worker             the Omegon instance (external), which executes the *)
(*                      tasks, deduplicates command ids and answers        *)
(*                                                                         *)
(* The controller runs on one task: its operations interleave with the     *)
(* stream tasks and the workers, never with each other.                    *)
(*                                                                         *)
(* A drain hands over the transport events of an inbox before its control  *)
(* messages, whatever order they arrived in, so the two are separate       *)
(* queues and no control message is applied while a transport event waits. *)
(* A drain is taken one event at a time: applying the second of two events *)
(* in a later drain is what the code does when that event arrives later.   *)
(***************************************************************************)
EXTENDS ManagedAgentRun, Sequences, FiniteSets

CONSTANTS
    Runs,             \* identities of managed runs
    Workers,          \* worker identities
    Instances,        \* Omegon instances the app may hold a session with
    worker_id,        \* worker_id[r]: the worker run r is dispatched to
    target,           \* target[r]: the instance run r is dispatched to
    Droppable,        \* instances the lifecycle policy may detach
    AckKinds,         \* delivery answers the workers send, if they send one
    ConcurrentWorker, \* may a worker's answers overtake each other?
    MaxCommands,      \* bound on the commands registered for one run
    MaxInbox          \* bound on the events waiting for one instance

ASSUME ControlAssumption ==
    /\ target \in [Runs -> Instances]
    /\ worker_id \in [Runs -> Workers]
    /\ Droppable \subseteq Instances
    /\ AckKinds \subseteq {"ack", "receipt"}
    /\ ConcurrentWorker \in BOOLEAN
    /\ MaxCommands \in Nat \ {0}
    /\ MaxInbox \in Nat \ {0}

VARIABLES
    run,          \* run[r]: the supervisor's record of run r
    ledger,       \* ledger[r][c]: command c of run r and its delivery state
    deadlineDue,  \* runs whose supervisor deadline has passed
    session,      \* session[i]: is there an InstanceSession for i?
    link,         \* link[i]: the socket of i's event stream
    outbox,       \* outbox[r]: commands queued on the stream of target[r]
    events,       \* events[i]: transport events in i's inbox
    answers,      \* answers[i]: messages from i, in its inbox or on the wire
    tasks,        \* tasks[r][t]: task t the worker executes for run r
    seen          \* seen[r]: command ids the worker has admitted

supervisorVars == <<run, ledger, deadlineDue>>
streamVars == <<session, link, outbox, events, answers>>
workerVars == <<tasks, seen>>
vars == <<run, ledger, deadlineDue, session, link, outbox, events, answers,
          tasks, seen>>

-----------------------------------------------------------------------------
CommandKinds == {"Dispatch", "Poll", "Cancel"}

DeliveryStates == {"Pending", "Accepted", "Duplicate", "RetryPending",
                   "Rejected", "ProvenByResult"}

\* The states in which a command is still replayed.
Unsettled == {"Pending", "RetryPending"}

Commands == [kind : CommandKinds, state : DeliveryStates, task : Nat]

MessageTypes == {"ack", "receipt", "dispatch_result", "get_result",
                 "result_result", "cancel_result", "rejection"}

MessageStatuses ==
    ObservationStatuses \cup
    {"accepted", "duplicate", "retryable", "rejected",
     "confirmed", "acknowledged", "refused", "none"}

Messages ==
    {m \in [type : MessageTypes, run : Runs, cmd : Nat, task : Nat,
            status : MessageStatuses] :
        m.type = "get_result" => m.status \in ObservationStatuses}

Message(type, r, c, task, status) ==
    [type |-> type, run |-> r, cmd |-> c, task |-> task, status |-> status]

TransportEvents == {"connected", "disconnected"}

TaskStates == {"running", "succeeded", "unsuccessful", "cancelling",
               "cancelled"}

Absent == [state |-> "Absent", task |-> NoTask]

Known(r) == run[r].state # "Absent"

\* Mutant: transport events reach runs that have ended.
ActiveOrEnded(r) == Known(r)

Active(r) == Known(r) /\ ~is_terminal(run[r])

RunsOn(i) == {r \in Runs : target[r] = i}

\* Runs, commands, queues and tasks have the shapes the code gives them.
TypeOK ==
    /\ run \in [Runs -> [state : RunStates \cup {"Absent"}, task : Nat]]
    /\ ledger \in [Runs -> Seq(Commands)]
    /\ deadlineDue \subseteq Runs
    /\ session \in [Instances -> BOOLEAN]
    /\ link \in [Instances -> {"down", "up", "cancelled"}]
    /\ outbox \in [Runs -> SUBSET Nat]
    /\ events \in [Instances -> Seq(TransportEvents)]
    /\ answers \in [Instances -> Seq(Messages)]
    /\ tasks \in [Runs -> Seq(TaskStates)]
    /\ seen \in [Runs -> SUBSET Nat]

Init ==
    /\ run = [r \in Runs |-> Absent]
    /\ ledger = [r \in Runs |-> << >>]
    /\ deadlineDue = {}
    /\ session = [i \in Instances |-> FALSE]
    /\ link = [i \in Instances |-> "down"]
    /\ outbox = [r \in Runs |-> {}]
    /\ events = [i \in Instances |-> << >>]
    /\ answers = [i \in Instances |-> << >>]
    /\ tasks = [r \in Runs |-> << >>]
    /\ seen = [r \in Runs |-> {}]

-----------------------------------------------------------------------------
(***************************************************************************)
(* The command ledger.  Command ids are positions in the run's ledger.     *)
(***************************************************************************)

register_command(kind, task) ==
    [kind |-> kind, state |-> "Pending", task |-> task]

\* Model bound: polls leave the last ledger slot to a cancel.
HasRoom(r, kind) ==
    IF kind = "Poll" THEN Len(ledger[r]) + 1 < MaxCommands
                     ELSE Len(ledger[r]) < MaxCommands

PollPending(r) ==
    \E c \in DOMAIN ledger[r] :
        ledger[r][c].kind = "Poll" /\ ledger[r][c].state = "Pending"

\* dispatch_to_instance: queue on the stream of the run's instance, or fail
\* when there is no session.
Queued(r, cs) == IF session[target[r]] THEN outbox[r] \cup cs ELSE outbox[r]

-----------------------------------------------------------------------------
(***************************************************************************)
(* Controller operations.                                                  *)
(***************************************************************************)

dispatch_managed_agent(r) ==
    /\ session[target[r]]
    /\ ~Known(r)
    /\ run' = [run EXCEPT ![r] = [state |-> "Dispatching", task |-> NoTask]]
    /\ ledger' = [ledger EXCEPT ![r] = <<register_command("Dispatch", NoTask)>>]
    /\ outbox' = [outbox EXCEPT ![r] = Queued(r, {1})]
    /\ UNCHANGED <<deadlineDue, session, link, events, answers, workerVars>>

\* The run is Cancelling before the cancel request is built, and stays so
\* when building it fails on an oversized reason.
cancel_managed_agent(r, oversized) ==
    /\ Known(r)
    /\ run[r].task # NoTask
    /\ accepts_cancellation_request(run[r])
    /\ HasRoom(r, "Cancel")
    /\ run' = [run EXCEPT ![r] = request_cancellation(@)]
    /\ IF oversized
       THEN UNCHANGED <<ledger, outbox>>
       ELSE /\ ledger' = [ledger EXCEPT
                           ![r] = Append(@, register_command("Cancel", run[r].task))]
            /\ outbox' = [outbox EXCEPT ![r] = Queued(r, {Len(ledger[r]) + 1})]
    /\ UNCHANGED <<deadlineDue, session, link, events, answers, workerVars>>

\* The outer deadline of a run passes.
DeadlinePasses(r) ==
    /\ Known(r)
    /\ r \notin deadlineDue
    /\ deadlineDue' = deadlineDue \cup {r}
    /\ UNCHANGED <<run, ledger, streamVars, workerVars>>

\* expire_dispatches_for, the first thing a tick does.  late is the set of
\* runs dispatched longer ago than the acceptance timeout.
AfterExpiry(r, late) ==
    IF accepts_dispatch_timeout(run[r]) /\ r \in late
    THEN mark_dispatch_timed_out(run[r])
    ELSE run[r]

\* The runs a tick acts on: active after expiry, and neither disconnected
\* nor waiting for a cancellation.
Scheduled(r, late) ==
    /\ Known(r)
    /\ ~is_terminal(AfterExpiry(r, late))
    /\ run[r].state \notin {"Disconnected", "Cancelling"}

\* cancel_command succeeds for a run past its deadline.
CancelsExpired(r, late) ==
    /\ Scheduled(r, late)
    /\ r \in deadlineDue
    /\ run[r].task # NoTask
    /\ accepts_cancellation_request(run[r])
    /\ HasRoom(r, "Cancel")

\* poll_command succeeds for a run within its deadline.
Polls(r, late) ==
    /\ Scheduled(r, late)
    /\ r \notin deadlineDue
    /\ ~PollPending(r)
    /\ run[r].task # NoTask
    /\ HasRoom(r, "Poll")

\* The command a tick registers for r, if any.
Issued(r, late) ==
    IF CancelsExpired(r, late) THEN <<register_command("Cancel", run[r].task)>>
    ELSE IF Polls(r, late) THEN <<register_command("Poll", run[r].task)>>
    ELSE << >>

IssuedIds(r, late) ==
    IF Issued(r, late) = << >> THEN {} ELSE {Len(ledger[r]) + 1}

\* Commands still waiting to be answered.
Unanswered(r) == {c \in DOMAIN ledger[r] : ledger[r][c].state \in Unsettled}

\* overdue[r] is the set of commands last sent longer ago than the receipt
\* timeout.  The state of the run plays no part in their replay.
replay_due_commands(r, overdue) ==
    [c \in DOMAIN ledger[r] |->
        IF c \in overdue[r] THEN [ledger[r][c] EXCEPT !.state = "Pending"]
                            ELSE ledger[r][c]]

\* Mutant: an overdue dispatch is sent again under a new command id.
TickWithFreshIds(late, overdue) ==
    LET fresh(r) == 1 \in overdue[r] /\ HasRoom(r, "Dispatch") IN
    /\ run' = [r \in Runs |-> AfterExpiry(r, late)]
    /\ ledger' = [r \in Runs |->
                    IF fresh(r) THEN Append(ledger[r], register_command("Dispatch", NoTask))
                                ELSE ledger[r]]
    /\ outbox' = [r \in Runs |->
                    IF fresh(r) THEN Queued(r, {Len(ledger[r]) + 1}) ELSE outbox[r]]
    /\ UNCHANGED <<deadlineDue, session, link, events, answers, workerVars>>

\* Mutant: the commands of a run that has ended are not replayed.
TickReplaysActiveRuns(late, overdue) ==
    /\ run' = [r \in Runs |-> IF CancelsExpired(r, late)
                              THEN request_cancellation(run[r])
                              ELSE AfterExpiry(r, late)]
    /\ ledger' = [r \in Runs |-> replay_due_commands(r, overdue) \o Issued(r, late)]
    /\ outbox' = [r \in Runs |->
                    Queued(r, IssuedIds(r, late) \cup IF Active(r) THEN overdue[r] ELSE {})]
    /\ UNCHANGED <<deadlineDue, session, link, events, answers, workerVars>>

Tick(late, overdue) ==
    /\ run' = [r \in Runs |-> IF CancelsExpired(r, late)
                              THEN request_cancellation(run[r])
                              ELSE AfterExpiry(r, late)]
    /\ ledger' = [r \in Runs |-> replay_due_commands(r, overdue) \o Issued(r, late)]
    /\ outbox' = [r \in Runs |-> Queued(r, IssuedIds(r, late) \cup overdue[r])]
    /\ UNCHANGED <<deadlineDue, session, link, events, answers, workerVars>>

\* The runs whose dispatch has not been accepted yet.
Dispatching == {r \in Runs : accepts_dispatch_timeout(run[r])}

\* A tick finds some dispatches late and some commands overdue.
tick_managed_agents ==
    \E late \in SUBSET Dispatching :
        \E overdue \in [Runs -> SUBSET (1..MaxCommands)] :
            /\ \A r \in Runs : overdue[r] \subseteq Unanswered(r)
            /\ Tick(late, overdue)

-----------------------------------------------------------------------------
(***************************************************************************)
(* Draining the instance sessions.                                         *)
(***************************************************************************)

\* A transport event concerns every run of every worker that has a run on
\* the instance.
Affected(i) ==
    {r \in Runs : \E q \in Runs : /\ Known(q)
                                  /\ target[q] = i
                                  /\ worker_id[q] = worker_id[r]}

MarkWorkers(i, event) ==
    [r \in Runs |->
        IF ~(Active(r) /\ r \in Affected(i)) THEN run[r]
        ELSE IF event = "connected" THEN mark_reconnected(run[r])
        ELSE mark_disconnected(run[r])]

ApplyTransportEvent(i) ==
    /\ events[i] # << >>
    /\ run' = MarkWorkers(i, Head(events[i]))
    /\ events' = [events EXCEPT ![i] = Tail(@)]
    /\ UNCHANGED <<ledger, deadlineDue, session, link, outbox, answers, workerVars>>

\* apply_receipt_json: the delivery state is overwritten whatever it was.
ReceiptState(m) ==
    CASE m.status = "accepted"  -> "Accepted"
      [] m.status = "duplicate" -> "Duplicate"
      [] OTHER                  -> "Rejected"

\* Mutant: an ack changes a settled delivery.
AckStateAlways(cmd, m) ==
    IF cmd.task # m.task THEN cmd.state
    ELSE CASE m.status = "accepted"  -> "Accepted"
           [] m.status = "retryable" -> "RetryPending"
           [] OTHER                  -> "Rejected"

\* apply_command_ack_json: only an unsettled command listens to an ack.
AckState(cmd, m) ==
    IF cmd.state \notin Unsettled \/ cmd.task # m.task THEN cmd.state
    ELSE CASE m.status = "accepted"  -> "Accepted"
           [] m.status = "retryable" -> "RetryPending"
           [] OTHER                  -> "Rejected"

DeliveryState(cmd, m) ==
    IF m.type = "ack" THEN AckState(cmd, m) ELSE ReceiptState(m)

IsDelivery(m) == m.type \in {"ack", "receipt"}

\* Mutant: the instance a message comes from is not checked.
RoutedFromAnywhere(i, m) == Known(m.run)

\* Deliveries and results alike are taken only from the run's own instance.
Routed(i, m) == Known(m.run) /\ target[m.run] = i

ApplyDelivery(i, m) ==
    /\ IsDelivery(m)
    /\ ledger' = IF Routed(i, m) /\ m.cmd \in DOMAIN ledger[m.run]
                 THEN [ledger EXCEPT ![m.run][m.cmd].state =
                                       DeliveryState(ledger[m.run][m.cmd], m)]
                 ELSE ledger
    /\ UNCHANGED run

ResponseKind(m) ==
    CASE m.type = "dispatch_result" -> "Dispatch"
      [] m.type = "cancel_result"   -> "Cancel"
      [] OTHER                      -> "Poll"

\* Does apply_response_json reach its end without an error?  The response is
\* checked against the run (validate_for), then the run takes the transition.
AcceptsResponse(m) ==
    LET it == run[m.run] IN
    CASE m.type = "dispatch_result" -> accepts_dispatch(it)
      [] m.type = "get_result"      -> accepts_observation(it, m.task, m.status)
      [] m.type = "cancel_result"   -> /\ it.task # NoTask
                                       /\ it.task = m.task
                                       /\ accepts_cancellation_response(it, m.status)
      [] m.type = "result_result"   -> /\ it.task # NoTask
                                       /\ it.task = m.task
                                       /\ accepts_result(it)
      [] OTHER                      -> FALSE

RunAfterResponse(m) ==
    LET it == run[m.run] IN
    CASE m.type = "dispatch_result" -> accept_dispatch(it, m.task)
      [] m.type = "get_result"      -> apply_observation(it, m.status)
      [] m.type = "cancel_result"   -> apply_cancellation_response(it, m.status)
      [] OTHER                      -> complete_from_result(it)

\* The commands a response may prove delivered: an unsettled one of its kind.
\* The code takes the first in the order of random command ids.
Provable(m) ==
    {c \in Unanswered(m.run) : ledger[m.run][c].kind = ResponseKind(m)}

ApplyResponse(i, m) ==
    /\ ~IsDelivery(m)
    /\ IF Routed(i, m) /\ AcceptsResponse(m)
       THEN /\ run' = [run EXCEPT ![m.run] = RunAfterResponse(m)]
            /\ IF Provable(m) = {}
               THEN UNCHANGED ledger
               ELSE \E c \in Provable(m) :
                      ledger' = [ledger EXCEPT ![m.run][c].state = "ProvenByResult"]
       ELSE UNCHANGED <<run, ledger>>

\* The k-th waiting message is taken off the queue.
Without(q, k) == SubSeq(q, 1, k - 1) \o SubSeq(q, k + 1, Len(q))

ApplyControlMessage(i) ==
    /\ \A j \in Instances : events[j] = << >>
    /\ \E k \in DOMAIN answers[i] :
          /\ ConcurrentWorker \/ k = 1
          /\ \/ ApplyDelivery(i, answers[i][k])
             \/ ApplyResponse(i, answers[i][k])
          /\ answers' = [answers EXCEPT ![i] = Without(@, k)]
    /\ UNCHANGED <<deadlineDue, session, link, outbox, events, workerVars>>

-----------------------------------------------------------------------------
(***************************************************************************)
(* The instance sessions and their WebSocket tasks.                        *)
(*                                                                         *)
(* A stream looks at its cancel flag only when it reconnects, so one that  *)
(* is cancelled while connected still sends what it has queued.            *)
(***************************************************************************)

connect_instance_session(i) ==
    /\ ~session[i]
    /\ link[i] = "down"
    /\ session' = [session EXCEPT ![i] = TRUE]
    /\ UNCHANGED <<supervisorVars, link, outbox, events, answers, workerVars>>

\* The session goes with its inbox, unread events included.
disconnect_instance_session(i) ==
    /\ i \in Droppable
    /\ session[i]
    /\ session' = [session EXCEPT ![i] = FALSE]
    /\ link' = [link EXCEPT ![i] = IF @ = "up" THEN "cancelled" ELSE "down"]
    /\ events' = [events EXCEPT ![i] = << >>]
    /\ answers' = [answers EXCEPT ![i] = << >>]
    /\ outbox' = [r \in Runs |-> IF r \in RunsOn(i) /\ link[i] # "up"
                                 THEN {} ELSE outbox[r]]
    /\ UNCHANGED <<supervisorVars, workerVars>>

\* The socket of a cancelled stream closes and the task ends.
StreamEnds(i) ==
    /\ link[i] = "cancelled"
    /\ link' = [link EXCEPT ![i] = "down"]
    /\ outbox' = [r \in Runs |-> IF r \in RunsOn(i) THEN {} ELSE outbox[r]]
    /\ UNCHANGED <<supervisorVars, session, events, answers, workerVars>>

StreamConnects(i) ==
    /\ session[i]
    /\ link[i] = "down"
    /\ Len(events[i]) < MaxInbox
    /\ link' = [link EXCEPT ![i] = "up"]
    /\ events' = [events EXCEPT ![i] = Append(@, "connected")]
    /\ UNCHANGED <<supervisorVars, session, outbox, answers, workerVars>>

StreamFailsToConnect(i) ==
    /\ session[i]
    /\ link[i] = "down"
    /\ Len(events[i]) < MaxInbox
    /\ events' = [events EXCEPT ![i] = Append(@, "disconnected")]
    /\ UNCHANGED <<supervisorVars, session, link, outbox, answers, workerVars>>

\* The connection is lost and the task notices.  Answers that were still on
\* the wire are gone; so are the commands written since it broke, because
\* the outbox is drained before the frames are written.
StreamDisconnects(i) ==
    /\ link[i] = "up"
    /\ Len(events[i]) < MaxInbox
    /\ link' = [link EXCEPT ![i] = "down"]
    /\ events' = [events EXCEPT ![i] = Append(@, "disconnected")]
    /\ \E k \in 0..Len(answers[i]) :
          answers' = [answers EXCEPT ![i] = SubSeq(@, 1, k)]
    /\ \/ outbox' = [r \in Runs |-> IF r \in RunsOn(i) THEN {} ELSE outbox[r]]
       \/ UNCHANGED outbox
    /\ UNCHANGED <<supervisorVars, session, workerVars>>

-----------------------------------------------------------------------------
(***************************************************************************)
(* The worker (external), as the code and its tests expect it: a command   *)
(* id is executed once and acknowledged again when repeated; an answer may *)
(* come with an acknowledgement or a receipt, before or after it, or with  *)
(* neither.                                                                *)
(***************************************************************************)

\* An ack is accepted or rejected, retryably or not; a receipt is accepted,
\* duplicate or rejected.
DeliveryStatuses(kind) ==
    IF kind = "ack" THEN {"accepted", "retryable", "rejected"}
                    ELSE {"accepted", "duplicate", "rejected"}

\* The ways a worker may confirm delivery of command c around its answer.
DeliveryAnswers(r, c, status) ==
    {Message(k, r, c, ledger[r][c].task, status) :
        k \in {kind \in AckKinds : status \in DeliveryStatuses(kind)}}

Replies(r, c, status, answer) ==
    {answer} \cup {<<m>> \o answer : m \in DeliveryAnswers(r, c, status)}
             \cup {answer \o <<m>> : m \in DeliveryAnswers(r, c, status)}

\* What the worker puts on the wire is lost on a cancelled stream.
Sends(r, ms) ==
    answers' = IF link[target[r]] = "up"
               THEN [answers EXCEPT ![target[r]] = @ \o ms]
               ELSE answers

\* The worker takes command c off the stream.
Receives(r, c) ==
    /\ link[target[r]] \in {"up", "cancelled"}
    /\ c \in outbox[r]
    /\ Len(answers[target[r]]) < MaxInbox
    /\ outbox' = [outbox EXCEPT ![r] = @ \ {c}]
    /\ UNCHANGED <<supervisorVars, session, link, events>>

Admits(r, c) ==
    /\ Receives(r, c)
    /\ c \notin seen[r]
    /\ seen' = [seen EXCEPT ![r] = @ \cup {c}]

WorkerRepeatsAnswer(r, c) ==
    /\ Receives(r, c)
    /\ c \in seen[r]
    /\ \E ms \in Replies(r, c, "accepted", << >>) \cup
                 Replies(r, c, "duplicate", << >>) : Sends(r, ms)
    /\ UNCHANGED <<tasks, seen>>

\* Overloaded (retryable) or a terminal delivery rejection: not admitted.
WorkerRefusesDelivery(r, c) ==
    /\ Receives(r, c)
    /\ c \notin seen[r]
    /\ \E ms \in Replies(r, c, "retryable", << >>) \cup
                 Replies(r, c, "rejected", << >>) : Sends(r, ms)
    /\ UNCHANGED <<tasks, seen>>

WorkerStartsTask(r, c) ==
    /\ ledger[r][c].kind = "Dispatch"
    /\ Admits(r, c)
    /\ tasks' = [tasks EXCEPT ![r] = Append(@, "running")]
    /\ LET m == Message("dispatch_result", r, 0, Len(tasks[r]) + 1, "none") IN
       \E ms \in Replies(r, c, "accepted", <<m>>) : Sends(r, ms)

\* The operation is refused although its delivery was accepted.
WorkerDeclines(r, c) ==
    /\ Admits(r, c)
    /\ LET m == Message("rejection", r, 0, 0, "none") IN
       \E ms \in Replies(r, c, "accepted", <<m>>) : Sends(r, ms)
    /\ UNCHANGED tasks

\* What an observation of a task may say.
Observations(state) ==
    CASE state = "running"      -> {"Running"}
      [] state = "succeeded"    -> {"Succeeded", "SucceededEmpty"}
      [] state = "unsuccessful" -> {"Unsuccessful"}
      [] state = "cancelling"   -> {"Running", "CancelledUnconfirmed"}
      [] OTHER                  -> {"Cancelled"}

WorkerReports(r, c) ==
    LET t == ledger[r][c].task IN
    /\ ledger[r][c].kind = "Poll"
    /\ t \in DOMAIN tasks[r]
    /\ Admits(r, c)
    /\ \E status \in Observations(tasks[r][t]) :
          LET m == Message("get_result", r, 0, t, status) IN
          \E ms \in Replies(r, c, "accepted", <<m>>) : Sends(r, ms)
    /\ UNCHANGED tasks

\* A running task is cancelled at once, later, or not at all.
CancelOutcomes(state) ==
    CASE state = "running"    -> {<<"cancelled", "confirmed">>,
                                  <<"cancelling", "acknowledged">>,
                                  <<"running", "refused">>}
      [] state = "cancelling" -> {<<"cancelling", "acknowledged">>}
      [] state = "cancelled"  -> {<<"cancelled", "confirmed">>}
      [] OTHER                -> {<<state, "refused">>}

WorkerCancels(r, c) ==
    LET t == ledger[r][c].task IN
    /\ ledger[r][c].kind = "Cancel"
    /\ t \in DOMAIN tasks[r]
    /\ Admits(r, c)
    /\ \E outcome \in CancelOutcomes(tasks[r][t]) :
          LET m == Message("cancel_result", r, 0, t, outcome[2]) IN
          /\ tasks' = [tasks EXCEPT ![r][t] = outcome[1]]
          /\ \E ms \in Replies(r, c, "accepted", <<m>>) : Sends(r, ms)

WorkerHandles(r) ==
    \E c \in outbox[r] \cap DOMAIN ledger[r] :
        \/ WorkerRepeatsAnswer(r, c)
        \/ WorkerRefusesDelivery(r, c)
        \/ WorkerStartsTask(r, c)
        \/ WorkerDeclines(r, c)
        \/ WorkerReports(r, c)
        \/ WorkerCancels(r, c)

TaskEnds(r) ==
    /\ \E t \in DOMAIN tasks[r] :
          \/ /\ tasks[r][t] \in {"running", "cancelling"}
             /\ \E end \in {"succeeded", "unsuccessful"} :
                   tasks' = [tasks EXCEPT ![r][t] = end]
          \/ /\ tasks[r][t] = "cancelling"
             /\ tasks' = [tasks EXCEPT ![r][t] = "cancelled"]
    /\ UNCHANGED <<supervisorVars, streamVars, seen>>

\* A worker may send the full result of a task that succeeded.
WorkerSendsResult(r) ==
    /\ link[target[r]] = "up"
    /\ Len(answers[target[r]]) < MaxInbox
    /\ \E t \in DOMAIN tasks[r] :
          /\ tasks[r][t] = "succeeded"
          /\ Sends(r, <<Message("result_result", r, 0, t, "none")>>)
    /\ UNCHANGED <<supervisorVars, session, link, outbox, events, workerVars>>

\* Another instance sends a message that carries the identities of run r.
InstanceStrays(i, r) ==
    /\ i # target[r]
    /\ link[i] = "up"
    /\ Len(answers[i]) < MaxInbox
    /\ \E m \in {Message("ack", r, 1, NoTask, "accepted"),
                 Message("dispatch_result", r, 0, 1, "none"),
                 Message("get_result", r, 0, 1, "Succeeded"),
                 Message("cancel_result", r, 0, 1, "confirmed")} :
          answers' = [answers EXCEPT ![i] = Append(@, m)]
    /\ UNCHANGED <<supervisorVars, session, link, outbox, events, workerVars>>

-----------------------------------------------------------------------------
Next ==
    \/ tick_managed_agents
    \/ \E r \in Runs : \/ dispatch_managed_agent(r)
                       \/ \E oversized \in BOOLEAN : cancel_managed_agent(r, oversized)
                       \/ DeadlinePasses(r)
                       \/ WorkerHandles(r)
                       \/ TaskEnds(r)
                       \/ WorkerSendsResult(r)
    \/ \E i \in Instances : \/ ApplyTransportEvent(i)
                            \/ ApplyControlMessage(i)
                            \/ connect_instance_session(i)
                            \/ disconnect_instance_session(i)
                            \/ StreamEnds(i)
                            \/ StreamConnects(i)
                            \/ StreamFailsToConnect(i)
                            \/ StreamDisconnects(i)
                            \/ \E r \in Runs : InstanceStrays(i, r)

Spec == Init /\ [][Next]_vars

-----------------------------------------------------------------------------
(***************************************************************************)
(* Safety.                                                                 *)
(***************************************************************************)

\* The task state an outcome of a run claims.
Claimed(state) ==
    CASE state = "Completed" -> "succeeded"
      [] state = "Failed"    -> "unsuccessful"
      [] OTHER               -> "cancelled"

\* An outcome the supervisor holds is one the worker reached: a run is
\* Completed, Failed or Cancelled only if its own task succeeded, ended
\* unsuccessfully, or really terminated.  It takes the routing and identity
\* checks on responses (apply_response_json) and the two-phase cancellation
\* (apply_cancellation_response) together.
OutcomesAreReal ==
    \A r \in Runs :
        run[r].state \in {"Completed", "Failed", "Cancelled"} =>
            /\ run[r].task \in DOMAIN tasks[r]
            /\ tasks[r][run[r].task] = Claimed(run[r].state)

\* The task of m's run that m speaks of ended as the given state says.
Ended(m, state) ==
    m.task \in DOMAIN tasks[m.run] /\ tasks[m.run][m.task] = state

\* An answer that claims an outcome speaks of a task that reached it.
Justified(m) ==
    /\ m.type = "get_result" /\ m.status = "Succeeded"    => Ended(m, "succeeded")
    /\ m.type = "get_result" /\ m.status = "Unsuccessful" => Ended(m, "unsuccessful")
    /\ m.type = "get_result" /\ m.status = "Cancelled"    => Ended(m, "cancelled")
    /\ m.type = "cancel_result" /\ m.status = "confirmed" => Ended(m, "cancelled")
    /\ m.type = "result_result"                           => Ended(m, "succeeded")

\* The inductive strengthening of OutcomesAreReal: answers still under way
\* from a run's own instance are justified, however late they are read.
AnswersAreJustified ==
    \A i \in Instances : \A k \in DOMAIN answers[i] :
        target[answers[i][k].run] = i => Justified(answers[i][k])

\* A dispatch is executed at most once, however often it is replayed: every
\* replay carries the command id of the original (replay_due_commands).
ExecutesOnce == \A r \in Runs : Len(tasks[r]) <= 1

\* The inductive strengthening of ExecutesOnce: only the first command of a
\* run is a dispatch, and a task means that it has been admitted.
OneDispatch ==
    \A r \in Runs :
        /\ \A c \in DOMAIN ledger[r] : ledger[r][c].kind = "Dispatch" => c = 1
        /\ tasks[r] # << >> => 1 \in seen[r]

\* A run that has ended stays as it ended, whatever arrives late.
TerminalIsFinal ==
    [][\A r \in Runs : Known(r) /\ is_terminal(run[r]) => run'[r] = run[r]]_vars

\* A settled delivery is not opened again or settled differently by a late
\* acknowledgement (apply_command_ack_json).
SettledIsFinal ==
    [][\A r \in Runs : \A c \in DOMAIN ledger[r] :
          ledger[r][c].state \notin Unsettled => ledger'[r][c] = ledger[r][c]]_vars

-----------------------------------------------------------------------------
(***************************************************************************)
(* Liveness.                                                               *)
(*                                                                         *)
(* The app loop ticks and drains for ever and time passes, so every timer  *)
(* is eventually seen elapsed.  A stream keeps reconnecting.  A worker     *)
(* that is sent a command again and again answers it some time with an     *)
(* acceptance, and that answer is read some time: strong fairness, because *)
(* the connection may fail, or the worker be overloaded, in between.       *)
(***************************************************************************)

TickEverythingDue == Tick(Dispatching, [r \in Runs |-> Unanswered(r)])

\* The worker accepts command c, or repeats that it has.
WorkerAccepts(r, c) ==
    /\ \/ WorkerRepeatsAnswer(r, c)
       \/ WorkerStartsTask(r, c)
       \/ WorkerReports(r, c)
       \/ WorkerCancels(r, c)
    /\ \E k \in DOMAIN answers'[target[r]] :
          LET m == answers'[target[r]][k] IN
          IsDelivery(m) /\ m.run = r /\ m.cmd = c /\ m.status = "accepted"

Fairness ==
    /\ WF_vars(TickEverythingDue)
    /\ \A i \in Instances : /\ WF_vars(ApplyTransportEvent(i))
                            /\ SF_vars(ApplyControlMessage(i))
                            /\ WF_vars(connect_instance_session(i))
                            /\ SF_vars(StreamConnects(i))
    /\ \A r \in Runs : /\ WF_vars(DeadlinePasses(r))
                       /\ \A c \in 1..MaxCommands :
                             SF_vars(c \in DOMAIN ledger[r] /\ WorkerAccepts(r, c))

FairSpec == Spec /\ Fairness

\* The connection to i fails any number of times, but not for ever.
Stabilises(i) == <>[](link[i] = "up")

\* Every command is answered in the end, through any number of lost frames,
\* reconnections, overload rejections and dropped acknowledgements, because
\* an unsettled command is replayed until it settles (replay_due_commands).
EveryCommandSettles ==
    \A r \in Runs : \A c \in 1..MaxCommands :
        Stabilises(target[r]) =>
            ((c \in DOMAIN ledger[r] /\ c \in Unanswered(r)) ~>
                (c \in DOMAIN ledger[r] /\ c \notin Unanswered(r)))

\* A run past its outer deadline is brought to an end, or at least told to
\* stop (tick_managed_agents, "supervisor deadline exceeded").
DeadlineIsEnforced ==
    \A r \in Runs :
        (Known(r) /\ r \in deadlineDue) ~>
            (is_terminal(run[r]) \/ run[r].state = "Cancelling")

=============================================================================
