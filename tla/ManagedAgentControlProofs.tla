--------------------- MODULE ManagedAgentControlProofs ---------------------
(***************************************************************************)
(* Proofs about ManagedAgentControl, for any number of runs, workers and   *)
(* instances, any bound and any choice of acknowledgements.                *)
(***************************************************************************)
EXTENDS ManagedAgentControl, SequenceTheorems, TLAPS

\* A sequence is defined on 1..Len and its elements belong to its base set.
LEMMA SeqElements ==
    ASSUME NEW S, NEW q \in Seq(S)
    PROVE  /\ Len(q) \in Nat
           /\ DOMAIN q = 1..Len(q)
           /\ \A k \in DOMAIN q : k \in Nat /\ k > 0 /\ k <= Len(q) /\ q[k] \in S
OBVIOUS

\* A function on 1..n is a sequence.
LEMMA FunctionIsSeq ==
    ASSUME NEW S, NEW n \in Nat, NEW f \in [1..n -> S]
    PROVE  f \in Seq(S)
OBVIOUS

(***************************************************************************)
(* Lemmas on the operators the model is built from.                        *)
(***************************************************************************)

\* Taking one message off a queue leaves a queue of messages.
LEMMA WithoutType ==
    ASSUME NEW S, NEW q \in Seq(S), NEW k \in DOMAIN q
    PROVE  Without(q, k) \in Seq(S)
<1>1. k \in 1..Len(q) OBVIOUS
<1>2. SubSeq(q, 1, k - 1) \in Seq(S) BY <1>1
<1>3. SubSeq(q, k + 1, Len(q)) \in Seq(S) BY <1>1
<1> QED BY <1>2, <1>3 DEF Without

\* A replay and a tick's new command leave a ledger of commands
\* (replay_due_commands, register_command).
LEMMA LedgerType ==
    ASSUME TypeOK, NEW r \in Runs, NEW late, NEW overdue
    PROVE  /\ replay_due_commands(r, overdue) \in Seq(Commands)
           /\ Issued(r, late) \in Seq(Commands)
<1>1. ledger[r] \in Seq(Commands) /\ run[r].task \in Nat BY DEF TypeOK
<1>2. replay_due_commands(r, overdue) \in [1..Len(ledger[r]) -> Commands]
  <2>1. /\ DOMAIN ledger[r] = 1..Len(ledger[r])
        /\ \A c \in DOMAIN ledger[r] : ledger[r][c] \in Commands
    BY <1>1, SeqElements
  <2>2. \A c \in DOMAIN ledger[r] :
          [ledger[r][c] EXCEPT !.state = "Pending"] \in Commands
    BY <2>1 DEF Commands, DeliveryStates
  <2> QED BY <2>1, <2>2 DEF replay_due_commands
<1>3. replay_due_commands(r, overdue) \in Seq(Commands)
  BY <1>1, <1>2, SeqElements, FunctionIsSeq
<1>4. \A kind \in CommandKinds : register_command(kind, run[r].task) \in Commands
  BY <1>1 DEF register_command, Commands, DeliveryStates
<1>5. Issued(r, late) \in Seq(Commands)
  BY <1>4 DEF Issued, CommandKinds
<1> QED BY <1>3, <1>5

\* What the worker sends about a command is a sequence of messages.
LEMMA RepliesType ==
    ASSUME TypeOK, NEW r \in Runs, NEW c \in DOMAIN ledger[r],
           NEW status \in MessageStatuses, NEW answer \in Seq(Messages),
           NEW ms \in Replies(r, c, status, answer)
    PROVE  ms \in Seq(Messages)
<1>1. ledger[r] \in Seq(Commands) BY DEF TypeOK
<1>2. c \in Nat /\ ledger[r][c].task \in Nat
  <2>1. c \in Nat /\ ledger[r][c] \in Commands BY <1>1, SeqElements
  <2> QED BY <2>1 DEF Commands
<1>3. \A m \in DeliveryAnswers(r, c, status) : m \in Messages
  BY <1>2, ControlAssumption
  DEF DeliveryAnswers, Message, Messages, MessageTypes
<1>4. \A m \in DeliveryAnswers(r, c, status) :
        <<m>> \o answer \in Seq(Messages) /\ answer \o <<m>> \in Seq(Messages)
  BY <1>3
<1> QED BY <1>4 DEF Replies

\* Putting messages on the wire keeps every queue a queue of messages.
LEMMA SendsType ==
    ASSUME TypeOK, NEW r \in Runs, NEW ms \in Seq(Messages), Sends(r, ms)
    PROVE  answers' \in [Instances -> Seq(Messages)]
BY ControlAssumption DEF TypeOK, Sends


\* A message is built with its fields.
LEMMA MessageType ==
    ASSUME NEW type \in MessageTypes, NEW r \in Runs, NEW c \in Nat,
           NEW task \in Nat, NEW status \in MessageStatuses,
           type = "get_result" => status \in ObservationStatuses
    PROVE  Message(type, r, c, task, status) \in Messages
BY DEF Message, Messages

-----------------------------------------------------------------------------
(***************************************************************************)
(* Type correctness.                                                       *)
(***************************************************************************)

LEMMA InitTypeOK == Init => TypeOK
BY DEF Init, TypeOK, Absent, NoTask

\* The supervisor's transitions keep a run a run.
LEMMA RunType ==
    ASSUME TypeOK, NEW r \in Runs
    PROVE  /\ run[r].task \in Nat
           /\ \A s \in RunStates :
                 [run[r] EXCEPT !.state = s] \in [state : RunStates \cup {"Absent"}, task : Nat]
BY DEF TypeOK

LEMMA DispatchTypeOK ==
    ASSUME TypeOK, NEW r \in Runs, dispatch_managed_agent(r)
    PROVE  TypeOK'
<1>1. run' \in [Runs -> [state : RunStates \cup {"Absent"}, task : Nat]]
  BY DEF TypeOK, dispatch_managed_agent, RunStates, NoTask
<1>2. <<register_command("Dispatch", NoTask)>> \in Seq(Commands)
  BY DEF register_command, Commands, CommandKinds, DeliveryStates, NoTask
<1>3. ledger' \in [Runs -> Seq(Commands)]
  BY <1>2 DEF TypeOK, dispatch_managed_agent
<1>4. outbox' \in [Runs -> SUBSET Nat]
  BY DEF TypeOK, dispatch_managed_agent, Queued
<1> QED BY <1>1, <1>3, <1>4 DEF TypeOK, dispatch_managed_agent, workerVars

LEMMA CancelTypeOK ==
    ASSUME TypeOK, NEW r \in Runs, NEW oversized, cancel_managed_agent(r, oversized)
    PROVE  TypeOK'
<1>1. run' \in [Runs -> [state : RunStates \cup {"Absent"}, task : Nat]]
  <2>1. run' = [run EXCEPT ![r] = request_cancellation(@)] BY DEF cancel_managed_agent
  <2>2. "Cancelling" \in RunStates BY DEF RunStates
  <2>3. [run[r] EXCEPT !.state = "Cancelling"] \in [state : RunStates \cup {"Absent"}, task : Nat]
    BY <2>2, RunType
  <2>4. run[r] \in [state : RunStates \cup {"Absent"}, task : Nat] BY DEF TypeOK
  <2>5. request_cancellation(run[r]) \in [state : RunStates \cup {"Absent"}, task : Nat]
    BY <2>3, <2>4 DEF request_cancellation
  <2> QED BY <2>1, <2>5 DEF TypeOK
<1>2. register_command("Cancel", run[r].task) \in Commands
  BY RunType DEF register_command, Commands, CommandKinds, DeliveryStates
<1>3. ledger' \in [Runs -> Seq(Commands)]
  <2>1. ledger[r] \in Seq(Commands) BY DEF TypeOK
  <2>2. Append(ledger[r], register_command("Cancel", run[r].task)) \in Seq(Commands)
    BY <1>2, <2>1
  <2> QED BY <2>2 DEF TypeOK, cancel_managed_agent
<1>4. outbox' \in [Runs -> SUBSET Nat]
  <2>1. Len(ledger[r]) + 1 \in Nat BY SeqElements DEF TypeOK
  <2>2. Queued(r, {Len(ledger[r]) + 1}) \in SUBSET Nat BY <2>1 DEF TypeOK, Queued
  <2> QED BY <2>2 DEF TypeOK, cancel_managed_agent
<1> QED BY <1>1, <1>3, <1>4 DEF TypeOK, cancel_managed_agent, workerVars

LEMMA TickTypeOK ==
    ASSUME TypeOK, tick_managed_agents
    PROVE  TypeOK'
<1>1. PICK late \in SUBSET Runs, overdue \in [Runs -> SUBSET (1..MaxCommands)] :
        Tick(late, overdue)
  BY DEF tick_managed_agents, Dispatching
<1>2. run' \in [Runs -> [state : RunStates \cup {"Absent"}, task : Nat]]
  <2>1. \A r \in Runs :
          (IF CancelsExpired(r, late) THEN request_cancellation(run[r])
                                      ELSE AfterExpiry(r, late))
            \in [state : RunStates \cup {"Absent"}, task : Nat]
    <3> TAKE r \in Runs
    <3>1. run[r] \in [state : RunStates \cup {"Absent"}, task : Nat] BY DEF TypeOK
    <3>2. request_cancellation(run[r]) \in [state : RunStates \cup {"Absent"}, task : Nat]
      BY <3>1 DEF request_cancellation, RunStates
    <3>3. mark_dispatch_timed_out(run[r]) \in [state : RunStates \cup {"Absent"}, task : Nat]
      BY <3>1 DEF mark_dispatch_timed_out, RunStates
    <3> QED BY <3>1, <3>2, <3>3 DEF AfterExpiry
  <2> QED BY <1>1, <2>1 DEF Tick
<1>3. ledger' \in [Runs -> Seq(Commands)]
  <2>1. \A r \in Runs :
          replay_due_commands(r, overdue) \o Issued(r, late) \in Seq(Commands)
    BY LedgerType, ConcatProperties
  <2> QED BY <1>1, <2>1 DEF Tick
<1>4. outbox' \in [Runs -> SUBSET Nat]
  <2>1. \A r \in Runs : IssuedIds(r, late) \subseteq Nat
    BY SeqElements DEF TypeOK, IssuedIds
  <2>2. \A r \in Runs : overdue[r] \subseteq Nat
    BY ControlAssumption
  <2>3. \A r \in Runs : Queued(r, IssuedIds(r, late) \cup overdue[r]) \subseteq Nat
    BY <2>1, <2>2 DEF TypeOK, Queued
  <2> QED BY <1>1, <2>3 DEF Tick
<1> QED BY <1>1, <1>2, <1>3, <1>4 DEF TypeOK, Tick, workerVars

\* Transport events and control messages change runs and the ledger.
LEMMA TransportTypeOK ==
    ASSUME TypeOK, NEW i \in Instances, ApplyTransportEvent(i)
    PROVE  TypeOK'
<1>1. run' \in [Runs -> [state : RunStates \cup {"Absent"}, task : Nat]]
  <2>1. \A r \in Runs : MarkWorkers(i, Head(events[i]))[r]
                          \in [state : RunStates \cup {"Absent"}, task : Nat]
    <3> TAKE r \in Runs
    <3>1. run[r] \in [state : RunStates \cup {"Absent"}, task : Nat] BY DEF TypeOK
    <3>2. mark_disconnected(run[r]) \in [state : RunStates \cup {"Absent"}, task : Nat]
      BY <3>1 DEF mark_disconnected, RunStates
    <3>3. mark_reconnected(run[r]) \in [state : RunStates \cup {"Absent"}, task : Nat]
      BY <3>1 DEF mark_reconnected, RunStates
    <3> QED BY <3>1, <3>2, <3>3 DEF MarkWorkers
  <2> QED BY <2>1 DEF ApplyTransportEvent, MarkWorkers
<1>2. events' \in [Instances -> Seq(TransportEvents)]
  BY DEF TypeOK, ApplyTransportEvent
<1> QED BY <1>1, <1>2 DEF TypeOK, ApplyTransportEvent, workerVars

\* Every state a delivery message can put a command in is a delivery state.
LEMMA DeliveryStateType ==
    ASSUME NEW cmd \in Commands, NEW m
    PROVE  DeliveryState(cmd, m) \in DeliveryStates
<1>1. cmd.state \in DeliveryStates BY DEF Commands
<1> QED BY <1>1 DEF DeliveryState, AckState, ReceiptState, DeliveryStates

\* Changing the delivery state of one command leaves a ledger.
LEMMA LedgerUpdateType ==
    ASSUME TypeOK, NEW r \in Runs, NEW c \in DOMAIN ledger[r], NEW s \in DeliveryStates
    PROVE  [ledger EXCEPT ![r][c].state = s] \in [Runs -> Seq(Commands)]
<1>1. ledger[r] \in Seq(Commands) BY DEF TypeOK
<1>2. ledger[r][c] \in Commands /\ c \in 1..Len(ledger[r]) BY <1>1, SeqElements
<1>3. [ledger[r][c] EXCEPT !.state = s] \in Commands BY <1>2 DEF Commands
<1>4. [ledger[r] EXCEPT ![c] = [ledger[r][c] EXCEPT !.state = s]] \in Seq(Commands)
  BY <1>1, <1>2, <1>3, ExceptSeq
<1> QED BY <1>4 DEF TypeOK

LEMMA DeliveryTypeOK ==
    ASSUME TypeOK, NEW i \in Instances, NEW m \in Messages, ApplyDelivery(i, m)
    PROVE  ledger' \in [Runs -> Seq(Commands)] /\ run' = run
<1>1. m.run \in Runs BY DEF Messages
<1>2. CASE Routed(i, m) /\ m.cmd \in DOMAIN ledger[m.run]
  <2>1. ledger[m.run][m.cmd] \in Commands BY <1>1, <1>2, SeqElements DEF TypeOK
  <2>2. DeliveryState(ledger[m.run][m.cmd], m) \in DeliveryStates
    BY <2>1, DeliveryStateType
  <2> QED BY <1>1, <1>2, <2>2, LedgerUpdateType DEF ApplyDelivery
<1>3. CASE ~(Routed(i, m) /\ m.cmd \in DOMAIN ledger[m.run])
  BY <1>3 DEF ApplyDelivery, TypeOK
<1> QED BY <1>2, <1>3

LEMMA ResponseTypeOK ==
    ASSUME TypeOK, NEW i \in Instances, NEW m \in Messages, ApplyResponse(i, m)
    PROVE  /\ ledger' \in [Runs -> Seq(Commands)]
           /\ run' \in [Runs -> [state : RunStates \cup {"Absent"}, task : Nat]]
<1>1. /\ m.run \in Runs /\ m.task \in Nat
      /\ m.type = "get_result" => m.status \in ObservationStatuses
  BY DEF Messages
<1>2. CASE Routed(i, m) /\ AcceptsResponse(m)
  <2>1. run[m.run] \in [state : RunStates \cup {"Absent"}, task : Nat] BY <1>1 DEF TypeOK
  <2>2. RunAfterResponse(m) \in [state : RunStates \cup {"Absent"}, task : Nat]
    <3>1. CASE m.type = "dispatch_result"
      BY <1>1, <2>1, <3>1 DEF RunAfterResponse, accept_dispatch, RunStates
    <3>2. CASE m.type = "get_result"
      BY <1>1, <1>2, <2>1, <3>2 DEF RunAfterResponse, apply_observation, AcceptsResponse,
          accepts_observation, RunStates, ObservationStatuses
    <3>3. CASE m.type = "cancel_result"
      BY <1>1, <2>1, <3>3 DEF RunAfterResponse, apply_cancellation_response, RunStates
    <3>4. CASE m.type = "result_result"
      BY <1>1, <2>1, <3>4 DEF RunAfterResponse, complete_from_result, RunStates
    <3> QED BY <1>2, <3>1, <3>2, <3>3, <3>4 DEF AcceptsResponse
  <2>3. run' \in [Runs -> [state : RunStates \cup {"Absent"}, task : Nat]]
    BY <1>1, <1>2, <2>2 DEF ApplyResponse, TypeOK
  <2>4. ledger' \in [Runs -> Seq(Commands)]
    <3>1. Provable(m) \subseteq DOMAIN ledger[m.run] BY DEF Provable, Unanswered
    <3>2. "ProvenByResult" \in DeliveryStates BY DEF DeliveryStates
    <3>3. CASE Provable(m) = {} BY <1>2, <3>3 DEF ApplyResponse, TypeOK
    <3>4. CASE Provable(m) # {}
      <4>1. PICK c \in Provable(m) :
              ledger' = [ledger EXCEPT ![m.run][c].state = "ProvenByResult"]
        BY <1>2, <3>4 DEF ApplyResponse
      <4> QED BY <1>1, <3>1, <3>2, <4>1, LedgerUpdateType
    <3> QED BY <3>3, <3>4
  <2> QED BY <2>3, <2>4
<1>3. CASE ~(Routed(i, m) /\ AcceptsResponse(m))
  BY <1>3 DEF ApplyResponse, TypeOK
<1> QED BY <1>2, <1>3

LEMMA ControlMessageTypeOK ==
    ASSUME TypeOK, NEW i \in Instances, ApplyControlMessage(i)
    PROVE  TypeOK'
<1>1. PICK k \in DOMAIN answers[i] :
        /\ ApplyDelivery(i, answers[i][k]) \/ ApplyResponse(i, answers[i][k])
        /\ answers' = [answers EXCEPT ![i] = Without(@, k)]
  BY DEF ApplyControlMessage
<1>2. answers[i] \in Seq(Messages) BY DEF TypeOK
<1>3. answers[i][k] \in Messages BY <1>2, SeqElements
<1>4. answers' \in [Instances -> Seq(Messages)]
  BY <1>1, <1>2, WithoutType DEF TypeOK
<1>5. /\ ledger' \in [Runs -> Seq(Commands)]
      /\ run' \in [Runs -> [state : RunStates \cup {"Absent"}, task : Nat]]
  <2>1. CASE ApplyDelivery(i, answers[i][k]) BY <1>3, <2>1, DeliveryTypeOK DEF TypeOK
  <2>2. CASE ApplyResponse(i, answers[i][k]) BY <1>3, <2>2, ResponseTypeOK
  <2> QED BY <1>1, <2>1, <2>2
<1> QED BY <1>4, <1>5 DEF TypeOK, ApplyControlMessage, workerVars

\* Sessions and their sockets.
LEMMA StreamTypeOK ==
    ASSUME TypeOK, NEW i \in Instances,
           \/ connect_instance_session(i)
           \/ disconnect_instance_session(i)
           \/ StreamEnds(i)
           \/ StreamConnects(i)
           \/ StreamFailsToConnect(i)
           \/ StreamDisconnects(i)
    PROVE  TypeOK'
<1>1. CASE connect_instance_session(i)
  BY <1>1 DEF TypeOK, connect_instance_session, supervisorVars, workerVars
<1>2. CASE disconnect_instance_session(i)
  BY <1>2 DEF TypeOK, disconnect_instance_session, supervisorVars, workerVars
<1>3. CASE StreamEnds(i)
  BY <1>3 DEF TypeOK, StreamEnds, supervisorVars, workerVars
<1>4. CASE StreamConnects(i)
  BY <1>4 DEF TypeOK, StreamConnects, TransportEvents, supervisorVars, workerVars
<1>5. CASE StreamFailsToConnect(i)
  BY <1>5 DEF TypeOK, StreamFailsToConnect, TransportEvents, supervisorVars, workerVars
<1>6. CASE StreamDisconnects(i)
  <2>1. PICK k \in 0..Len(answers[i]) :
          answers' = [answers EXCEPT ![i] = SubSeq(@, 1, k)]
    BY <1>6 DEF StreamDisconnects
  <2>2. answers[i] \in Seq(Messages) BY DEF TypeOK
  <2>3. SubSeq(answers[i], 1, k) \in Seq(Messages) BY <2>2
  <2>4. answers' \in [Instances -> Seq(Messages)] BY <2>1, <2>3 DEF TypeOK
  <2>5. outbox' \in [Runs -> SUBSET Nat] BY <1>6 DEF TypeOK, StreamDisconnects
  <2>6. events' \in [Instances -> Seq(TransportEvents)]
    BY <1>6 DEF TypeOK, StreamDisconnects, TransportEvents
  <2> QED BY <1>6, <2>4, <2>5, <2>6 DEF TypeOK, StreamDisconnects, supervisorVars, workerVars
<1> QED BY <1>1, <1>2, <1>3, <1>4, <1>5, <1>6

\* The worker's handling of a command: only outbox, answers, tasks and seen
\* change, and the answer is a sequence of messages.
LEMMA WorkerTypeOK ==
    ASSUME TypeOK, NEW r \in Runs, NEW c \in DOMAIN ledger[r], Receives(r, c),
           NEW status \in MessageStatuses, NEW answer \in Seq(Messages),
           NEW ms \in Replies(r, c, status, answer), Sends(r, ms),
           tasks' \in [Runs -> Seq(TaskStates)],
           seen' \in [Runs -> SUBSET Nat]
    PROVE  TypeOK'
<1>1. answers' \in [Instances -> Seq(Messages)] BY RepliesType, SendsType
<1>2. outbox' \in [Runs -> SUBSET Nat] BY DEF TypeOK, Receives
<1> QED BY <1>1, <1>2 DEF TypeOK, Receives, supervisorVars

LEMMA AdmitsType ==
    ASSUME TypeOK, NEW r \in Runs, NEW c \in DOMAIN ledger[r], Admits(r, c)
    PROVE  seen' \in [Runs -> SUBSET Nat] /\ Receives(r, c)
<1>1. c \in Nat BY SeqElements DEF TypeOK
<1> QED BY <1>1 DEF TypeOK, Admits

LEMMA WorkerHandlesTypeOK ==
    ASSUME TypeOK, NEW r \in Runs, WorkerHandles(r)
    PROVE  TypeOK'
<1>1. PICK c \in DOMAIN ledger[r] :
        \/ WorkerRepeatsAnswer(r, c)
        \/ WorkerRefusesDelivery(r, c)
        \/ WorkerStartsTask(r, c)
        \/ WorkerDeclines(r, c)
        \/ WorkerReports(r, c)
        \/ WorkerCancels(r, c)
  BY DEF WorkerHandles
<1>2. /\ << >> \in Seq(Messages)
      /\ {"accepted", "duplicate", "retryable", "rejected", "none"} \subseteq MessageStatuses
  BY DEF MessageStatuses
<1>3. tasks[r] \in Seq(TaskStates) /\ Len(tasks[r]) \in Nat BY DEF TypeOK
<1>4. \A t \in DOMAIN tasks[r] : t \in Nat /\ tasks[r][t] \in TaskStates
  BY <1>3, SeqElements
<1>5. CASE WorkerRepeatsAnswer(r, c)
  <2>1. PICK ms \in Replies(r, c, "accepted", << >>) \cup Replies(r, c, "duplicate", << >>) :
          Sends(r, ms)
    BY <1>5 DEF WorkerRepeatsAnswer
  <2>2. tasks' \in [Runs -> Seq(TaskStates)] /\ seen' \in [Runs -> SUBSET Nat]
    BY <1>5 DEF TypeOK, WorkerRepeatsAnswer
  <2>3. Receives(r, c) BY <1>5 DEF WorkerRepeatsAnswer
  <2> QED BY <1>2, <2>1, <2>2, <2>3, WorkerTypeOK
<1>6. CASE WorkerRefusesDelivery(r, c)
  <2>1. PICK ms \in Replies(r, c, "retryable", << >>) \cup Replies(r, c, "rejected", << >>) :
          Sends(r, ms)
    BY <1>6 DEF WorkerRefusesDelivery
  <2>2. tasks' \in [Runs -> Seq(TaskStates)] /\ seen' \in [Runs -> SUBSET Nat]
    BY <1>6 DEF TypeOK, WorkerRefusesDelivery
  <2>3. Receives(r, c) BY <1>6 DEF WorkerRefusesDelivery
  <2> QED BY <1>2, <2>1, <2>2, <2>3, WorkerTypeOK
<1>7. CASE WorkerStartsTask(r, c)
  <2> DEFINE m == Message("dispatch_result", r, 0, Len(tasks[r]) + 1, "none")
  <2>1. PICK ms \in Replies(r, c, "accepted", <<m>>) : Sends(r, ms)
    BY <1>7 DEF WorkerStartsTask
  <2>2. m \in Messages
    <3>1. "dispatch_result" \in MessageTypes BY DEF MessageTypes
    <3>2. "none" \in MessageStatuses BY <1>2
    <3>3. 0 \in Nat /\ Len(tasks[r]) + 1 \in Nat BY <1>3
    <3> QED BY <3>1, <3>2, <3>3, MessageType
  <2>3. tasks' \in [Runs -> Seq(TaskStates)]
    BY <1>3, <1>7 DEF TypeOK, WorkerStartsTask, TaskStates
  <2>4. <<m>> \in Seq(Messages) BY <2>2
  <2> HIDE DEF m
  <2> QED BY <1>2, <1>7, <2>1, <2>3, <2>4, WorkerTypeOK, AdmitsType DEF WorkerStartsTask
<1>8. CASE WorkerDeclines(r, c)
  <2> DEFINE m == Message("rejection", r, 0, 0, "none")
  <2>1. PICK ms \in Replies(r, c, "accepted", <<m>>) : Sends(r, ms)
    BY <1>8 DEF WorkerDeclines
  <2>2. m \in Messages
    <3>1. "rejection" \in MessageTypes BY DEF MessageTypes
    <3>2. "none" \in MessageStatuses BY <1>2
    <3>3. "rejection" # "get_result" /\ 0 \in Nat OBVIOUS
    <3> QED BY <3>1, <3>2, <3>3, MessageType
  <2>3. tasks' \in [Runs -> Seq(TaskStates)] BY <1>8 DEF TypeOK, WorkerDeclines
  <2>4. <<m>> \in Seq(Messages) BY <2>2
  <2> HIDE DEF m
  <2> QED BY <1>2, <1>8, <2>1, <2>3, <2>4, WorkerTypeOK, AdmitsType DEF WorkerDeclines
<1>9. CASE WorkerReports(r, c)
  <2> DEFINE t == ledger[r][c].task
             m(status) == Message("get_result", r, 0, t, status)
  <2>1. PICK status \in Observations(tasks[r][t]) :
          \E ms \in Replies(r, c, "accepted", <<m(status)>>) : Sends(r, ms)
    BY <1>9 DEF WorkerReports
  <2>2. PICK ms \in Replies(r, c, "accepted", <<m(status)>>) : Sends(r, ms)
    BY <2>1
  <2>3. status \in ObservationStatuses BY DEF Observations, ObservationStatuses
  <2>4. m(status) \in Messages
    BY <1>4, <1>9, <2>3, MessageType DEF WorkerReports, MessageTypes, MessageStatuses
  <2>5. tasks' \in [Runs -> Seq(TaskStates)] BY <1>9 DEF TypeOK, WorkerReports
  <2>6. <<m(status)>> \in Seq(Messages) BY <2>4
  <2> HIDE DEF m
  <2> QED BY <1>2, <1>9, <2>2, <2>5, <2>6, WorkerTypeOK, AdmitsType DEF WorkerReports
<1>10. CASE WorkerCancels(r, c)
  <2> DEFINE t == ledger[r][c].task
             m(status) == Message("cancel_result", r, 0, t, status)
  <2>1. PICK outcome \in CancelOutcomes(tasks[r][t]) :
          /\ tasks' = [tasks EXCEPT ![r][t] = outcome[1]]
          /\ \E ms \in Replies(r, c, "accepted", <<m(outcome[2])>>) : Sends(r, ms)
    BY <1>10 DEF WorkerCancels
  <2>2. PICK ms \in Replies(r, c, "accepted", <<m(outcome[2])>>) : Sends(r, ms)
    BY <2>1
  <2>3. t \in DOMAIN tasks[r] BY <1>10 DEF WorkerCancels
  <2>4. outcome[1] \in TaskStates /\ outcome[2] \in MessageStatuses
    BY <1>4, <2>3 DEF CancelOutcomes, TaskStates, MessageStatuses
  <2>5. m(outcome[2]) \in Messages
    BY <1>4, <2>3, <2>4, MessageType DEF MessageTypes
  <2>6. tasks' \in [Runs -> Seq(TaskStates)]
    <3>1. [tasks[r] EXCEPT ![t] = outcome[1]] \in Seq(TaskStates)
      BY <1>3, <2>3, <2>4, ExceptSeq, SeqElements
    <3> QED BY <2>1, <3>1 DEF TypeOK
  <2>7. <<m(outcome[2])>> \in Seq(Messages) BY <2>5
  <2> HIDE DEF m
  <2> QED BY <1>2, <1>10, <2>2, <2>6, <2>7, WorkerTypeOK, AdmitsType DEF WorkerCancels
<1> QED BY <1>1, <1>5, <1>6, <1>7, <1>8, <1>9, <1>10

LEMMA TaskTypeOK ==
    ASSUME TypeOK, NEW r \in Runs,
           DeadlinePasses(r) \/ TaskEnds(r) \/ WorkerSendsResult(r)
    PROVE  TypeOK'
<1>1. CASE DeadlinePasses(r)
  BY <1>1 DEF TypeOK, DeadlinePasses, streamVars, workerVars
<1>2. CASE TaskEnds(r)
  <2>1. PICK t \in DOMAIN tasks[r], end \in TaskStates :
          tasks' = [tasks EXCEPT ![r][t] = end]
    BY <1>2 DEF TaskEnds, TaskStates
  <2>2. tasks[r] \in Seq(TaskStates) BY DEF TypeOK
  <2>3. [tasks[r] EXCEPT ![t] = end] \in Seq(TaskStates)
    BY <2>2, ExceptSeq, SeqElements
  <2>4. tasks' \in [Runs -> Seq(TaskStates)] BY <2>1, <2>3 DEF TypeOK
  <2> QED BY <1>2, <2>4 DEF TypeOK, TaskEnds, supervisorVars, streamVars
<1>3. CASE WorkerSendsResult(r)
  <2>1. PICK t \in DOMAIN tasks[r] : Sends(r, <<Message("result_result", r, 0, t, "none")>>)
    BY <1>3 DEF WorkerSendsResult
  <2>2. t \in Nat BY SeqElements DEF TypeOK
  <2>3. Message("result_result", r, 0, t, "none") \in Messages
    BY <2>2 DEF Message, Messages, MessageTypes, MessageStatuses
  <2>4. <<Message("result_result", r, 0, t, "none")>> \in Seq(Messages) BY <2>3
  <2>5. answers' \in [Instances -> Seq(Messages)] BY <2>1, <2>4, SendsType
  <2> QED BY <1>3, <2>5 DEF TypeOK, WorkerSendsResult, supervisorVars, workerVars
<1> QED BY <1>1, <1>2, <1>3

LEMMA StrayTypeOK ==
    ASSUME TypeOK, NEW i \in Instances, NEW r \in Runs, InstanceStrays(i, r)
    PROVE  TypeOK'
<1>1. PICK m \in {Message("ack", r, 1, NoTask, "accepted"),
                  Message("dispatch_result", r, 0, 1, "none"),
                  Message("get_result", r, 0, 1, "Succeeded"),
                  Message("cancel_result", r, 0, 1, "confirmed")} :
        answers' = [answers EXCEPT ![i] = Append(@, m)]
  BY DEF InstanceStrays
<1>2. m \in Messages
  BY DEF Message, Messages, MessageTypes, MessageStatuses, ObservationStatuses, NoTask
<1>3. answers[i] \in Seq(Messages) BY DEF TypeOK
<1>4. Append(answers[i], m) \in Seq(Messages) BY <1>2, <1>3
<1>5. answers \in [Instances -> Seq(Messages)] BY DEF TypeOK
<1>6. answers' \in [Instances -> Seq(Messages)] BY <1>1, <1>4, <1>5
<1> QED BY <1>6 DEF TypeOK, InstanceStrays, supervisorVars, workerVars

LEMMA NextTypeOK == TypeOK /\ [Next]_vars => TypeOK'
<1> SUFFICES ASSUME TypeOK, [Next]_vars PROVE TypeOK'
  OBVIOUS
<1>1. CASE tick_managed_agents BY <1>1, TickTypeOK
<1>2. ASSUME NEW r \in Runs, dispatch_managed_agent(r) PROVE TypeOK'
  BY <1>2, DispatchTypeOK
<1>3. ASSUME NEW r \in Runs, NEW oversized \in BOOLEAN, cancel_managed_agent(r, oversized)
      PROVE TypeOK'
  BY <1>3, CancelTypeOK
<1>4. ASSUME NEW r \in Runs, DeadlinePasses(r) \/ TaskEnds(r) \/ WorkerSendsResult(r)
      PROVE TypeOK'
  BY <1>4, TaskTypeOK
<1>5. ASSUME NEW r \in Runs, WorkerHandles(r) PROVE TypeOK'
  BY <1>5, WorkerHandlesTypeOK
<1>6. ASSUME NEW i \in Instances, ApplyTransportEvent(i) PROVE TypeOK'
  BY <1>6, TransportTypeOK
<1>7. ASSUME NEW i \in Instances, ApplyControlMessage(i) PROVE TypeOK'
  BY <1>7, ControlMessageTypeOK
<1>8. ASSUME NEW i \in Instances,
             \/ connect_instance_session(i)
             \/ disconnect_instance_session(i)
             \/ StreamEnds(i)
             \/ StreamConnects(i)
             \/ StreamFailsToConnect(i)
             \/ StreamDisconnects(i)
      PROVE TypeOK'
  BY <1>8, StreamTypeOK
<1>9. ASSUME NEW i \in Instances, NEW r \in Runs, InstanceStrays(i, r) PROVE TypeOK'
  BY <1>9, StrayTypeOK
<1>10. CASE UNCHANGED vars
  BY <1>10 DEF TypeOK, vars
<1> QED BY <1>1, <1>2, <1>3, <1>4, <1>5, <1>6, <1>7, <1>8, <1>9, <1>10 DEF Next

\* Every operation of the supervisor, the streams and the workers keeps runs,
\* commands, queues and tasks in the shapes the code gives them.
THEOREM TypeCorrect == Spec => []TypeOK
BY InitTypeOK, NextTypeOK, PTL DEF Spec

-----------------------------------------------------------------------------
(***************************************************************************)
(* Outcomes are real.  Two facts carry the proof: a task that has ended    *)
(* stays as it ended, so an answer that was true when it was sent is true  *)
(* when it is read; and every answer under way from a run's own instance   *)
(* was true when it was sent.                                              *)
(***************************************************************************)

EndStates == {"succeeded", "unsuccessful", "cancelled"}

\* No task disappears, and one that has ended does not change.
TasksPersist ==
    \A r \in Runs : \A t \in DOMAIN tasks[r] :
        /\ t \in DOMAIN tasks'[r]
        /\ tasks[r][t] \in EndStates => tasks'[r][t] = tasks[r][t]

\* Changing one task keeps the others and its sequence.
LEMMA TaskUpdate ==
    ASSUME TypeOK, NEW r \in Runs, NEW t \in DOMAIN tasks[r], NEW s,
           tasks' = [tasks EXCEPT ![r][t] = s],
           tasks[r][t] \in EndStates => s = tasks[r][t]
    PROVE  TasksPersist
<1>1. tasks \in [Runs -> Seq(TaskStates)] BY DEF TypeOK
<1>2. \A q \in Runs : DOMAIN tasks'[q] = DOMAIN tasks[q] BY <1>1
<1>3. \A q \in Runs : \A u \in DOMAIN tasks[q] :
        tasks'[q][u] = IF q = r /\ u = t THEN s ELSE tasks[q][u]
  BY <1>1
<1> QED BY <1>2, <1>3 DEF TasksPersist

LEMMA TasksPersistStep ==
    ASSUME TypeOK, [Next]_vars
    PROVE  TasksPersist
<1>1. CASE UNCHANGED tasks BY <1>1 DEF TasksPersist
<1>2. ASSUME NEW r \in Runs, TaskEnds(r) PROVE TasksPersist
  <2>1. PICK t \in DOMAIN tasks[r], end \in TaskStates :
          /\ tasks[r][t] \in {"running", "cancelling"}
          /\ tasks' = [tasks EXCEPT ![r][t] = end]
    BY <1>2 DEF TaskEnds, TaskStates
  <2>2. tasks[r][t] \notin EndStates BY <2>1 DEF EndStates
  <2> QED BY <2>1, <2>2, TaskUpdate
<1>3. ASSUME NEW r \in Runs, NEW c \in DOMAIN ledger[r], WorkerStartsTask(r, c)
      PROVE TasksPersist
  <2>1. tasks \in [Runs -> Seq(TaskStates)] BY DEF TypeOK
  <2>2. tasks' = [tasks EXCEPT ![r] = Append(tasks[r], "running")]
    BY <1>3 DEF WorkerStartsTask
  <2>3. \A t \in DOMAIN tasks[r] :
          /\ t \in DOMAIN Append(tasks[r], "running")
          /\ Append(tasks[r], "running")[t] = tasks[r][t]
    <3>1. tasks[r] \in Seq(TaskStates) BY <2>1
    <3> QED BY <3>1
  <2> QED BY <2>1, <2>2, <2>3 DEF TasksPersist
<1>4. ASSUME NEW r \in Runs, NEW c \in DOMAIN ledger[r], WorkerCancels(r, c)
      PROVE TasksPersist
  <2> DEFINE t == ledger[r][c].task
  <2>1. PICK outcome \in CancelOutcomes(tasks[r][t]) :
          tasks' = [tasks EXCEPT ![r][t] = outcome[1]]
    BY <1>4 DEF WorkerCancels
  <2>2. t \in DOMAIN tasks[r] BY <1>4 DEF WorkerCancels
  <2>3. tasks[r][t] \in EndStates => outcome[1] = tasks[r][t]
    BY DEF CancelOutcomes, EndStates
  <2> QED BY <2>1, <2>2, <2>3, TaskUpdate
<1>5. ASSUME NEW r \in Runs, WorkerHandles(r) PROVE TasksPersist
  <2>1. PICK c \in DOMAIN ledger[r] :
        \/ WorkerRepeatsAnswer(r, c)
        \/ WorkerRefusesDelivery(r, c)
        \/ WorkerStartsTask(r, c)
        \/ WorkerDeclines(r, c)
        \/ WorkerReports(r, c)
        \/ WorkerCancels(r, c)
    BY <1>5 DEF WorkerHandles
  <2> QED BY <1>1, <1>3, <1>4, <2>1
      DEF WorkerRepeatsAnswer, WorkerRefusesDelivery, WorkerDeclines, WorkerReports
<1>6. UNCHANGED tasks \/ \E r \in Runs : WorkerHandles(r) \/ TaskEnds(r)
  BY DEF Next, vars, workerVars, tick_managed_agents, Tick, dispatch_managed_agent,
         cancel_managed_agent, DeadlinePasses, WorkerSendsResult, ApplyTransportEvent,
         ApplyControlMessage, connect_instance_session, disconnect_instance_session,
         StreamEnds, StreamConnects, StreamFailsToConnect, StreamDisconnects,
         InstanceStrays
<1> QED BY <1>1, <1>2, <1>5, <1>6

\* What was justified stays justified.
LEMMA JustifiedPersists ==
    ASSUME TypeOK, TasksPersist, NEW m \in Messages, Justified(m)
    PROVE  Justified(m)'
<1>1. m.run \in Runs BY DEF Messages
<1>2. \A s \in EndStates : Ended(m, s) => Ended(m, s)'
  BY <1>1 DEF Ended, TasksPersist
<1> QED BY <1>2 DEF Justified, EndStates

\* Every waiting message is an old one, comes from another instance than its
\* run's, or is justified: then all of them are.
LEMMA QueuesJustified ==
    ASSUME TypeOK, TasksPersist, AnswersAreJustified,
           \A i \in Instances : \A k \in DOMAIN answers'[i] :
               \/ \E j \in DOMAIN answers[i] : answers'[i][k] = answers[i][j]
               \/ target[answers'[i][k].run] # i
               \/ Justified(answers[i][k])'
    PROVE  AnswersAreJustified'
<1> SUFFICES ASSUME NEW i \in Instances, NEW k \in DOMAIN answers'[i],
                    target[answers'[i][k].run] = i
             PROVE  Justified(answers[i][k])'
  BY DEF AnswersAreJustified
<1>1. ASSUME NEW j \in DOMAIN answers[i], answers'[i][k] = answers[i][j]
      PROVE  Justified(answers[i][k])'
  <2>1. answers[i][j] \in Messages BY SeqElements DEF TypeOK
  <2>2. Justified(answers[i][j]) BY <1>1 DEF AnswersAreJustified
  <2>3. PICK m \in Messages : m = answers[i][j] BY <2>1
  <2>4. Justified(m)' BY <2>2, <2>3, JustifiedPersists
  <2> QED BY <1>1, <2>3, <2>4 DEF Justified, Ended
<1> QED BY <1>1

\* What waits after a send waited before it or has just been sent.
LEMMA SendsElements ==
    ASSUME TypeOK, NEW r \in Runs, NEW ms \in Seq(Messages), Sends(r, ms),
           NEW i \in Instances, NEW k \in DOMAIN answers'[i]
    PROVE  \/ \E j \in DOMAIN answers[i] : answers'[i][k] = answers[i][j]
           \/ \E j \in DOMAIN ms : answers'[i][k] = ms[j]
<1>1. answers \in [Instances -> Seq(Messages)] /\ target[r] \in Instances
  BY ControlAssumption DEF TypeOK
<1>2. CASE answers'[i] = answers[i] BY <1>2
<1>3. CASE answers'[i] = answers[i] \o ms
  <2>1. k \in 1..(Len(answers[i]) + Len(ms)) BY <1>1, <1>3, ConcatProperties, SeqElements
  <2>2. Len(answers[i]) \in Nat /\ Len(ms) \in Nat BY <1>1, SeqElements
  <2>3. CASE k <= Len(answers[i])
    <3>1. answers'[i][k] = answers[i][k] BY <1>1, <1>3, <2>1, <2>3, ConcatProperties
    <3>2. k \in DOMAIN answers[i] BY <1>1, <2>1, <2>3, SeqElements
    <3> QED BY <3>1, <3>2
  <2>4. CASE k > Len(answers[i])
    <3>1. k - Len(answers[i]) \in DOMAIN ms BY <2>1, <2>2, <2>4, SeqElements
    <3>2. answers'[i][k] = ms[k - Len(answers[i])]
      BY <1>1, <1>3, <2>1, <2>2, <2>4, ConcatProperties
    <3> QED BY <3>1, <3>2
  <2> QED BY <2>1, <2>2, <2>3, <2>4
<1> QED BY <1>1, <1>2, <1>3 DEF Sends

LEMMA SendsJustified ==
    ASSUME TypeOK, TasksPersist, AnswersAreJustified, NEW r \in Runs,
           NEW ms \in Seq(Messages), Sends(r, ms),
           \A k \in DOMAIN ms : Justified(ms[k])'
    PROVE  AnswersAreJustified'
<1>1. \A i \in Instances : \A k \in DOMAIN answers'[i] :
        \/ \E j \in DOMAIN answers[i] : answers'[i][k] = answers[i][j]
        \/ Justified(answers[i][k])'
  <2> TAKE i \in Instances
  <2> TAKE k \in DOMAIN answers'[i]
  <2>1. ASSUME NEW j \in DOMAIN ms, answers'[i][k] = ms[j] PROVE Justified(answers[i][k])'
    BY <2>1 DEF Justified, Ended
  <2> QED BY <2>1, SendsElements
<1> QED BY <1>1, QueuesJustified

\* A reply is an answer, with at most a delivery message around it.
LEMMA RepliesElements ==
    ASSUME TypeOK, NEW r \in Runs, NEW c \in DOMAIN ledger[r],
           NEW status \in MessageStatuses, NEW answer \in Seq(Messages),
           NEW ms \in Replies(r, c, status, answer), NEW k \in DOMAIN ms
    PROVE  \/ ms[k].type \in AckKinds
           \/ \E j \in DOMAIN answer : ms[k] = answer[j]
<1>1. \A d \in DeliveryAnswers(r, c, status) : d.type \in AckKinds
  BY DEF DeliveryAnswers, Message
<1>2. Len(answer) \in Nat /\ DOMAIN answer = 1..Len(answer) BY SeqElements
<1>3. CASE ms = answer BY <1>3
<1>4. ASSUME NEW d \in DeliveryAnswers(r, c, status), ms = <<d>> \o answer
      PROVE  ms[k] = d \/ \E j \in DOMAIN answer : ms[k] = answer[j]
  <2>1. k \in 1..(Len(answer) + 1) BY <1>2, <1>4
  <2>2. CASE k = 1 BY <1>4, <2>2
  <2>3. CASE k # 1
    <3>1. ms[k] = answer[k - 1] BY <1>2, <1>4, <2>1, <2>3
    <3>2. k - 1 \in DOMAIN answer BY <1>2, <2>1, <2>3
    <3> QED BY <3>1, <3>2
  <2> QED BY <2>2, <2>3
<1>5. ASSUME NEW d \in DeliveryAnswers(r, c, status), ms = answer \o <<d>>
      PROVE  ms[k] = d \/ \E j \in DOMAIN answer : ms[k] = answer[j]
  <2>1. k \in 1..(Len(answer) + 1) BY <1>2, <1>5
  <2>2. CASE k <= Len(answer) BY <1>2, <1>5, <2>1, <2>2
  <2>3. CASE k = Len(answer) + 1 BY <1>2, <1>5, <2>1, <2>3
  <2> QED BY <1>2, <2>1, <2>2, <2>3
<1> QED BY <1>1, <1>3, <1>4, <1>5 DEF Replies

\* A worker whose answer is justified leaves the queues justified.
LEMMA WorkerJustified ==
    ASSUME TypeOK, TasksPersist, AnswersAreJustified, NEW r \in Runs,
           NEW c \in DOMAIN ledger[r], NEW status \in MessageStatuses,
           NEW m \in Messages, Justified(m)',
           NEW ms \in Replies(r, c, status, <<m>>), Sends(r, ms)
    PROVE  AnswersAreJustified'
<1> DEFINE answer == <<m>>
<1>1. answer \in Seq(Messages) /\ \A j \in DOMAIN answer : answer[j] = m OBVIOUS
<1> HIDE DEF answer
<1>0. ms \in Replies(r, c, status, answer) BY DEF answer
<1>2. ms \in Seq(Messages) BY <1>1, <1>0, RepliesType
<1>3. \A k \in DOMAIN ms : ms[k].type \in AckKinds \/ ms[k] = m
  <2> TAKE k \in DOMAIN ms
  <2>1. \/ ms[k].type \in AckKinds
        \/ \E j \in DOMAIN answer : ms[k] = answer[j]
    BY <1>1, <1>0, RepliesElements
  <2> QED BY <1>1, <2>1
<1>4. \A k \in DOMAIN ms : Justified(ms[k])'
  BY <1>3, ControlAssumption DEF Justified, Ended
<1> QED BY <1>2, <1>4, SendsJustified

\* So does one that only confirms or refuses a delivery.
LEMMA DeliveryJustified ==
    ASSUME TypeOK, TasksPersist, AnswersAreJustified, NEW r \in Runs,
           NEW c \in DOMAIN ledger[r], NEW status \in MessageStatuses,
           NEW ms \in Replies(r, c, status, << >>), Sends(r, ms)
    PROVE  AnswersAreJustified'
<1>1. << >> \in Seq(Messages) /\ DOMAIN << >> = {} OBVIOUS
<1>2. ms \in Seq(Messages) BY <1>1, RepliesType
<1>3. \A k \in DOMAIN ms : ms[k].type \in AckKinds
  <2> TAKE k \in DOMAIN ms
  <2>1. \/ ms[k].type \in AckKinds
        \/ \E j \in DOMAIN << >> : ms[k] = << >>[j]
    BY <1>1, RepliesElements
  <2> QED BY <1>1, <2>1
<1>4. \A k \in DOMAIN ms : Justified(ms[k])'
  BY <1>3, ControlAssumption DEF Justified, Ended
<1> QED BY <1>2, <1>4, SendsJustified

LEMMA WorkerHandlesJustified ==
    ASSUME TypeOK, TasksPersist, AnswersAreJustified, NEW r \in Runs, WorkerHandles(r)
    PROVE  AnswersAreJustified'
<1>1. PICK c \in DOMAIN ledger[r] :
        \/ WorkerRepeatsAnswer(r, c)
        \/ WorkerRefusesDelivery(r, c)
        \/ WorkerStartsTask(r, c)
        \/ WorkerDeclines(r, c)
        \/ WorkerReports(r, c)
        \/ WorkerCancels(r, c)
  BY DEF WorkerHandles
<1>2. {"accepted", "duplicate", "retryable", "rejected", "none"} \subseteq MessageStatuses
  BY DEF MessageStatuses
<1>3. tasks[r] \in Seq(TaskStates) /\ Len(tasks[r]) \in Nat BY DEF TypeOK
<1>4. \A t \in DOMAIN tasks[r] : t \in Nat /\ tasks[r][t] \in TaskStates
  BY <1>3, SeqElements
<1>5. CASE WorkerRepeatsAnswer(r, c)
  <2>1. PICK ms \in Replies(r, c, "accepted", << >>) \cup Replies(r, c, "duplicate", << >>) :
          Sends(r, ms)
    BY <1>5 DEF WorkerRepeatsAnswer
  <2> QED BY <1>2, <2>1, DeliveryJustified
<1>6. CASE WorkerRefusesDelivery(r, c)
  <2>1. PICK ms \in Replies(r, c, "retryable", << >>) \cup Replies(r, c, "rejected", << >>) :
          Sends(r, ms)
    BY <1>6 DEF WorkerRefusesDelivery
  <2> QED BY <1>2, <2>1, DeliveryJustified
<1>7. CASE WorkerStartsTask(r, c)
  <2>1. Len(tasks[r]) + 1 \in Nat BY <1>3
  <2>2. PICK m \in Messages : m = Message("dispatch_result", r, 0, Len(tasks[r]) + 1, "none")
    BY <1>2, <2>1, MessageType DEF MessageTypes
  <2>3. PICK ms \in Replies(r, c, "accepted", <<m>>) : Sends(r, ms)
    BY <1>7, <2>2 DEF WorkerStartsTask
  <2>4. Justified(m)' BY <2>2 DEF Message, Justified
  <2> QED BY <1>2, <2>3, <2>4, WorkerJustified
<1>8. CASE WorkerDeclines(r, c)
  <2>1. PICK m \in Messages : m = Message("rejection", r, 0, 0, "none")
    BY <1>2, MessageType DEF MessageTypes
  <2>2. PICK ms \in Replies(r, c, "accepted", <<m>>) : Sends(r, ms)
    BY <1>8, <2>1 DEF WorkerDeclines
  <2>3. Justified(m)' BY <2>1 DEF Message, Justified
  <2> QED BY <1>2, <2>2, <2>3, WorkerJustified
<1>9. CASE WorkerReports(r, c)
  <2> DEFINE t == ledger[r][c].task
  <2>1. PICK status \in Observations(tasks[r][t]) :
          \E ms \in Replies(r, c, "accepted", <<Message("get_result", r, 0, t, status)>>) :
             Sends(r, ms)
    BY <1>9 DEF WorkerReports
  <2>2. status \in ObservationStatuses BY DEF Observations, ObservationStatuses
  <2>3. t \in DOMAIN tasks[r] BY <1>9 DEF WorkerReports
  <2>4. PICK m \in Messages : m = Message("get_result", r, 0, t, status)
    BY <1>4, <2>2, <2>3, MessageType DEF MessageTypes, MessageStatuses
  <2>5. PICK ms \in Replies(r, c, "accepted", <<m>>) : Sends(r, ms)
    BY <2>1, <2>4
  <2>6. Justified(m)
    <3>1. m.type = "get_result" /\ m.run = r /\ m.task = t /\ m.status = status
      BY <2>4 DEF Message
    <3>2. /\ status = "Succeeded" => tasks[r][t] = "succeeded"
          /\ status = "Unsuccessful" => tasks[r][t] = "unsuccessful"
          /\ status = "Cancelled" => tasks[r][t] = "cancelled"
      BY <1>4, <2>3 DEF Observations, TaskStates
    <3> QED BY <2>3, <3>1, <3>2 DEF Justified, Ended
  <2>7. Justified(m)' BY <2>6, JustifiedPersists
  <2> QED BY <1>2, <2>5, <2>7, WorkerJustified
<1>10. CASE WorkerCancels(r, c)
  <2> DEFINE t == ledger[r][c].task
  <2>1. PICK outcome \in CancelOutcomes(tasks[r][t]) :
          /\ tasks' = [tasks EXCEPT ![r][t] = outcome[1]]
          /\ \E ms \in Replies(r, c, "accepted",
                               <<Message("cancel_result", r, 0, t, outcome[2])>>) : Sends(r, ms)
    BY <1>10 DEF WorkerCancels
  <2>2. t \in DOMAIN tasks[r] BY <1>10 DEF WorkerCancels
  <2>3. outcome[2] \in MessageStatuses BY DEF CancelOutcomes, MessageStatuses
  <2>4. PICK m \in Messages : m = Message("cancel_result", r, 0, t, outcome[2])
    BY <1>4, <2>2, <2>3, MessageType DEF MessageTypes
  <2>5. PICK ms \in Replies(r, c, "accepted", <<m>>) : Sends(r, ms)
    BY <2>1, <2>4
  <2>6. Justified(m)'
    <3>1. m.type = "cancel_result" /\ m.run = r /\ m.task = t /\ m.status = outcome[2]
      BY <2>4 DEF Message
    <3>2. outcome[2] = "confirmed" => outcome[1] = "cancelled" BY DEF CancelOutcomes
    <3>3. t \in DOMAIN tasks'[r] /\ tasks'[r][t] = outcome[1]
      BY <2>1, <2>2 DEF TypeOK
    <3> QED BY <3>1, <3>2, <3>3 DEF Justified, Ended
  <2> QED BY <1>2, <2>5, <2>6, WorkerJustified
<1> QED BY <1>1, <1>5, <1>6, <1>7, <1>8, <1>9, <1>10

\* Taking messages off a queue adds none.
LEMMA WithoutElements ==
    ASSUME NEW S, NEW q \in Seq(S), NEW k \in DOMAIN q, NEW j \in DOMAIN Without(q, k)
    PROVE  \E n \in DOMAIN q : Without(q, k)[j] = q[n]
<1>1. k \in 1..Len(q) /\ Len(q) \in Nat BY SeqElements
<1> DEFINE front == SubSeq(q, 1, k - 1)
           back == SubSeq(q, k + 1, Len(q))
<1>2. /\ front \in Seq(S) /\ Len(front) = k - 1
      /\ \A n \in 1..(k - 1) : front[n] = q[n]
  BY <1>1
<1>3. /\ back \in Seq(S) /\ Len(back) = Len(q) - k
      /\ \A n \in 1..(Len(q) - k) : back[n] = q[k + n]
  BY <1>1
<1> HIDE DEF front, back
<1>4. Without(q, k) = front \o back BY DEF Without, front, back
<1>5. j \in 1..(Len(q) - 1) BY <1>1, <1>2, <1>3, <1>4, SeqElements, ConcatProperties
<1>6. CASE j <= k - 1
  <2>1. Without(q, k)[j] = q[j] BY <1>1, <1>2, <1>3, <1>4, <1>5, <1>6, ConcatProperties
  <2> QED BY <1>1, <1>5, <2>1
<1>7. CASE j > k - 1
  <2>1. j - (k - 1) \in 1..(Len(q) - k) BY <1>1, <1>5, <1>7
  <2>2. Without(q, k)[j] = back[j - (k - 1)]
    BY <1>1, <1>2, <1>3, <1>4, <1>5, <1>7, ConcatProperties
  <2>3. Without(q, k)[j] = q[k + (j - (k - 1))] BY <1>3, <2>1, <2>2
  <2>4. k + (j - (k - 1)) \in 1..Len(q) BY <1>1, <2>1
  <2> QED BY <2>3, <2>4
<1> QED BY <1>1, <1>5, <1>6, <1>7

\* Reading a message, dropping a session and losing a connection add none.
LEMMA QueuesShrink ==
    ASSUME TypeOK, NEW i \in Instances,
           \/ ApplyControlMessage(i)
           \/ disconnect_instance_session(i)
           \/ StreamDisconnects(i)
    PROVE  \A n \in Instances : \A j \in DOMAIN answers'[n] :
               \E l \in DOMAIN answers[n] : answers'[n][j] = answers[n][l]
<1> TAKE n \in Instances
<1>1. answers \in [Instances -> Seq(Messages)] BY DEF TypeOK
<1>2. CASE answers'[n] = answers[n] BY <1>2
<1>3. CASE n = i /\ ApplyControlMessage(i)
  <2>1. PICK k \in DOMAIN answers[i] : answers' = [answers EXCEPT ![i] = Without(@, k)]
    BY <1>3 DEF ApplyControlMessage
  <2>2. answers'[n] = Without(answers[n], k) BY <1>1, <1>3, <2>1
  <2> QED BY <1>1, <1>3, <2>1, <2>2, WithoutElements
<1>4. CASE n = i /\ disconnect_instance_session(i)
  BY <1>1, <1>4 DEF disconnect_instance_session
<1>5. CASE n = i /\ StreamDisconnects(i)
  <2>1. PICK k \in 0..Len(answers[i]) : answers' = [answers EXCEPT ![i] = SubSeq(@, 1, k)]
    BY <1>5 DEF StreamDisconnects
  <2>2. answers'[n] = SubSeq(answers[n], 1, k) BY <1>1, <1>5, <2>1
  <2>3. answers[n] \in Seq(Messages) /\ k \in 0..Len(answers[n]) BY <1>1, <1>5, <2>1
  <2>4. \A j \in DOMAIN SubSeq(answers[n], 1, k) :
          j \in DOMAIN answers[n] /\ SubSeq(answers[n], 1, k)[j] = answers[n][j]
    BY <2>3
  <2> QED BY <2>2, <2>4
<1>6. CASE n # i
  BY <1>1, <1>2, <1>6 DEF ApplyControlMessage, disconnect_instance_session, StreamDisconnects
<1> QED BY <1>3, <1>4, <1>5, <1>6

LEMMA AnswersJustifiedStep ==
    ASSUME TypeOK, AnswersAreJustified, [Next]_vars
    PROVE  AnswersAreJustified'
<1>1. TasksPersist BY TasksPersistStep
<1>2. answers \in [Instances -> Seq(Messages)] BY DEF TypeOK
<1>3. CASE UNCHANGED answers BY <1>1, <1>3, QueuesJustified
<1>4. ASSUME NEW i \in Instances,
             \/ ApplyControlMessage(i)
             \/ disconnect_instance_session(i)
             \/ StreamDisconnects(i)
      PROVE  AnswersAreJustified'
  BY <1>1, <1>4, QueuesShrink, QueuesJustified
<1>7. ASSUME NEW r \in Runs, WorkerHandles(r) PROVE AnswersAreJustified'
  BY <1>1, <1>7, WorkerHandlesJustified
<1>8. ASSUME NEW r \in Runs, WorkerSendsResult(r) PROVE AnswersAreJustified'
  <2>1. PICK t \in DOMAIN tasks[r] :
          /\ tasks[r][t] = "succeeded"
          /\ Sends(r, <<Message("result_result", r, 0, t, "none")>>)
    BY <1>8 DEF WorkerSendsResult
  <2>2. t \in Nat BY SeqElements DEF TypeOK
  <2>3. PICK m \in Messages : m = Message("result_result", r, 0, t, "none")
    BY <2>2, MessageType DEF MessageTypes, MessageStatuses
  <2>4. Justified(m) BY <2>1, <2>3 DEF Justified, Ended, Message
  <2>5. Justified(m)' BY <1>1, <2>4, JustifiedPersists
  <2>6. <<m>> \in Seq(Messages) /\ Sends(r, <<m>>) BY <2>1, <2>3
  <2>7. \A k \in DOMAIN <<m>> : Justified(<<m>>[k])' BY <2>5
  <2> QED BY <1>1, <2>6, <2>7, SendsJustified
<1>9. ASSUME NEW i \in Instances, NEW r \in Runs, InstanceStrays(i, r)
      PROVE AnswersAreJustified'
  <2>1. PICK m : m.run = r /\ answers' = [answers EXCEPT ![i] = Append(@, m)]
    BY <1>9 DEF InstanceStrays, Message
  <2>2. i # target[r] BY <1>9 DEF InstanceStrays
  <2>3. \A n \in Instances : \A j \in DOMAIN answers'[n] :
          \/ \E l \in DOMAIN answers[n] : answers'[n][j] = answers[n][l]
          \/ target[answers'[n][j].run] # n
    <3> TAKE n \in Instances
    <3>1. CASE n = i
      <4>1. answers'[n] = Append(answers[n], m) BY <1>2, <2>1, <3>1
      <4>2. answers[n] \in Seq(Messages) BY <1>2
      <4>3. \A j \in DOMAIN Append(answers[n], m) :
              \/ j \in DOMAIN answers[n] /\ Append(answers[n], m)[j] = answers[n][j]
              \/ Append(answers[n], m)[j] = m
        BY <4>2
      <4> QED BY <2>1, <2>2, <3>1, <4>1, <4>3
    <3>2. CASE n # i BY <1>2, <2>1, <3>2
    <3> QED BY <3>1, <3>2
  <2> QED BY <1>1, <2>3, QueuesJustified
<1>10. \/ UNCHANGED answers
       \/ \E r \in Runs : WorkerHandles(r) \/ WorkerSendsResult(r)
       \/ \E i \in Instances : \/ ApplyControlMessage(i)
                               \/ disconnect_instance_session(i)
                               \/ StreamDisconnects(i)
                               \/ \E r \in Runs : InstanceStrays(i, r)
  BY DEF Next, vars, streamVars, tick_managed_agents, Tick, dispatch_managed_agent,
         cancel_managed_agent, DeadlinePasses, TaskEnds, ApplyTransportEvent,
         connect_instance_session, StreamEnds, StreamConnects, StreamFailsToConnect
<1> QED BY <1>3, <1>4, <1>7, <1>8, <1>9, <1>10

\* A worker does not touch the supervisor.
LEMMA WorkerKeepsSupervisor ==
    ASSUME NEW r \in Runs, WorkerHandles(r)
    PROVE  run' = run /\ ledger' = ledger
<1>1. PICK c : Receives(r, c)
  BY DEF WorkerHandles, WorkerRepeatsAnswer, WorkerRefusesDelivery, WorkerStartsTask,
         WorkerDeclines, WorkerReports, WorkerCancels, Admits
<1> QED BY <1>1 DEF Receives, supervisorVars

\* Outside the drain of control messages no run acquires an outcome.
LEMMA NoNewOutcome ==
    ASSUME TypeOK, [Next]_vars, NEW r \in Runs,
           ~ \E i \in Instances : ApplyControlMessage(i),
           run'[r].state \in {"Completed", "Failed", "Cancelled"}
    PROVE  run'[r] = run[r]
<1>1. run \in [Runs -> [state : RunStates \cup {"Absent"}, task : Nat]] BY DEF TypeOK
<1>2. CASE UNCHANGED run BY <1>2
<1>3. CASE tick_managed_agents
  <2>1. PICK late \in SUBSET Runs, overdue \in [Runs -> SUBSET (1..MaxCommands)] :
          Tick(late, overdue)
    BY <1>3 DEF tick_managed_agents, Dispatching
  <2>2. run'[r] = IF CancelsExpired(r, late) THEN request_cancellation(run[r])
                                             ELSE AfterExpiry(r, late)
    BY <2>1 DEF Tick
  <2> QED BY <1>1, <2>2 DEF request_cancellation, AfterExpiry, mark_dispatch_timed_out
<1>4. ASSUME NEW q \in Runs, dispatch_managed_agent(q) PROVE run'[r] = run[r]
  BY <1>1, <1>4 DEF dispatch_managed_agent
<1>5. ASSUME NEW q \in Runs, NEW oversized, cancel_managed_agent(q, oversized)
      PROVE run'[r] = run[r]
  BY <1>1, <1>5 DEF cancel_managed_agent, request_cancellation
<1>6. ASSUME NEW i \in Instances, ApplyTransportEvent(i) PROVE run'[r] = run[r]
  <2>1. run'[r] = MarkWorkers(i, Head(events[i]))[r] BY <1>6 DEF ApplyTransportEvent
  <2> QED BY <1>1, <2>1 DEF MarkWorkers, mark_disconnected, mark_reconnected
<1>7. \/ UNCHANGED run
      \/ tick_managed_agents
      \/ \E q \in Runs : \/ dispatch_managed_agent(q)
                         \/ \E oversized \in BOOLEAN : cancel_managed_agent(q, oversized)
      \/ \E i \in Instances : ApplyTransportEvent(i)
  BY WorkerKeepsSupervisor
     DEF Next, vars, supervisorVars, DeadlinePasses, TaskEnds, WorkerSendsResult,
         connect_instance_session, disconnect_instance_session, StreamEnds,
         StreamConnects, StreamFailsToConnect, StreamDisconnects, InstanceStrays
<1> QED BY <1>2, <1>3, <1>4, <1>5, <1>6, <1>7

\* A justified response gives its run an outcome only of the task it names.
LEMMA ResponseOutcome ==
    ASSUME TypeOK, OutcomesAreReal, NEW i \in Instances, NEW m \in Messages,
           ApplyResponse(i, m), target[m.run] = i => Justified(m), UNCHANGED tasks
    PROVE  OutcomesAreReal'
<1>1. m.run \in Runs /\ m.status \in MessageStatuses BY DEF Messages
<1>2. CASE ~(Routed(i, m) /\ AcceptsResponse(m))
  BY <1>2 DEF ApplyResponse, OutcomesAreReal
<1>3. CASE Routed(i, m) /\ AcceptsResponse(m)
  <2>1. Justified(m) BY <1>3 DEF Routed
  <2>2. run' = [run EXCEPT ![m.run] = RunAfterResponse(m)] BY <1>3 DEF ApplyResponse
  <2>3. run[m.run] \in [state : RunStates \cup {"Absent"}, task : Nat]
    BY <1>1 DEF TypeOK
  <2> DEFINE after == RunAfterResponse(m)
  <2>4. after.state \in {"Completed", "Failed", "Cancelled"} =>
          /\ after.task \in DOMAIN tasks[m.run]
          /\ tasks[m.run][after.task] = Claimed(after.state)
    <3>1. CASE m.type = "dispatch_result"
      BY <2>3, <3>1 DEF RunAfterResponse, accept_dispatch
    <3>2. CASE m.type = "get_result"
      <4>1. run[m.run].task = m.task /\ m.status # "SucceededEmpty"
        BY <1>3, <3>2 DEF AcceptsResponse, accepts_observation
      <4>2. after = apply_observation(run[m.run], m.status)
        BY <3>2 DEF RunAfterResponse
      <4>3. after.task = m.task BY <2>3, <4>1, <4>2 DEF apply_observation
      <4>4. /\ after.state = "Completed" => m.status = "Succeeded"
            /\ after.state = "Failed" => m.status = "Unsuccessful"
            /\ after.state = "Cancelled" => m.status = "Cancelled"
        BY <1>1, <2>3, <4>2 DEF apply_observation, MessageStatuses, ObservationStatuses
      <4> QED BY <2>1, <3>2, <4>3, <4>4 DEF Justified, Ended, Claimed
    <3>3. CASE m.type = "cancel_result"
      <4>1. run[m.run].task = m.task /\ run[m.run].state = "Cancelling"
        BY <1>3, <3>3 DEF AcceptsResponse, accepts_cancellation_response
      <4>2. after = apply_cancellation_response(run[m.run], m.status)
        BY <3>3 DEF RunAfterResponse
      <4> QED BY <2>1, <2>3, <3>3, <4>1, <4>2
          DEF apply_cancellation_response, Justified, Ended, Claimed
    <3>4. CASE m.type = "result_result"
      <4>1. run[m.run].task = m.task BY <1>3, <3>4 DEF AcceptsResponse
      <4>2. after = complete_from_result(run[m.run]) BY <3>4 DEF RunAfterResponse
      <4> QED BY <2>1, <2>3, <3>4, <4>1, <4>2 DEF complete_from_result, Justified, Ended, Claimed
    <3> QED BY <1>3, <3>1, <3>2, <3>3, <3>4 DEF AcceptsResponse
  <2> HIDE DEF after
  <2>5. \A r \in Runs : run'[r] = IF r = m.run THEN after ELSE run[r]
    BY <1>1, <2>2 DEF TypeOK, after
  <2> QED BY <2>4, <2>5 DEF OutcomesAreReal
<1> QED BY <1>2, <1>3

LEMMA OutcomesStep ==
    ASSUME TypeOK, AnswersAreJustified, OutcomesAreReal, [Next]_vars
    PROVE  OutcomesAreReal'
<1>1. CASE ~ \E i \in Instances : ApplyControlMessage(i)
  <2> SUFFICES ASSUME NEW r \in Runs,
                      run'[r].state \in {"Completed", "Failed", "Cancelled"}
               PROVE  /\ run'[r].task \in DOMAIN tasks'[r]
                      /\ tasks'[r][run'[r].task] = Claimed(run'[r].state)
    BY DEF OutcomesAreReal
  <2>1. run'[r] = run[r] BY <1>1, NoNewOutcome
  <2>2. run[r].task \in DOMAIN tasks[r] /\ tasks[r][run[r].task] = Claimed(run[r].state)
    BY <2>1 DEF OutcomesAreReal
  <2>3. Claimed(run[r].state) \in EndStates BY DEF Claimed, EndStates
  <2>4. TasksPersist BY TasksPersistStep
  <2> QED BY <2>1, <2>2, <2>3, <2>4 DEF TasksPersist
<1>2. ASSUME NEW i \in Instances, ApplyControlMessage(i) PROVE OutcomesAreReal'
  <2>1. PICK k \in DOMAIN answers[i] :
          ApplyDelivery(i, answers[i][k]) \/ ApplyResponse(i, answers[i][k])
    BY <1>2 DEF ApplyControlMessage
  <2>2. UNCHANGED tasks BY <1>2 DEF ApplyControlMessage, workerVars
  <2>3. answers[i][k] \in Messages BY SeqElements DEF TypeOK
  <2>4. target[answers[i][k].run] = i => Justified(answers[i][k])
    BY DEF AnswersAreJustified
  <2>5. CASE ApplyDelivery(i, answers[i][k])
    BY <2>2, <2>5 DEF ApplyDelivery, OutcomesAreReal
  <2>6. CASE ApplyResponse(i, answers[i][k])
    BY <2>2, <2>3, <2>4, <2>6, ResponseOutcome
  <2> QED BY <2>1, <2>5, <2>6
<1> QED BY <1>1, <1>2

\* The inductive invariant.
OutcomeInv == TypeOK /\ AnswersAreJustified /\ OutcomesAreReal

\* A run is Completed, Failed or Cancelled only if its own task succeeded,
\* ended unsuccessfully or terminated, whatever is lost, repeated, reordered
\* or sent by another instance (apply_response_json, managed_agents.rs).
THEOREM OutcomesCorrect == Spec => []OutcomesAreReal
<1>1. Init => OutcomeInv
  BY InitTypeOK DEF Init, OutcomeInv, AnswersAreJustified, OutcomesAreReal, Absent
<1>2. OutcomeInv /\ [Next]_vars => OutcomeInv'
  BY NextTypeOK, AnswersJustifiedStep, OutcomesStep DEF OutcomeInv
<1>3. OutcomeInv => OutcomesAreReal BY DEF OutcomeInv
<1> QED BY <1>1, <1>2, <1>3, PTL DEF Spec

-----------------------------------------------------------------------------
(***************************************************************************)
(* A dispatch is executed at most once.                                    *)
(***************************************************************************)

\* Positions a tick, a cancel or a delivery message leaves in a ledger hold
\* commands of the kind they held, and new positions hold no dispatch.
LEMMA LedgerKinds ==
    ASSUME TypeOK, OneDispatch, [Next]_vars, NEW r \in Runs,
           NEW c \in DOMAIN ledger'[r], ledger'[r][c].kind = "Dispatch"
    PROVE  c = 1
<1>1. /\ ledger \in [Runs -> Seq(Commands)]
      /\ DOMAIN ledger[r] = 1..Len(ledger[r]) /\ Len(ledger[r]) \in Nat
  BY SeqElements DEF TypeOK
<1>2. \A d \in DOMAIN ledger[r] : ledger[r][d].kind = "Dispatch" => d = 1
  BY DEF OneDispatch
<1>3. CASE UNCHANGED ledger BY <1>2, <1>3
<1>4. CASE tick_managed_agents
  <2>1. PICK late \in SUBSET Runs, overdue \in [Runs -> SUBSET (1..MaxCommands)] :
          Tick(late, overdue)
    BY <1>4 DEF tick_managed_agents, Dispatching
  <2> DEFINE old == replay_due_commands(r, overdue)
             new == Issued(r, late)
  <2>2. ledger'[r] = old \o new BY <2>1 DEF Tick
  <2>3. old \in Seq(Commands) /\ new \in Seq(Commands) BY LedgerType
  <2>4. /\ DOMAIN old = DOMAIN ledger[r]
        /\ \A d \in DOMAIN old : old[d].kind = ledger[r][d].kind
    <3>1. \A d \in DOMAIN ledger[r] : ledger[r][d] \in Commands BY <1>1, SeqElements
    <3> QED BY <3>1 DEF replay_due_commands, Commands
  <2>5. \A d \in DOMAIN new : new[d].kind # "Dispatch"
    BY DEF Issued, register_command
  <2> HIDE DEF old, new
  <2>6. /\ Len(old) \in Nat /\ DOMAIN old = 1..Len(old)
        /\ Len(new) \in Nat /\ DOMAIN new = 1..Len(new)
    BY <2>3, SeqElements
  <2>7. c \in 1..(Len(old) + Len(new)) BY <2>2, <2>3, SeqElements, ConcatProperties
  <2>8. CASE c <= Len(old)
    <3>1. c \in DOMAIN old /\ ledger'[r][c] = old[c]
      BY <2>2, <2>3, <2>6, <2>7, <2>8, ConcatProperties
    <3> QED BY <1>2, <2>4, <3>1
  <2>9. CASE c > Len(old)
    <3>1. c - Len(old) \in DOMAIN new BY <2>6, <2>7, <2>9
    <3>2. ledger'[r][c] = new[c - Len(old)]
      BY <2>2, <2>3, <2>6, <2>7, <2>9, ConcatProperties
    <3> QED BY <2>5, <3>1, <3>2
  <2> QED BY <2>6, <2>7, <2>8, <2>9
<1>5. ASSUME NEW q \in Runs, dispatch_managed_agent(q) PROVE c = 1
  <2>1. ledger' = [ledger EXCEPT ![q] = <<register_command("Dispatch", NoTask)>>]
    BY <1>5 DEF dispatch_managed_agent
  <2>2. CASE q = r BY <1>1, <2>1, <2>2
  <2>3. CASE q # r BY <1>1, <1>2, <2>1, <2>3
  <2> QED BY <2>2, <2>3
<1>6. ASSUME NEW q \in Runs, NEW oversized, cancel_managed_agent(q, oversized) PROVE c = 1
  <2>1. CASE ledger'[r] = ledger[r] BY <1>2, <2>1
  <2>2. CASE ledger'[r] = Append(ledger[r], register_command("Cancel", run[q].task))
    <3>1. ledger[r] \in Seq(Commands) BY <1>1
    <3>2. c \in 1..(Len(ledger[r]) + 1) BY <2>2, <3>1
    <3>3. CASE c = Len(ledger[r]) + 1
      BY <1>1, <2>2, <3>1, <3>3 DEF register_command
    <3>4. CASE c <= Len(ledger[r])
      <4>1. c \in DOMAIN ledger[r] /\ ledger'[r][c] = ledger[r][c]
        BY <1>1, <2>2, <3>1, <3>2, <3>4
      <4> QED BY <1>2, <4>1
    <3> QED BY <1>1, <3>2, <3>3, <3>4
  <2> QED BY <1>1, <1>6, <2>1, <2>2 DEF cancel_managed_agent
<1>7. ASSUME NEW i \in Instances, ApplyControlMessage(i) PROVE c = 1
  <2>1. PICK k \in DOMAIN answers[i] :
          ApplyDelivery(i, answers[i][k]) \/ ApplyResponse(i, answers[i][k])
    BY <1>7 DEF ApplyControlMessage
  <2>2. \/ UNCHANGED ledger
        \/ \E q \in Runs : \E d \in DOMAIN ledger[q] : \E s :
             ledger' = [ledger EXCEPT ![q][d].state = s]
    <3>1. answers[i][k] \in Messages BY SeqElements DEF TypeOK
    <3>2. PICK m \in Messages : m = answers[i][k] BY <3>1
    <3>3. m.run \in Runs BY DEF Messages
    <3>4. CASE ApplyDelivery(i, m) BY <3>3, <3>4 DEF ApplyDelivery
    <3>5. CASE ApplyResponse(i, m)
      <4>1. Provable(m) \subseteq DOMAIN ledger[m.run] BY DEF Provable, Unanswered
      <4>2. \/ UNCHANGED ledger
            \/ \E d \in Provable(m) :
                 ledger' = [ledger EXCEPT ![m.run][d].state = "ProvenByResult"]
        BY <3>5 DEF ApplyResponse
      <4> QED BY <3>3, <4>1, <4>2
    <3> QED BY <2>1, <3>2, <3>4, <3>5
  <2>3. ASSUME NEW q \in Runs, NEW d \in DOMAIN ledger[q], NEW s,
               ledger' = [ledger EXCEPT ![q][d].state = s]
        PROVE  c = 1
    <3>1. DOMAIN ledger'[r] = DOMAIN ledger[r] BY <1>1, <2>3
    <3>2. ledger[r][c] \in Commands BY <1>1, <3>1, SeqElements
    <3>3. ledger'[r][c].kind = ledger[r][c].kind BY <1>1, <2>3, <3>1, <3>2 DEF Commands
    <3> QED BY <1>2, <3>1, <3>3
  <2> QED BY <1>3, <2>2, <2>3
<1>8. \/ UNCHANGED ledger
      \/ tick_managed_agents
      \/ \E q \in Runs : \/ dispatch_managed_agent(q)
                         \/ \E oversized \in BOOLEAN : cancel_managed_agent(q, oversized)
      \/ \E i \in Instances : ApplyControlMessage(i)
  BY WorkerKeepsSupervisor
     DEF Next, vars, supervisorVars, DeadlinePasses, TaskEnds, WorkerSendsResult,
         ApplyTransportEvent, connect_instance_session, disconnect_instance_session,
         StreamEnds, StreamConnects, StreamFailsToConnect, StreamDisconnects,
         InstanceStrays
<1> QED BY <1>3, <1>4, <1>5, <1>6, <1>7, <1>8

LEMMA OneDispatchStep ==
    ASSUME TypeOK, OneDispatch, ExecutesOnce, [Next]_vars
    PROVE  OneDispatch' /\ ExecutesOnce'
<1>1. \A r \in Runs : \A c \in DOMAIN ledger'[r] : ledger'[r][c].kind = "Dispatch" => c = 1
  BY LedgerKinds
<1>2. \A r \in Runs : tasks[r] \in Seq(TaskStates) /\ Len(tasks[r]) \in Nat
  BY SeqElements DEF TypeOK
<1>3. \A r \in Runs : Len(tasks[r]) <= 1 /\ (tasks[r] # << >> => 1 \in seen[r])
  BY DEF ExecutesOnce, OneDispatch
<1>4. \A r \in Runs : Len(tasks'[r]) <= 1 /\ (tasks'[r] # << >> => 1 \in seen'[r])
  <2>1. CASE UNCHANGED <<tasks, seen>> BY <1>3, <2>1
  <2>2. ASSUME NEW q \in Runs, TaskEnds(q)
        PROVE  \A r \in Runs : Len(tasks'[r]) <= 1 /\ (tasks'[r] # << >> => 1 \in seen'[r])
    <3>1. PICK t \in DOMAIN tasks[q], s \in TaskStates : tasks' = [tasks EXCEPT ![q][t] = s]
      BY <2>2 DEF TaskEnds, TaskStates
    <3>2. tasks'[q] = [tasks[q] EXCEPT ![t] = s] BY <3>1 DEF TypeOK
    <3>3. Len(tasks'[q]) = Len(tasks[q]) /\ tasks[q] # << >> BY <1>2, <3>1, <3>2
    <3>4. \A r \in Runs : r # q => tasks'[r] = tasks[r] BY <3>1 DEF TypeOK
    <3>5. seen' = seen BY <2>2 DEF TaskEnds
    <3> QED BY <1>3, <3>3, <3>4, <3>5
  <2>3. ASSUME NEW q \in Runs, NEW c \in DOMAIN ledger[q], WorkerStartsTask(q, c)
        PROVE  \A r \in Runs : Len(tasks'[r]) <= 1 /\ (tasks'[r] # << >> => 1 \in seen'[r])
    <3>1. c = 1 BY <2>3 DEF WorkerStartsTask, OneDispatch
    <3>2. 1 \notin seen[q] /\ seen' = [seen EXCEPT ![q] = @ \cup {1}]
      BY <2>3, <3>1 DEF WorkerStartsTask, Admits
    <3>3. tasks[q] = << >> BY <1>3, <3>2
    <3>4. tasks' = [tasks EXCEPT ![q] = <<"running">>]
      BY <2>3, <3>3 DEF WorkerStartsTask
    <3>5. \A r \in Runs : r # q => tasks'[r] = tasks[r] /\ seen'[r] = seen[r]
      BY <3>2, <3>4 DEF TypeOK
    <3>6. tasks'[q] = <<"running">> /\ 1 \in seen'[q] BY <3>2, <3>4 DEF TypeOK
    <3> TAKE r \in Runs
    <3>7. CASE r = q
      <4>1. Len(<<"running">>) <= 1 OBVIOUS
      <4> QED BY <3>6, <3>7, <4>1
    <3>8. CASE r # q BY <1>3, <3>5, <3>8
    <3> QED BY <3>7, <3>8
  <2>4. ASSUME NEW q \in Runs, NEW c \in DOMAIN ledger[q], WorkerCancels(q, c)
        PROVE  \A r \in Runs : Len(tasks'[r]) <= 1 /\ (tasks'[r] # << >> => 1 \in seen'[r])
    <3>1. \E t \in DOMAIN tasks[q] : \E s : tasks' = [tasks EXCEPT ![q][t] = s]
      BY <2>4 DEF WorkerCancels
    <3>0. PICK t \in DOMAIN tasks[q] : \E s : tasks' = [tasks EXCEPT ![q][t] = s] BY <3>1
    <3>6. PICK s : tasks' = [tasks EXCEPT ![q][t] = s] BY <3>0
    <3>2. tasks'[q] = [tasks[q] EXCEPT ![t] = s] BY <3>6 DEF TypeOK
    <3>3. Len(tasks'[q]) = Len(tasks[q]) /\ tasks[q] # << >> BY <1>2, <3>2
    <3>4. \A r \in Runs : r # q => tasks'[r] = tasks[r] BY <3>6 DEF TypeOK
    <3>5. \A r \in Runs : seen[r] \subseteq seen'[r]
      BY <2>4 DEF WorkerCancels, Admits, TypeOK
    <3> QED BY <1>3, <3>3, <3>4, <3>5
  <2>5. ASSUME NEW q \in Runs, NEW c \in DOMAIN ledger[q], Admits(q, c), UNCHANGED tasks
        PROVE  \A r \in Runs : Len(tasks'[r]) <= 1 /\ (tasks'[r] # << >> => 1 \in seen'[r])
    <3>1. \A r \in Runs : seen[r] \subseteq seen'[r] BY <2>5 DEF Admits, TypeOK
    <3> QED BY <1>3, <2>5, <3>1
  <2>6. ASSUME NEW q \in Runs, WorkerHandles(q)
        PROVE  \A r \in Runs : Len(tasks'[r]) <= 1 /\ (tasks'[r] # << >> => 1 \in seen'[r])
    <3>1. PICK c \in DOMAIN ledger[q] :
          \/ WorkerRepeatsAnswer(q, c)
          \/ WorkerRefusesDelivery(q, c)
          \/ WorkerStartsTask(q, c)
          \/ WorkerDeclines(q, c)
          \/ WorkerReports(q, c)
          \/ WorkerCancels(q, c)
      BY <2>6 DEF WorkerHandles
    <3>2. CASE WorkerRepeatsAnswer(q, c) \/ WorkerRefusesDelivery(q, c)
      BY <2>1, <3>2 DEF WorkerRepeatsAnswer, WorkerRefusesDelivery
    <3>3. CASE WorkerDeclines(q, c) \/ WorkerReports(q, c)
      <4>1. Admits(q, c) /\ UNCHANGED tasks BY <3>3 DEF WorkerDeclines, WorkerReports
      <4> QED BY <2>5, <4>1
    <3> QED BY <2>3, <2>4, <3>1, <3>2, <3>3
  <2>7. UNCHANGED <<tasks, seen>> \/ \E r \in Runs : WorkerHandles(r) \/ TaskEnds(r)
    BY DEF Next, vars, workerVars, tick_managed_agents, Tick, dispatch_managed_agent,
           cancel_managed_agent, DeadlinePasses, WorkerSendsResult, ApplyTransportEvent,
           ApplyControlMessage, connect_instance_session, disconnect_instance_session,
           StreamEnds, StreamConnects, StreamFailsToConnect, StreamDisconnects,
           InstanceStrays
  <2> QED BY <2>1, <2>2, <2>6, <2>7
<1> QED BY <1>1, <1>4 DEF OneDispatch, ExecutesOnce

\* However often a dispatch is replayed, over however many connections, the
\* worker starts one task for it (replay_due_commands keeps the command id).
THEOREM DispatchExecutesOnce == Spec => []ExecutesOnce
<1> DEFINE Inv == TypeOK /\ OneDispatch /\ ExecutesOnce
<1>1. Init => Inv
  BY InitTypeOK DEF Init, OneDispatch, ExecutesOnce
<1>2. Inv /\ [Next]_vars => Inv'
  BY NextTypeOK, OneDispatchStep
<1>3. Inv => ExecutesOnce OBVIOUS
<1> QED BY <1>1, <1>2, <1>3, PTL DEF Spec

-----------------------------------------------------------------------------
(***************************************************************************)
(* A settled delivery stays settled, when workers acknowledge with acks.   *)
(***************************************************************************)

NoReceipts ==
    \A i \in Instances : \A k \in DOMAIN answers[i] : answers[i][k].type # "receipt"

\* A run the supervisor does not know has no commands.
UnknownHasNoCommands == \A r \in Runs : ~Known(r) => ledger[r] = << >>

LEMMA UnknownStep ==
    ASSUME TypeOK, UnknownHasNoCommands, [Next]_vars
    PROVE  UnknownHasNoCommands'
<1>1. /\ ledger \in [Runs -> Seq(Commands)]
      /\ run \in [Runs -> [state : RunStates \cup {"Absent"}, task : Nat]]
  BY DEF TypeOK
<1> SUFFICES ASSUME NEW r \in Runs, run'[r].state = "Absent"
             PROVE  ledger'[r] = << >>
  BY DEF UnknownHasNoCommands, Known
<1>2. CASE UNCHANGED <<run, ledger>> BY <1>2 DEF UnknownHasNoCommands, Known
<1>3. CASE tick_managed_agents
  <2>1. PICK late \in SUBSET Runs, overdue \in [Runs -> SUBSET (1..MaxCommands)] :
          Tick(late, overdue)
    BY <1>3 DEF tick_managed_agents, Dispatching
  <2>2. run'[r] = IF CancelsExpired(r, late) THEN request_cancellation(run[r])
                                             ELSE AfterExpiry(r, late)
    BY <2>1 DEF Tick
  <2>3. run[r].state = "Absent"
    BY <1>1, <2>2 DEF request_cancellation, AfterExpiry, mark_dispatch_timed_out
  <2>4. ledger[r] = << >> BY <2>3 DEF UnknownHasNoCommands, Known
  <2>5. Issued(r, late) = << >>
    BY <2>3 DEF Issued, CancelsExpired, Polls, Scheduled, Known
  <2>6. replay_due_commands(r, overdue) = << >> BY <2>4 DEF replay_due_commands
  <2> QED BY <2>1, <2>5, <2>6 DEF Tick
<1>4. ASSUME NEW q \in Runs, dispatch_managed_agent(q) PROVE ledger'[r] = << >>
  <2>1. q # r BY <1>1, <1>4 DEF dispatch_managed_agent
  <2> QED BY <1>1, <1>4, <2>1 DEF dispatch_managed_agent, UnknownHasNoCommands, Known
<1>5. ASSUME NEW q \in Runs, NEW oversized, cancel_managed_agent(q, oversized)
      PROVE ledger'[r] = << >>
  <2>1. q # r BY <1>1, <1>5 DEF cancel_managed_agent, request_cancellation
  <2> QED BY <1>1, <1>5, <2>1 DEF cancel_managed_agent, UnknownHasNoCommands, Known
<1>6. ASSUME NEW i \in Instances, ApplyTransportEvent(i) PROVE ledger'[r] = << >>
  <2>1. run'[r] = MarkWorkers(i, Head(events[i]))[r] BY <1>6 DEF ApplyTransportEvent
  <2>2. run[r].state = "Absent"
    BY <1>1, <2>1 DEF MarkWorkers, mark_disconnected, mark_reconnected
  <2> QED BY <1>6, <2>2 DEF ApplyTransportEvent, UnknownHasNoCommands, Known
<1>7. ASSUME NEW i \in Instances, ApplyControlMessage(i) PROVE ledger'[r] = << >>
  <2>1. PICK k \in DOMAIN answers[i] :
          ApplyDelivery(i, answers[i][k]) \/ ApplyResponse(i, answers[i][k])
    BY <1>7 DEF ApplyControlMessage
  <2>2. answers[i][k] \in Messages BY SeqElements DEF TypeOK
  <2>3. PICK m \in Messages : m = answers[i][k] BY <2>2
  <2>4. m.run \in Runs BY DEF Messages
  <2>5. CASE ApplyDelivery(i, m)
    <3>1. run[r].state = "Absent" BY <2>5 DEF ApplyDelivery
    <3>2. CASE Routed(i, m) /\ m.cmd \in DOMAIN ledger[m.run]
      <4>1. m.run # r BY <3>1, <3>2 DEF Routed, Known
      <4>2. ledger'[r] = ledger[r] BY <1>1, <2>4, <2>5, <3>2, <4>1 DEF ApplyDelivery
      <4> QED BY <3>1, <4>2 DEF UnknownHasNoCommands, Known
    <3>3. CASE ~(Routed(i, m) /\ m.cmd \in DOMAIN ledger[m.run])
      BY <2>5, <3>1, <3>3 DEF ApplyDelivery, UnknownHasNoCommands, Known
    <3> QED BY <3>2, <3>3
  <2>6. CASE ApplyResponse(i, m)
    <3>1. CASE ~(Routed(i, m) /\ AcceptsResponse(m))
      BY <2>6, <3>1 DEF ApplyResponse, UnknownHasNoCommands, Known
    <3>2. CASE Routed(i, m) /\ AcceptsResponse(m)
      <4>1. run' = [run EXCEPT ![m.run] = RunAfterResponse(m)] BY <2>6, <3>2 DEF ApplyResponse
      <4>2. RunAfterResponse(m).state # "Absent"
        <5>1. run[m.run] \in [state : RunStates, task : Nat]
          BY <1>1, <2>4, <3>2 DEF Routed, Known
        <5>2. CASE m.type = "get_result"
          <6>1. m.status \in ObservationStatuses BY <5>2 DEF Messages
          <6> QED BY <5>1, <5>2, <6>1 DEF RunAfterResponse, apply_observation, ObservationStatuses
        <5>3. CASE m.type # "get_result"
          BY <5>1, <5>3 DEF RunAfterResponse, accept_dispatch, apply_cancellation_response,
                            complete_from_result, RunStates
        <5> QED BY <5>2, <5>3
      <4>3. m.run # r BY <1>1, <2>4, <4>1, <4>2
      <4>4. ledger'[r] = ledger[r] BY <1>1, <2>4, <2>6, <3>2, <4>3 DEF ApplyResponse
      <4>5. run'[r] = run[r] BY <1>1, <2>4, <4>1, <4>3
      <4> QED BY <4>4, <4>5 DEF UnknownHasNoCommands, Known
    <3> QED BY <3>1, <3>2
  <2> QED BY <2>1, <2>3, <2>5, <2>6
<1>8. \/ UNCHANGED <<run, ledger>>
      \/ tick_managed_agents
      \/ \E q \in Runs : \/ dispatch_managed_agent(q)
                         \/ \E oversized \in BOOLEAN : cancel_managed_agent(q, oversized)
      \/ \E i \in Instances : ApplyTransportEvent(i) \/ ApplyControlMessage(i)
  BY WorkerKeepsSupervisor
     DEF Next, vars, supervisorVars, DeadlinePasses, TaskEnds, WorkerSendsResult,
         connect_instance_session, disconnect_instance_session,
         StreamEnds, StreamConnects, StreamFailsToConnect, StreamDisconnects,
         InstanceStrays
<1> QED BY <1>2, <1>3, <1>4, <1>5, <1>6, <1>7, <1>8

\* What a worker sends about a command is no receipt, unless it uses them.
LEMMA WorkerSends ==
    ASSUME TypeOK, NEW r \in Runs, WorkerHandles(r)
    PROVE  \E ms \in Seq(Messages) :
              Sends(r, ms) /\ \A k \in DOMAIN ms : ms[k].type \in AckKinds \/ ms[k].type # "receipt"
<1>1. PICK c \in DOMAIN ledger[r] :
        \/ WorkerRepeatsAnswer(r, c)
        \/ WorkerRefusesDelivery(r, c)
        \/ WorkerStartsTask(r, c)
        \/ WorkerDeclines(r, c)
        \/ WorkerReports(r, c)
        \/ WorkerCancels(r, c)
  BY DEF WorkerHandles
<1>2. {"accepted", "duplicate", "retryable", "rejected", "none"} \subseteq MessageStatuses
  BY DEF MessageStatuses
<1>3. \A t \in DOMAIN tasks[r] : t \in Nat BY SeqElements DEF TypeOK
<1>4. Len(tasks[r]) + 1 \in Nat BY SeqElements DEF TypeOK
<1>5. ASSUME NEW status \in MessageStatuses, NEW answer \in Seq(Messages),
             \A j \in DOMAIN answer : answer[j].type # "receipt",
             NEW ms \in Replies(r, c, status, answer), Sends(r, ms)
      PROVE  \E rs \in Seq(Messages) :
               Sends(r, rs) /\ \A k \in DOMAIN rs : rs[k].type \in AckKinds \/ rs[k].type # "receipt"
  <2>1. ms \in Seq(Messages) BY RepliesType
  <2>2. \A k \in DOMAIN ms : ms[k].type \in AckKinds \/ ms[k].type # "receipt"
    <3> TAKE k \in DOMAIN ms
    <3>1. ms[k].type \in AckKinds \/ \E j \in DOMAIN answer : ms[k] = answer[j]
      BY RepliesElements
    <3> QED BY <1>5, <3>1
  <2> QED BY <1>5, <2>1, <2>2
<1>6. \A m \in Messages : m.type # "receipt" =>
        <<m>> \in Seq(Messages) /\ \A j \in DOMAIN <<m>> : <<m>>[j].type # "receipt"
  OBVIOUS
<1>7. << >> \in Seq(Messages) /\ \A j \in DOMAIN << >> : << >>[j].type # "receipt"
  OBVIOUS
<1>8. CASE WorkerRepeatsAnswer(r, c) \/ WorkerRefusesDelivery(r, c)
  BY <1>2, <1>5, <1>7, <1>8 DEF WorkerRepeatsAnswer, WorkerRefusesDelivery
<1>9. CASE WorkerStartsTask(r, c)
  <2>1. PICK m \in Messages : m = Message("dispatch_result", r, 0, Len(tasks[r]) + 1, "none")
    BY <1>2, <1>4, MessageType DEF MessageTypes
  <2>2. m.type # "receipt" BY <2>1 DEF Message
  <2> QED BY <1>2, <1>5, <1>6, <1>9, <2>1, <2>2 DEF WorkerStartsTask
<1>10. CASE WorkerDeclines(r, c)
  <2>1. PICK m \in Messages : m = Message("rejection", r, 0, 0, "none")
    BY <1>2, MessageType DEF MessageTypes
  <2>2. m.type # "receipt" BY <2>1 DEF Message
  <2> QED BY <1>2, <1>5, <1>6, <1>10, <2>1, <2>2 DEF WorkerDeclines
<1>11. CASE WorkerReports(r, c)
  <2> DEFINE t == ledger[r][c].task
  <2>1. PICK status \in Observations(tasks[r][t]) :
          \E ms \in Replies(r, c, "accepted", <<Message("get_result", r, 0, t, status)>>) :
             Sends(r, ms)
    BY <1>11 DEF WorkerReports
  <2>2. status \in ObservationStatuses BY DEF Observations, ObservationStatuses
  <2>3. t \in DOMAIN tasks[r] BY <1>11 DEF WorkerReports
  <2>4. PICK m \in Messages : m = Message("get_result", r, 0, t, status)
    BY <1>3, <2>2, <2>3, MessageType DEF MessageTypes, MessageStatuses
  <2>5. m.type # "receipt" BY <2>4 DEF Message
  <2> QED BY <1>2, <1>5, <1>6, <2>1, <2>4, <2>5
<1>12. CASE WorkerCancels(r, c)
  <2> DEFINE t == ledger[r][c].task
  <2>1. PICK outcome \in CancelOutcomes(tasks[r][t]) :
          \E ms \in Replies(r, c, "accepted",
                            <<Message("cancel_result", r, 0, t, outcome[2])>>) : Sends(r, ms)
    BY <1>12 DEF WorkerCancels
  <2>2. t \in DOMAIN tasks[r] BY <1>12 DEF WorkerCancels
  <2>3. outcome[2] \in MessageStatuses BY DEF CancelOutcomes, MessageStatuses
  <2>4. PICK m \in Messages : m = Message("cancel_result", r, 0, t, outcome[2])
    BY <1>3, <2>2, <2>3, MessageType DEF MessageTypes
  <2>5. m.type # "receipt" BY <2>4 DEF Message
  <2> QED BY <1>2, <1>5, <1>6, <2>1, <2>4, <2>5
<1> QED BY <1>1, <1>8, <1>9, <1>10, <1>11, <1>12

LEMMA NoReceiptsStep ==
    ASSUME "receipt" \notin AckKinds, TypeOK, NoReceipts, [Next]_vars
    PROVE  NoReceipts'
<1>1. answers \in [Instances -> Seq(Messages)] BY DEF TypeOK
<1> SUFFICES ASSUME NEW i \in Instances, NEW k \in DOMAIN answers'[i]
             PROVE  answers'[i][k].type # "receipt"
  BY DEF NoReceipts
<1>2. ASSUME NEW j \in DOMAIN answers[i], answers'[i][k] = answers[i][j]
      PROVE  answers'[i][k].type # "receipt"
  BY <1>2 DEF NoReceipts
<1>3. CASE UNCHANGED answers BY <1>3 DEF NoReceipts
<1>4. ASSUME NEW n \in Instances,
             \/ ApplyControlMessage(n)
             \/ disconnect_instance_session(n)
             \/ StreamDisconnects(n)
      PROVE  answers'[i][k].type # "receipt"
  BY <1>2, <1>4, QueuesShrink
<1>5. ASSUME NEW r \in Runs, WorkerHandles(r) PROVE answers'[i][k].type # "receipt"
  <2>1. PICK ms \in Seq(Messages) : Sends(r, ms) /\ \A j \in DOMAIN ms : ms[j].type # "receipt"
    BY <1>5, WorkerSends
  <2> QED BY <1>2, <2>1, SendsElements
<1>6. ASSUME NEW r \in Runs, WorkerSendsResult(r) PROVE answers'[i][k].type # "receipt"
  <2>1. PICK t \in DOMAIN tasks[r] : Sends(r, <<Message("result_result", r, 0, t, "none")>>)
    BY <1>6 DEF WorkerSendsResult
  <2>2. t \in Nat BY SeqElements DEF TypeOK
  <2>3. PICK m \in Messages : m = Message("result_result", r, 0, t, "none")
    BY <2>2, MessageType DEF MessageTypes, MessageStatuses
  <2>4. m.type # "receipt" BY <2>3 DEF Message
  <2>5. PICK ms \in Seq(Messages) : ms = <<m>>
    <3>1. <<m>> \in Seq(Messages) OBVIOUS
    <3> QED BY <3>1
  <2>6. Sends(r, ms) /\ \A j \in DOMAIN ms : ms[j] = m BY <2>1, <2>3, <2>5
  <2> QED BY <1>2, <2>4, <2>6, SendsElements
<1>7. ASSUME NEW n \in Instances, NEW r \in Runs, InstanceStrays(n, r)
      PROVE  answers'[i][k].type # "receipt"
  <2>1. PICK m : m.type # "receipt" /\ answers' = [answers EXCEPT ![n] = Append(@, m)]
    BY <1>7 DEF InstanceStrays, Message
  <2>2. CASE i # n BY <1>1, <1>2, <2>1, <2>2
  <2>3. CASE i = n
    <3>1. answers'[i] = Append(answers[i], m) /\ answers[i] \in Seq(Messages)
      BY <1>1, <2>1, <2>3
    <3>2. \/ k \in DOMAIN answers[i] /\ answers'[i][k] = answers[i][k]
          \/ answers'[i][k] = m
      BY <3>1
    <3> QED BY <1>2, <2>1, <3>2
  <2> QED BY <2>2, <2>3
<1>8. \/ UNCHANGED answers
      \/ \E r \in Runs : WorkerHandles(r) \/ WorkerSendsResult(r)
      \/ \E n \in Instances : \/ ApplyControlMessage(n)
                              \/ disconnect_instance_session(n)
                              \/ StreamDisconnects(n)
                              \/ \E r \in Runs : InstanceStrays(n, r)
  BY DEF Next, vars, streamVars, tick_managed_agents, Tick, dispatch_managed_agent,
         cancel_managed_agent, DeadlinePasses, TaskEnds, ApplyTransportEvent,
         connect_instance_session, StreamEnds, StreamConnects, StreamFailsToConnect
<1> QED BY <1>3, <1>4, <1>5, <1>6, <1>7, <1>8

\* No step opens or changes a settled delivery.
LEMMA SettledStep ==
    ASSUME TypeOK, NoReceipts, UnknownHasNoCommands, [Next]_vars,
           NEW r \in Runs, NEW c \in DOMAIN ledger[r],
           ledger[r][c].state \notin Unsettled
    PROVE  ledger'[r][c] = ledger[r][c]
<1>1. /\ ledger \in [Runs -> Seq(Commands)]
      /\ DOMAIN ledger[r] = 1..Len(ledger[r]) /\ Len(ledger[r]) \in Nat
      /\ ledger[r] \in Seq(Commands) /\ ledger[r][c] \in Commands
  BY SeqElements DEF TypeOK
<1>2. CASE UNCHANGED ledger BY <1>2
<1>3. CASE tick_managed_agents
  <2>1. PICK late \in SUBSET Runs, overdue \in [Runs -> SUBSET (1..MaxCommands)] :
          (\A q \in Runs : overdue[q] \subseteq Unanswered(q)) /\ Tick(late, overdue)
    BY <1>3 DEF tick_managed_agents, Dispatching
  <2> DEFINE old == replay_due_commands(r, overdue)
             new == Issued(r, late)
  <2>2. ledger'[r] = old \o new BY <2>1 DEF Tick
  <2>3. old \in Seq(Commands) /\ new \in Seq(Commands) BY LedgerType
  <2>4. c \notin overdue[r] BY <2>1 DEF Unanswered
  <2>5. c \in DOMAIN old /\ old[c] = ledger[r][c] BY <2>4 DEF replay_due_commands
  <2> HIDE DEF old, new
  <2>6. c \in 1..Len(old) /\ Len(old) \in Nat /\ Len(new) \in Nat
    BY <2>3, <2>5, SeqElements
  <2>7. (old \o new)[c] = old[c] BY <2>3, <2>6, ConcatProperties
  <2> QED BY <2>2, <2>5, <2>7
<1>4. ASSUME NEW q \in Runs, dispatch_managed_agent(q) PROVE ledger'[r][c] = ledger[r][c]
  <2>1. q # r BY <1>1, <1>4 DEF dispatch_managed_agent, UnknownHasNoCommands
  <2> QED BY <1>1, <1>4, <2>1 DEF dispatch_managed_agent
<1>5. ASSUME NEW q \in Runs, NEW oversized, cancel_managed_agent(q, oversized)
      PROVE  ledger'[r][c] = ledger[r][c]
  <2>1. CASE ledger'[r] = ledger[r] BY <2>1
  <2>2. CASE ledger'[r] = Append(ledger[r], register_command("Cancel", run[q].task))
    BY <1>1, <2>2
  <2> QED BY <1>1, <1>5, <2>1, <2>2 DEF cancel_managed_agent
<1>6. ASSUME NEW i \in Instances, ApplyControlMessage(i) PROVE ledger'[r][c] = ledger[r][c]
  <2>1. PICK k \in DOMAIN answers[i] :
          ApplyDelivery(i, answers[i][k]) \/ ApplyResponse(i, answers[i][k])
    BY <1>6 DEF ApplyControlMessage
  <2>2. answers[i][k] \in Messages /\ answers[i][k].type # "receipt"
    BY SeqElements DEF TypeOK, NoReceipts
  <2>3. PICK m \in Messages : m = answers[i][k] BY <2>2
  <2>4. m.run \in Runs /\ m.type # "receipt" BY <2>2, <2>3 DEF Messages
  <2>5. CASE ApplyDelivery(i, m)
    <3>1. CASE m.run = r /\ m.cmd = c
      <4>1. DeliveryState(ledger[r][c], m) = ledger[r][c].state
        BY <2>4, <2>5 DEF DeliveryState, AckState, ApplyDelivery, IsDelivery
      <4>2. [ledger[r][c] EXCEPT !.state = ledger[r][c].state] = ledger[r][c]
        BY <1>1 DEF Commands
      <4> QED BY <1>1, <2>5, <3>1, <4>1, <4>2 DEF ApplyDelivery
    <3>2. CASE ~(m.run = r /\ m.cmd = c)
      BY <1>1, <2>4, <2>5, <3>2 DEF ApplyDelivery
    <3> QED BY <3>1, <3>2
  <2>6. CASE ApplyResponse(i, m)
    <3>1. ASSUME NEW d \in Provable(m),
                 ledger' = [ledger EXCEPT ![m.run][d].state = "ProvenByResult"]
          PROVE  ledger'[r][c] = ledger[r][c]
      <4>1. ~(m.run = r /\ d = c) BY DEF Provable, Unanswered
      <4> QED BY <1>1, <2>4, <3>1, <4>1
    <3> QED BY <1>2, <2>6, <3>1 DEF ApplyResponse
  <2> QED BY <2>1, <2>3, <2>5, <2>6
<1>7. \/ UNCHANGED ledger
      \/ tick_managed_agents
      \/ \E q \in Runs : \/ dispatch_managed_agent(q)
                         \/ \E oversized \in BOOLEAN : cancel_managed_agent(q, oversized)
      \/ \E i \in Instances : ApplyControlMessage(i)
  BY WorkerKeepsSupervisor
     DEF Next, vars, supervisorVars, DeadlinePasses, TaskEnds, WorkerSendsResult,
         ApplyTransportEvent, connect_instance_session, disconnect_instance_session,
         StreamEnds, StreamConnects, StreamFailsToConnect, StreamDisconnects,
         InstanceStrays
<1> QED BY <1>2, <1>3, <1>4, <1>5, <1>6, <1>7

\* With workers that acknowledge by acks, no late, repeated or misrouted
\* acknowledgement, no replay and no result changes the delivery state of a
\* command that has settled (apply_command_ack_json, replay_due_commands).
\* The assumption is needed: with receipts ControlLateReceipt.cfg shows the
\* opposite.
THEOREM SettledStaysSettled ==
    ASSUME "receipt" \notin AckKinds
    PROVE  Spec => SettledIsFinal
<1> DEFINE Inv == TypeOK /\ NoReceipts /\ UnknownHasNoCommands
<1>1. Init => Inv
  BY InitTypeOK DEF Init, NoReceipts, UnknownHasNoCommands
<1>2. Inv /\ [Next]_vars => Inv'
  BY NextTypeOK, NoReceiptsStep, UnknownStep
<1>3. Inv /\ [Next]_vars =>
        [\A r \in Runs : \A c \in DOMAIN ledger[r] :
            ledger[r][c].state \notin Unsettled => ledger'[r][c] = ledger[r][c]]_vars
  BY SettledStep
<1> QED BY <1>1, <1>2, <1>3, PTL DEF Spec, SettledIsFinal

-----------------------------------------------------------------------------
(***************************************************************************)
(* A run that has ended stays as it ended.  apply_observation looks at the *)
(* task and not at the state of the run, so this rests on the order of the *)
(* answers: a report that comes after the news of an end was made after    *)
(* it, and says the same.                                                  *)
(***************************************************************************)

OutcomeStates == {"Completed", "Failed", "Cancelled"}

\* The answers that can end a run.
ClaimsEnd(m) ==
    \/ m.type = "get_result" /\ m.status \in {"Succeeded", "Unsuccessful", "Cancelled"}
    \/ m.type = "cancel_result" /\ m.status = "confirmed"
    \/ m.type = "result_result"

\* What m reports is what its task is like now.
UpToDate(m) ==
    /\ m.task \in DOMAIN tasks[m.run]
    /\ m.status \in Observations(tasks[m.run][m.task])

\* The supervisor holds an outcome of m's task.
OutcomeHeld(m) == run[m.run].state \in OutcomeStates /\ run[m.run].task = m.task

\* An answer before the k-th of queue q claims the end of the same task.
ComesAfterTheEnd(q, k) ==
    \E j \in 1..(k - 1) : ClaimsEnd(q[j]) /\ q[j].run = q[k].run /\ q[j].task = q[k].task

\* A report that is read after the end of its task was made after it.
OrderedAnswers ==
    \A i \in Instances : \A k \in DOMAIN answers[i] :
        /\ answers[i][k].type = "get_result"
        /\ target[answers[i][k].run] = i
        /\ OutcomeHeld(answers[i][k]) \/ ComesAfterTheEnd(answers[i], k)
        => UpToDate(answers[i][k])

\* A run whose dispatch was not accepted has no task.
NotYetAccepted ==
    \A r \in Runs : run[r].state \in {"Dispatching", "DispatchTimedOut"} => run[r].task = NoTask

\* An answer from the run's own instance that claims an end speaks of a task that has ended.
LEMMA ClaimedTaskEnded ==
    ASSUME TypeOK, AnswersAreJustified, NEW i \in Instances, NEW j \in DOMAIN answers[i],
           NEW m, m = answers[i][j], target[m.run] = i, ClaimsEnd(m)
    PROVE  m.task \in DOMAIN tasks[m.run] /\ tasks[m.run][m.task] \in EndStates
<1>1. Justified(m) BY DEF AnswersAreJustified
<1> QED BY <1>1 DEF Justified, Ended, ClaimsEnd, EndStates

\* A report of a task that has ended stays true.
LEMMA ReportStaysTrue ==
    ASSUME TasksPersist, NEW m, m.run \in Runs, UpToDate(m), tasks[m.run][m.task] \in EndStates
    PROVE  UpToDate(m)'
BY DEF UpToDate, TasksPersist

\* What a worker reports about a command is what the task is like.
LEMMA WorkerReportsTheTruth ==
    ASSUME TypeOK, NEW r \in Runs, WorkerHandles(r)
    PROVE  \E ms \in Seq(Messages) :
              /\ Sends(r, ms)
              /\ \A k \in DOMAIN ms : ms[k].type = "get_result" => UpToDate(ms[k])'
<1> DEFINE True(m) == m.type = "get_result" => UpToDate(m)'
<1>1. PICK c \in DOMAIN ledger[r] :
        \/ WorkerRepeatsAnswer(r, c)
        \/ WorkerRefusesDelivery(r, c)
        \/ WorkerStartsTask(r, c)
        \/ WorkerDeclines(r, c)
        \/ WorkerReports(r, c)
        \/ WorkerCancels(r, c)
  BY DEF WorkerHandles
<1>2. {"accepted", "duplicate", "retryable", "rejected", "none"} \subseteq MessageStatuses
  BY DEF MessageStatuses
<1>3. \A t \in DOMAIN tasks[r] : t \in Nat BY SeqElements DEF TypeOK
<1>4. Len(tasks[r]) + 1 \in Nat BY SeqElements DEF TypeOK
<1>5. \A m : m.type # "get_result" => True(m) OBVIOUS
<1>6. \A ms : (\A k \in DOMAIN ms : True(ms[k])) =>
              (\A k \in DOMAIN ms : ms[k].type = "get_result" => UpToDate(ms[k])')
  BY DEF UpToDate
<1> HIDE DEF True
<1>7. "get_result" \notin AckKinds BY ControlAssumption
<1>8. ASSUME NEW status \in MessageStatuses, NEW answer \in Seq(Messages),
             \A j \in DOMAIN answer : True(answer[j]),
             NEW ms \in Replies(r, c, status, answer), Sends(r, ms)
      PROVE  \E rs \in Seq(Messages) : Sends(r, rs) /\ \A k \in DOMAIN rs : True(rs[k])
  <2>1. ms \in Seq(Messages) BY RepliesType
  <2>2. \A k \in DOMAIN ms : True(ms[k])
    <3> TAKE k \in DOMAIN ms
    <3>1. ms[k].type \in AckKinds \/ \E j \in DOMAIN answer : ms[k] = answer[j]
      BY RepliesElements
    <3> QED BY <1>5, <1>7, <1>8, <3>1
  <2> QED BY <1>8, <2>1, <2>2
<1>9. \A m \in Messages : True(m) =>
        <<m>> \in Seq(Messages) /\ \A j \in DOMAIN <<m>> : True(<<m>>[j])
  OBVIOUS
<1>10. << >> \in Seq(Messages) /\ \A j \in DOMAIN << >> : True(<< >>[j])
  OBVIOUS
<1>11. \E rs \in Seq(Messages) : Sends(r, rs) /\ \A k \in DOMAIN rs : True(rs[k])
  <2>1. CASE WorkerRepeatsAnswer(r, c) \/ WorkerRefusesDelivery(r, c)
    BY <1>2, <1>8, <1>10, <2>1 DEF WorkerRepeatsAnswer, WorkerRefusesDelivery
  <2>2. CASE WorkerStartsTask(r, c)
    <3>1. PICK m \in Messages : m = Message("dispatch_result", r, 0, Len(tasks[r]) + 1, "none")
      BY <1>2, <1>4, MessageType DEF MessageTypes
    <3>2. True(m) BY <1>5, <3>1 DEF Message
    <3> QED BY <1>2, <1>8, <1>9, <2>2, <3>1, <3>2 DEF WorkerStartsTask
  <2>3. CASE WorkerDeclines(r, c)
    <3>1. PICK m \in Messages : m = Message("rejection", r, 0, 0, "none")
      BY <1>2, MessageType DEF MessageTypes
    <3>2. True(m) BY <1>5, <3>1 DEF Message
    <3> QED BY <1>2, <1>8, <1>9, <2>3, <3>1, <3>2 DEF WorkerDeclines
  <2>4. CASE WorkerReports(r, c)
    <3> DEFINE t == ledger[r][c].task
    <3>1. PICK status \in Observations(tasks[r][t]) :
            \E ms \in Replies(r, c, "accepted", <<Message("get_result", r, 0, t, status)>>) :
               Sends(r, ms)
      BY <2>4 DEF WorkerReports
    <3>2. status \in ObservationStatuses BY DEF Observations, ObservationStatuses
    <3>3. t \in DOMAIN tasks[r] /\ tasks' = tasks BY <2>4 DEF WorkerReports
    <3>4. PICK m \in Messages : m = Message("get_result", r, 0, t, status)
      BY <1>3, <3>2, <3>3, MessageType DEF MessageTypes, MessageStatuses
    <3>5. m.run = r /\ m.task = t /\ m.status = status BY <3>4 DEF Message
    <3>6. True(m) BY <3>1, <3>3, <3>5 DEF True, UpToDate
    <3> QED BY <1>2, <1>8, <1>9, <3>1, <3>4, <3>6
  <2>5. CASE WorkerCancels(r, c)
    <3> DEFINE t == ledger[r][c].task
    <3>1. PICK outcome \in CancelOutcomes(tasks[r][t]) :
            \E ms \in Replies(r, c, "accepted",
                              <<Message("cancel_result", r, 0, t, outcome[2])>>) : Sends(r, ms)
      BY <2>5 DEF WorkerCancels
    <3>2. t \in DOMAIN tasks[r] BY <2>5 DEF WorkerCancels
    <3>3. outcome[2] \in MessageStatuses BY DEF CancelOutcomes, MessageStatuses
    <3>4. PICK m \in Messages : m = Message("cancel_result", r, 0, t, outcome[2])
      BY <1>3, <3>2, <3>3, MessageType DEF MessageTypes
    <3>5. True(m) BY <1>5, <3>4 DEF Message
    <3> QED BY <1>2, <1>8, <1>9, <3>1, <3>4, <3>5
  <2> QED BY <1>1, <2>1, <2>2, <2>3, <2>4, <2>5
<1> QED BY <1>6, <1>11

\* What waits after a send was there at the same place or has just been sent.
LEMMA SendsPositions ==
    ASSUME TypeOK, NEW r \in Runs, NEW ms \in Seq(Messages), Sends(r, ms),
           NEW i \in Instances, NEW k \in DOMAIN answers'[i]
    PROVE  \/ /\ k \in DOMAIN answers[i] /\ answers'[i][k] = answers[i][k]
              /\ \A j \in 1..(k - 1) : answers'[i][j] = answers[i][j]
           \/ \E j \in DOMAIN ms : answers'[i][k] = ms[j]
<1>1. answers \in [Instances -> Seq(Messages)] /\ target[r] \in Instances
  BY ControlAssumption DEF TypeOK
<1>2. CASE answers'[i] = answers[i] BY <1>2
<1>3. CASE answers'[i] = answers[i] \o ms
  <2>1. k \in 1..(Len(answers[i]) + Len(ms)) BY <1>1, <1>3, ConcatProperties, SeqElements
  <2>2. Len(answers[i]) \in Nat /\ Len(ms) \in Nat BY <1>1, SeqElements
  <2>3. CASE k <= Len(answers[i])
    <3>1. \A j \in 1..k : answers'[i][j] = answers[i][j]
      BY <1>1, <1>3, <2>1, <2>2, <2>3, ConcatProperties
    <3>2. k \in DOMAIN answers[i] BY <1>1, <2>1, <2>3, SeqElements
    <3> QED BY <2>1, <2>2, <3>1, <3>2
  <2>4. CASE k > Len(answers[i])
    <3>1. k - Len(answers[i]) \in DOMAIN ms BY <2>1, <2>2, <2>4, SeqElements
    <3>2. answers'[i][k] = ms[k - Len(answers[i])]
      BY <1>1, <1>3, <2>1, <2>2, <2>4, ConcatProperties
    <3> QED BY <3>1, <3>2
  <2> QED BY <2>1, <2>2, <2>3, <2>4
<1> QED BY <1>1, <1>2, <1>3 DEF Sends

\* The queue moves up by one when its first message is read.
LEMMA FirstIsRead ==
    ASSUME NEW S, NEW q \in Seq(S), 1 \in DOMAIN q, NEW k \in DOMAIN Without(q, 1)
    PROVE  /\ k \in Nat /\ k + 1 \in DOMAIN q /\ Without(q, 1)[k] = q[k + 1]
           /\ \A j \in 1..(k - 1) : Without(q, 1)[j] = q[j + 1]
<1>1. Len(q) \in Nat /\ Len(q) >= 1 /\ DOMAIN q = 1..Len(q) BY SeqElements
<1> DEFINE front == SubSeq(q, 1, 0)
           back == SubSeq(q, 2, Len(q))
<1>2. front = << >> BY <1>1
<1>3. /\ back \in Seq(S) /\ Len(back) = Len(q) - 1
      /\ \A n \in 1..(Len(q) - 1) : back[n] = q[n + 1]
  BY <1>1
<1> HIDE DEF front, back
<1>4. Without(q, 1) = front \o back BY DEF Without, front, back
<1>5. Without(q, 1) = back BY <1>2, <1>3, <1>4
<1>6. k \in 1..(Len(q) - 1) BY <1>1, <1>3, <1>5, SeqElements
<1> QED BY <1>1, <1>3, <1>5, <1>6

\* With a sequential worker an answer is new, and true, or was waiting before, behind all that
\* is before it now.
LEMMA AnswersKeepTheirOrder ==
    ASSUME ~ConcurrentWorker, TypeOK, [Next]_vars, NEW i \in Instances, NEW k \in DOMAIN answers'[i],
           NEW m, m = answers'[i][k], m.type = "get_result", target[m.run] = i
    PROVE  \/ UpToDate(m)'
           \/ \E l \in DOMAIN answers[i] :
                 /\ m = answers[i][l]
                 /\ \A j \in 1..(k - 1) : \E h \in 1..(l - 1) : answers'[i][j] = answers[i][h]
<1> DEFINE Old == \E l \in DOMAIN answers[i] :
                     /\ m = answers[i][l]
                     /\ \A j \in 1..(k - 1) : \E h \in 1..(l - 1) : answers'[i][j] = answers[i][h]
<1>1. answers \in [Instances -> Seq(Messages)] BY DEF TypeOK
<1>2. ASSUME k \in DOMAIN answers[i], answers'[i][k] = answers[i][k],
             \A j \in 1..(k - 1) : answers'[i][j] = answers[i][j]
      PROVE  Old
  BY <1>2
<1>3. CASE answers'[i] = answers[i] BY <1>2, <1>3
<1>4. ASSUME NEW n \in Instances, ApplyControlMessage(n) PROVE Old
  <2>1. PICK h \in DOMAIN answers[n] : h = 1 /\ answers' = [answers EXCEPT ![n] = Without(@, h)]
    BY <1>4 DEF ApplyControlMessage
  <2>2. CASE n # i BY <1>1, <1>3, <2>1, <2>2
  <2>3. CASE n = i
    <3>1. answers'[i] = Without(answers[i], 1) /\ 1 \in DOMAIN answers[i] /\ answers[i] \in Seq(Messages)
      BY <1>1, <2>1, <2>3
    <3>2. /\ k \in Nat /\ k + 1 \in DOMAIN answers[i] /\ answers'[i][k] = answers[i][k + 1]
          /\ \A j \in 1..(k - 1) : answers'[i][j] = answers[i][j + 1]
      BY <3>1, FirstIsRead
    <3>3. \A j \in 1..(k - 1) : j + 1 \in 1..((k + 1) - 1) BY <3>2
    <3> QED BY <3>2, <3>3
  <2> QED BY <2>2, <2>3
<1>5. ASSUME NEW n \in Instances, disconnect_instance_session(n) PROVE Old
  <2>1. answers' = [answers EXCEPT ![n] = << >>] BY <1>5 DEF disconnect_instance_session
  <2> QED BY <1>1, <1>3, <2>1
<1>6. ASSUME NEW n \in Instances, StreamDisconnects(n) PROVE Old
  <2>1. PICK h \in 0..Len(answers[n]) : answers' = [answers EXCEPT ![n] = SubSeq(@, 1, h)]
    BY <1>6 DEF StreamDisconnects
  <2>2. CASE n # i BY <1>1, <1>3, <2>1, <2>2
  <2>3. CASE n = i
    <3>1. answers'[i] = SubSeq(answers[i], 1, h) /\ answers[i] \in Seq(Messages) /\ h \in 0..Len(answers[i])
      BY <1>1, <2>1, <2>3
    <3>2. \A j \in DOMAIN SubSeq(answers[i], 1, h) :
            j \in DOMAIN answers[i] /\ SubSeq(answers[i], 1, h)[j] = answers[i][j]
      BY <3>1
    <3>3. DOMAIN SubSeq(answers[i], 1, h) = 1..h /\ h \in Nat BY <3>1
    <3>4. k \in 1..h /\ \A j \in 1..(k - 1) : j \in 1..h BY <3>1, <3>3
    <3> QED BY <1>2, <3>1, <3>2, <3>3, <3>4
  <2> QED BY <2>2, <2>3
<1>7. ASSUME NEW r \in Runs, WorkerHandles(r) PROVE UpToDate(m)' \/ Old
  <2>1. PICK ms \in Seq(Messages) :
          Sends(r, ms) /\ \A j \in DOMAIN ms : ms[j].type = "get_result" => UpToDate(ms[j])'
    BY <1>7, WorkerReportsTheTruth
  <2>2. ASSUME NEW j \in DOMAIN ms, answers'[i][k] = ms[j] PROVE UpToDate(m)'
    <3>1. m = ms[j] BY <2>2
    <3>2. UpToDate(ms[j])' BY <2>1, <3>1
    <3> QED BY <3>1, <3>2 DEF UpToDate
  <2> QED BY <1>2, <2>1, <2>2, SendsPositions
<1>8. ASSUME NEW r \in Runs, WorkerSendsResult(r) PROVE Old
  <2>1. PICK t \in DOMAIN tasks[r] : Sends(r, <<Message("result_result", r, 0, t, "none")>>)
    BY <1>8 DEF WorkerSendsResult
  <2>2. t \in Nat BY SeqElements DEF TypeOK
  <2>3. PICK n \in Messages : n = Message("result_result", r, 0, t, "none")
    BY <2>2, MessageType DEF MessageTypes, MessageStatuses
  <2>4. n.type # "get_result" BY <2>3 DEF Message
  <2>5. PICK ms \in Seq(Messages) : ms = <<n>>
    <3>1. <<n>> \in Seq(Messages) OBVIOUS
    <3> QED BY <3>1
  <2>6. Sends(r, ms) /\ \A j \in DOMAIN ms : ms[j] = n BY <2>1, <2>3, <2>5
  <2> QED BY <1>2, <2>4, <2>6, SendsPositions
<1>9. ASSUME NEW n \in Instances, NEW r \in Runs, InstanceStrays(n, r) PROVE Old
  <2>1. PICK s : s.run = r /\ answers' = [answers EXCEPT ![n] = Append(@, s)]
    BY <1>9 DEF InstanceStrays, Message
  <2>2. n # target[r] BY <1>9 DEF InstanceStrays
  <2>3. CASE n # i BY <1>1, <1>3, <2>1, <2>3
  <2>4. CASE n = i
    <3>1. answers'[i] = Append(answers[i], s) /\ answers[i] \in Seq(Messages) BY <1>1, <2>1, <2>4
    <3>2. /\ DOMAIN Append(answers[i], s) = 1..(Len(answers[i]) + 1) /\ Len(answers[i]) \in Nat
          /\ DOMAIN answers[i] = 1..Len(answers[i])
          /\ \A j \in 1..Len(answers[i]) : Append(answers[i], s)[j] = answers[i][j]
          /\ Append(answers[i], s)[Len(answers[i]) + 1] = s
      BY <3>1
    <3>3. k \in 1..Len(answers[i]) BY <2>1, <2>2, <2>4, <3>1, <3>2
    <3> QED BY <1>2, <3>1, <3>2, <3>3
  <2> QED BY <2>3, <2>4
<1>10. \/ UNCHANGED answers
       \/ \E r \in Runs : WorkerHandles(r) \/ WorkerSendsResult(r)
       \/ \E n \in Instances : \/ ApplyControlMessage(n)
                               \/ disconnect_instance_session(n)
                               \/ StreamDisconnects(n)
                               \/ \E r \in Runs : InstanceStrays(n, r)
  BY DEF Next, vars, streamVars, tick_managed_agents, Tick, dispatch_managed_agent,
         cancel_managed_agent, DeadlinePasses, TaskEnds, ApplyTransportEvent,
         connect_instance_session, StreamEnds, StreamConnects, StreamFailsToConnect
<1> QED BY <1>3, <1>4, <1>5, <1>6, <1>7, <1>8, <1>9, <1>10

\* A response that gives its run an outcome claims the end of the run's task.
LEMMA ResponseClaims ==
    ASSUME TypeOK, NEW i \in Instances, NEW m \in Messages, ApplyResponse(i, m), NEW r \in Runs,
           run'[r].state \in OutcomeStates
    PROVE  \/ run'[r] = run[r]
           \/ m.run = r /\ target[r] = i /\ ClaimsEnd(m) /\ run'[r].task = m.task
<1>1. m.run \in Runs /\ m.status \in MessageStatuses BY DEF Messages
<1>2. CASE ~(Routed(i, m) /\ AcceptsResponse(m)) BY <1>2 DEF ApplyResponse
<1>3. CASE Routed(i, m) /\ AcceptsResponse(m)
  <2>1. run' = [run EXCEPT ![m.run] = RunAfterResponse(m)] BY <1>3 DEF ApplyResponse
  <2>2. run[m.run] \in [state : RunStates \cup {"Absent"}, task : Nat] BY <1>1 DEF TypeOK
  <2>3. CASE m.run # r BY <1>1, <2>1, <2>3 DEF TypeOK
  <2>4. CASE m.run = r
    <3>1. PICK after : after = RunAfterResponse(m) OBVIOUS
    <3>2. run'[r] = after BY <1>1, <2>1, <2>4, <3>1 DEF TypeOK
    <3>3. target[r] = i BY <1>3, <2>4 DEF Routed
    <3>4. CASE m.type = "dispatch_result"
      BY <2>2, <3>1, <3>2, <3>4 DEF RunAfterResponse, accept_dispatch, OutcomeStates
    <3>5. CASE m.type = "get_result"
      <4>1. run[m.run].task = m.task
        BY <1>3, <3>5 DEF AcceptsResponse, accepts_observation
      <4>2. after = apply_observation(run[m.run], m.status)
        BY <3>1, <3>5 DEF RunAfterResponse
      <4>3. after.task = m.task BY <2>2, <4>1, <4>2 DEF apply_observation
      <4>4. m.status \in {"Succeeded", "Unsuccessful", "Cancelled"}
        <5>1. m.status \in ObservationStatuses BY <3>5 DEF Messages
        <5>2. after.state = CASE m.status = "Succeeded"    -> "Completed"
                              [] m.status = "Unsuccessful" -> "Failed"
                              [] OTHER                     -> m.status
          BY <2>2, <4>2 DEF apply_observation
        <5> QED BY <3>2, <5>1, <5>2 DEF OutcomeStates, ObservationStatuses
      <4> QED BY <2>4, <3>2, <3>3, <3>5, <4>3, <4>4 DEF ClaimsEnd
    <3>6. CASE m.type = "cancel_result"
      <4>1. run[m.run].task = m.task /\ run[m.run].state = "Cancelling"
        BY <1>3, <3>6 DEF AcceptsResponse, accepts_cancellation_response
      <4>2. after = apply_cancellation_response(run[m.run], m.status)
        BY <3>1, <3>6 DEF RunAfterResponse
      <4> QED BY <2>2, <2>4, <3>2, <3>3, <3>6, <4>1, <4>2
          DEF apply_cancellation_response, ClaimsEnd, OutcomeStates
    <3>7. CASE m.type = "result_result"
      <4>1. run[m.run].task = m.task BY <1>3, <3>7 DEF AcceptsResponse
      <4>2. after = complete_from_result(run[m.run]) BY <3>1, <3>7 DEF RunAfterResponse
      <4> QED BY <2>2, <2>4, <3>2, <3>3, <3>7, <4>1, <4>2 DEF complete_from_result, ClaimsEnd
    <3> QED BY <1>3, <3>4, <3>5, <3>6, <3>7 DEF AcceptsResponse
  <2> QED BY <2>3, <2>4
<1> QED BY <1>2, <1>3

LEMMA OrderedStep ==
    ASSUME ~ConcurrentWorker, TypeOK, AnswersAreJustified, OutcomesAreReal, OrderedAnswers, [Next]_vars
    PROVE  OrderedAnswers'
<1>1. TasksPersist BY TasksPersistStep
<1>2. TypeOK' BY NextTypeOK
<1> SUFFICES ASSUME NEW i \in Instances, NEW k \in DOMAIN answers'[i], NEW m, m = answers'[i][k],
                    m.type = "get_result", target[m.run] = i,
                    \/ run'[m.run].state \in OutcomeStates /\ run'[m.run].task = m.task
                    \/ \E j \in 1..(k - 1) :
                          /\ ClaimsEnd(answers'[i][j])
                          /\ answers'[i][j].run = m.run /\ answers'[i][j].task = m.task
             PROVE  UpToDate(m)'
  BY DEF OrderedAnswers, OutcomeHeld, ComesAfterTheEnd, UpToDate, ClaimsEnd
<1>3. m \in Messages /\ m.run \in Runs
  <2>1. m \in Messages BY <1>2, SeqElements DEF TypeOK
  <2> QED BY <2>1 DEF Messages
<1>4. ASSUME NEW l \in DOMAIN answers[i], m = answers[i][l],
             \A j \in 1..(k - 1) : \E h \in 1..(l - 1) : answers'[i][j] = answers[i][h]
      PROVE  UpToDate(m)'
  <2>1. l \in 1..Len(answers[i]) /\ Len(answers[i]) \in Nat /\ DOMAIN answers[i] = 1..Len(answers[i])
    BY SeqElements DEF TypeOK
  \* An earlier answer of the queue as it was claims the end.
  <2>2. ASSUME NEW h \in 1..(l - 1), NEW e, e = answers[i][h],
               ClaimsEnd(e), e.run = m.run, e.task = m.task
        PROVE  UpToDate(m)'
    <3>1. h \in DOMAIN answers[i] BY <2>1
    <3>2. m.task \in DOMAIN tasks[m.run] /\ tasks[m.run][m.task] \in EndStates
      BY <2>2, <3>1, ClaimedTaskEnded
    <3>3. UpToDate(m) BY <1>4, <2>2 DEF OrderedAnswers, ComesAfterTheEnd
    <3> QED BY <1>1, <1>3, <3>2, <3>3, ReportStaysTrue
  <2>3. CASE \E j \in 1..(k - 1) :
                /\ ClaimsEnd(answers'[i][j])
                /\ answers'[i][j].run = m.run /\ answers'[i][j].task = m.task
    <3>1. PICK j \in 1..(k - 1) :
            /\ ClaimsEnd(answers'[i][j])
            /\ answers'[i][j].run = m.run /\ answers'[i][j].task = m.task
      BY <2>3
    <3>2. PICK h \in 1..(l - 1) : answers'[i][j] = answers[i][h] BY <1>4
    <3> QED BY <2>2, <3>1, <3>2
  <2>4. CASE run'[m.run].state \in OutcomeStates /\ run'[m.run].task = m.task
    <3>1. ASSUME run'[m.run] = run[m.run] PROVE UpToDate(m)'
      <4>1. m.task \in DOMAIN tasks[m.run] /\ tasks[m.run][m.task] = Claimed(run[m.run].state)
        BY <1>3, <2>4, <3>1 DEF OutcomesAreReal, OutcomeStates
      <4>2. tasks[m.run][m.task] \in EndStates BY <4>1 DEF Claimed, EndStates
      <4>3. UpToDate(m) BY <1>4, <2>4, <3>1 DEF OrderedAnswers, OutcomeHeld
      <4> QED BY <1>1, <1>3, <4>2, <4>3, ReportStaysTrue
    <3>2. ASSUME NEW n \in Instances, ApplyControlMessage(n) PROVE UpToDate(m)'
      <4>1. PICK g \in DOMAIN answers[n] :
              /\ g = 1
              /\ ApplyDelivery(n, answers[n][g]) \/ ApplyResponse(n, answers[n][g])
              /\ answers' = [answers EXCEPT ![n] = Without(@, g)]
        BY <3>2 DEF ApplyControlMessage
      <4>2. answers[n][1] \in Messages BY <4>1, SeqElements DEF TypeOK
      <4>3. CASE ApplyDelivery(n, answers[n][g]) BY <3>1, <4>3 DEF ApplyDelivery
      <4>4. CASE ApplyResponse(n, answers[n][g])
        <5>1. PICK e \in Messages : e = answers[n][1] BY <4>2
        <5>2. \/ run'[m.run] = run[m.run]
              \/ e.run = m.run /\ target[m.run] = n /\ ClaimsEnd(e) /\ run'[m.run].task = e.task
          BY <1>3, <2>4, <4>1, <4>4, <5>1, ResponseClaims
        <5>3. CASE e.run = m.run /\ target[m.run] = n /\ ClaimsEnd(e) /\ run'[m.run].task = e.task
          <6>1. /\ answers'[i] = Without(answers[i], 1) /\ 1 \in DOMAIN answers[i]
                /\ answers[i] \in Seq(Messages) /\ e = answers[i][1]
            BY <4>1, <5>1, <5>3 DEF TypeOK
          <6>2. /\ k \in Nat /\ k + 1 \in DOMAIN answers[i] /\ m = answers[i][k + 1]
            BY <6>1, FirstIsRead
          <6>3. k + 1 \in 1..Len(answers[i]) /\ k \in 1..Len(answers'[i]) /\ Len(answers'[i]) \in Nat
            BY <1>2, <2>1, <6>2, SeqElements DEF TypeOK
          <6>4. 1 \in 1..((k + 1) - 1) BY <6>2, <6>3
          <6>5. UpToDate(m) BY <2>4, <5>3, <6>1, <6>2, <6>4 DEF OrderedAnswers, ComesAfterTheEnd
          <6>6. m.task \in DOMAIN tasks[m.run] /\ tasks[m.run][m.task] \in EndStates
            BY <2>4, <5>3, <6>1, ClaimedTaskEnded
          <6> QED BY <1>1, <1>3, <6>5, <6>6, ReportStaysTrue
        <5> QED BY <3>1, <5>2, <5>3
      <4> QED BY <4>1, <4>3, <4>4
    <3>3. CASE ~ \E n \in Instances : ApplyControlMessage(n)
      BY <1>3, <2>4, <3>1, <3>3, NoNewOutcome DEF OutcomeStates
    <3> QED BY <3>2, <3>3
  <2> QED BY <2>3, <2>4
<1> QED BY <1>4, AnswersKeepTheirOrder

\* What a step makes of a run that is waiting for its dispatch to be accepted, or of one that
\* has ended.
LEMMA RunStep ==
    ASSUME TypeOK, OutcomesAreReal, OrderedAnswers, NotYetAccepted, [Next]_vars, NEW r \in Runs
    PROVE  /\ run'[r].state \in {"Dispatching", "DispatchTimedOut"} => run'[r].task = NoTask
           /\ Known(r) /\ is_terminal(run[r]) => run'[r] = run[r]
<1> DEFINE Goal == /\ run'[r].state \in {"Dispatching", "DispatchTimedOut"} => run'[r].task = NoTask
                   /\ Known(r) /\ is_terminal(run[r]) => run'[r] = run[r]
<1>1. /\ run \in [Runs -> [state : RunStates \cup {"Absent"}, task : Nat]]
      /\ run[r] \in [state : RunStates \cup {"Absent"}, task : Nat]
      /\ run[r].state \in {"Dispatching", "DispatchTimedOut"} => run[r].task = NoTask
  BY DEF TypeOK, NotYetAccepted
<1>2. CASE run'[r] = run[r] BY <1>1, <1>2
<1>3. CASE tick_managed_agents
  <2>1. PICK late \in SUBSET Runs, overdue \in [Runs -> SUBSET (1..MaxCommands)] :
          Tick(late, overdue)
    BY <1>3 DEF tick_managed_agents, Dispatching
  <2>2. run'[r] = IF CancelsExpired(r, late) THEN request_cancellation(run[r])
                                             ELSE AfterExpiry(r, late)
    BY <2>1 DEF Tick
  <2>3. CancelsExpired(r, late) => ~is_terminal(AfterExpiry(r, late))
    BY DEF CancelsExpired, Scheduled
  <2> QED
    BY <1>1, <2>2, <2>3 DEF request_cancellation, AfterExpiry, mark_dispatch_timed_out,
       accepts_dispatch_timeout, is_terminal, TerminalStates
<1>4. ASSUME NEW q \in Runs, dispatch_managed_agent(q) PROVE Goal
  BY <1>1, <1>4 DEF dispatch_managed_agent, Known
<1>5. ASSUME NEW q \in Runs, NEW oversized, cancel_managed_agent(q, oversized) PROVE Goal
  BY <1>1, <1>5 DEF cancel_managed_agent, request_cancellation, accepts_cancellation_request,
                    is_terminal, TerminalStates
<1>6. ASSUME NEW i \in Instances, ApplyTransportEvent(i) PROVE Goal
  <2>1. run'[r] = MarkWorkers(i, Head(events[i]))[r] BY <1>6 DEF ApplyTransportEvent
  <2> QED BY <1>1, <2>1 DEF MarkWorkers, mark_disconnected, mark_reconnected, Active, Known
<1>7. ASSUME NEW i \in Instances, ApplyControlMessage(i) PROVE Goal
  <2>1. PICK k \in DOMAIN answers[i] :
          ApplyDelivery(i, answers[i][k]) \/ ApplyResponse(i, answers[i][k])
    BY <1>7 DEF ApplyControlMessage
  <2>2. answers[i][k] \in Messages BY SeqElements DEF TypeOK
  <2>3. PICK m \in Messages : m = answers[i][k] BY <2>2
  <2>4. CASE ApplyDelivery(i, m) BY <1>2, <2>4 DEF ApplyDelivery
  <2>5. CASE ApplyResponse(i, m) /\ Routed(i, m) /\ AcceptsResponse(m) /\ m.run = r
    <3>1. run'[r] = RunAfterResponse(m) BY <1>1, <2>5 DEF ApplyResponse
    <3>2. CASE m.type = "dispatch_result"
      BY <1>1, <2>5, <3>1, <3>2 DEF AcceptsResponse, RunAfterResponse, accepts_dispatch,
         accept_dispatch, is_terminal, TerminalStates
    <3>3. CASE m.type = "get_result"
      <4>1. /\ run[r].task # NoTask /\ run[r].task = m.task /\ m.status # "SucceededEmpty"
            /\ run'[r] = apply_observation(run[r], m.status)
        BY <2>5, <3>1, <3>3 DEF AcceptsResponse, accepts_observation, RunAfterResponse
      <4>2. m.status \in ObservationStatuses BY <3>3 DEF Messages
      <4>3. PICK s : s = CASE m.status = "Succeeded"    -> "Completed"
                           [] m.status = "Unsuccessful" -> "Failed"
                           [] OTHER                     -> m.status
        OBVIOUS
      <4>4. run'[r] = [run[r] EXCEPT !.state = s] BY <4>1, <4>3 DEF apply_observation
      <4>5. s \notin {"Dispatching", "DispatchTimedOut"} BY <4>2, <4>3 DEF ObservationStatuses
      <4>6. run'[r].state = s BY <1>1, <4>4
      <4>7. ASSUME is_terminal(run[r]) PROVE run'[r] = run[r]
        <5>1. run[r].state \in OutcomeStates
          BY <1>1, <4>1, <4>7 DEF is_terminal, TerminalStates, OutcomeStates
        <5>2. UpToDate(m)
          BY <2>3, <2>5, <3>3, <4>1, <5>1 DEF OrderedAnswers, OutcomeHeld, Routed
        <5>3. tasks[r][m.task] = Claimed(run[r].state)
          BY <4>1, <5>1 DEF OutcomesAreReal, OutcomeStates
        <5>4. m.status \in Observations(Claimed(run[r].state)) BY <2>5, <5>2, <5>3 DEF UpToDate
        <5>5. s = run[r].state
          BY <4>1, <4>3, <5>1, <5>4 DEF Observations, Claimed, OutcomeStates
        <5> QED BY <1>1, <4>4, <5>5
      <4> QED BY <4>5, <4>6, <4>7
    <3>4. CASE m.type = "cancel_result"
      BY <1>1, <2>5, <3>1, <3>4 DEF AcceptsResponse, RunAfterResponse, accepts_cancellation_response,
         apply_cancellation_response, is_terminal, TerminalStates
    <3>5. CASE m.type = "result_result"
      <4>1. accepts_result(run[r]) /\ run'[r] = complete_from_result(run[r])
        BY <2>5, <3>1, <3>5 DEF AcceptsResponse, RunAfterResponse
      <4>2. run'[r].state = "Completed" BY <1>1, <4>1 DEF complete_from_result
      <4>3. ASSUME is_terminal(run[r]) PROVE run'[r] = run[r]
        BY <1>1, <4>1, <4>3 DEF accepts_result, complete_from_result
      <4> QED BY <4>2, <4>3
    <3> QED BY <2>5, <3>2, <3>3, <3>4, <3>5 DEF AcceptsResponse
  <2>6. CASE ApplyResponse(i, m) /\ ~(Routed(i, m) /\ AcceptsResponse(m) /\ m.run = r)
    <3>1. run'[r] = run[r] BY <1>1, <2>6 DEF ApplyResponse
    <3> QED BY <1>2, <3>1
  <2> QED BY <2>1, <2>3, <2>4, <2>5, <2>6
<1>8. \/ UNCHANGED run
      \/ tick_managed_agents
      \/ \E q \in Runs : \/ dispatch_managed_agent(q)
                         \/ \E oversized \in BOOLEAN : cancel_managed_agent(q, oversized)
      \/ \E i \in Instances : ApplyTransportEvent(i) \/ ApplyControlMessage(i)
  BY WorkerKeepsSupervisor
     DEF Next, vars, supervisorVars, DeadlinePasses, TaskEnds, WorkerSendsResult,
         connect_instance_session, disconnect_instance_session, StreamEnds,
         StreamConnects, StreamFailsToConnect, StreamDisconnects, InstanceStrays
<1> QED BY <1>2, <1>3, <1>4, <1>5, <1>6, <1>7, <1>8

\* The inductive invariant.
EndInv == TypeOK /\ AnswersAreJustified /\ OutcomesAreReal /\ OrderedAnswers /\ NotYetAccepted

\* With workers whose answers arrive in the order they were made, a run that has ended stays as
\* it ended, through lost connections, dropped sessions, replays, cancellations that come too
\* late and reports sent before the end (apply_observation, apply_response_json,
\* tick_managed_agents).  The assumption is needed: apply_observation does not look at the
\* state of the run, and a report that is overtaken takes the run back (ControlLateAnswer.cfg).
THEOREM EndedStaysEnded ==
    ASSUME ~ConcurrentWorker
    PROVE  Spec => TerminalIsFinal
<1>1. Init => EndInv
  BY InitTypeOK DEF Init, EndInv, AnswersAreJustified, OutcomesAreReal, OrderedAnswers,
                    NotYetAccepted, Absent
<1>2. EndInv /\ [Next]_vars => EndInv'
  BY NextTypeOK, AnswersJustifiedStep, OutcomesStep, OrderedStep, RunStep DEF EndInv, NotYetAccepted
<1>3. EndInv /\ [Next]_vars =>
        [\A r \in Runs : Known(r) /\ is_terminal(run[r]) => run'[r] = run[r]]_vars
  BY RunStep DEF EndInv
<1> QED BY <1>1, <1>2, <1>3, PTL DEF Spec, TerminalIsFinal

=============================================================================
