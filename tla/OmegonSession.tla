---------------------------- MODULE OmegonSession ----------------------------
(***************************************************************************)
(* The primary session an operator works in (remote_session.rs, the        *)
(* session half of controller.rs) and the app loop that feeds it from the  *)
(* IPC inbox (app.rs), on top of the connection of OmegonIpc.              *)
(*                                                                         *)
(* The session keeps what the composer needs to know: the prompt that has  *)
(* no turn yet, what Omegon has acknowledged, whether a turn runs, and the *)
(* last authoritative snapshot.  The loop drains the inbox, applies every  *)
(* event in order, and then, if one of them asked for it, waits for a      *)
(* get_state whose answer it applies after whatever arrived meanwhile has  *)
(* been pushed into the inbox.                                             *)
(***************************************************************************)
EXTENDS OmegonIpc

CONSTANT Targets      \* the command routes the operator may select

VARIABLE ses

vars == <<ipcVars, ses>>

\* from_snapshot, and a controller whose telemetry is at its default.
Init ==
    /\ IpcInit
    /\ ses \in [pending : {None}, ack : {FALSE}, cancelAck : {FALSE},
                runActive : {FALSE}, auth : {None},
                target : {CHOOSE t \in Targets : TRUE}]

-----------------------------------------------------------------------------
(* Snapshots. *)

\* optional_counter_regresses
Regresses(current, incoming) ==
    current # None /\ (incoming = None \/ incoming < current)

\* Mutant: snapshots are applied in the order they come.
NeverStale(current, incoming) == FALSE

\* ipc_snapshot_is_stale
IsStale(current, incoming) ==
    /\ current # None
    /\ current.inst = incoming.inst
    /\ \/ Regresses(current.gen, incoming.gen)
       \/ current.gen = incoming.gen /\ Regresses(current.frontier, incoming.frontier)

\* refresh_from_ipc_state
Refreshed(s, snap) ==
    LET replaced == /\ s.auth # None
                    /\ s.auth.inst # snap.inst \/ s.auth.gen # snap.gen
    IN  IF IsStale(s.auth, snap) THEN s
        ELSE [s EXCEPT !.pending = IF replaced THEN None ELSE s.pending,
                       !.ack = s.ack /\ ~replaced,
                       !.cancelAck = s.cancelAck /\ ~replaced /\ snap.busy,
                       !.runActive = snap.busy \/ snap.queued,
                       !.auth = snap]

-----------------------------------------------------------------------------
(* Events. *)

\* Mutant: a started turn does not take the pending prompt.
TurnStartedBeside(s) == [s EXCEPT !.runActive = TRUE, !.ack = FALSE]

\* apply_session_event: TurnStarted, whoever's prompt the turn is about.
TurnStarted(s) == [s EXCEPT !.runActive = TRUE, !.ack = FALSE, !.pending = None]

\* Mutant: the end of a turn leaves an acknowledged cancellation behind.
TurnEndedKeeping(s) == [s EXCEPT !.runActive = FALSE]

\* apply_session_event: TurnEnded, MessageAbort, AgentCompleted
TurnEnded(s) == [s EXCEPT !.runActive = FALSE, !.cancelAck = FALSE]

\* apply_session_event: SessionReset
SessionReset(s) ==
    [s EXCEPT !.pending = None, !.ack = FALSE, !.cancelAck = FALSE, !.runActive = FALSE]

\* apply_ipc_command_outcome of the session
OutcomeApplied(s, kind, status) ==
    CASE kind = "prompt" /\ s.pending = None -> s
      [] kind = "prompt" /\ s.pending # None /\ status = "accepted" ->
            [s EXCEPT !.ack = TRUE]
      [] kind = "prompt" /\ s.pending # None /\ status # "accepted" ->
            [s EXCEPT !.pending = None, !.ack = FALSE]
      [] kind = "cancel" -> [s EXCEPT !.cancelAck = status = "accepted" /\ s.runActive]

\* The loop's match on IpcClientEvent, with the controller's part of each.
Apply(s, e) ==
    CASE e.ev = "reconciled" -> Refreshed(s, e.snap)
      [] e.ev = "turn_started" -> TurnStarted(s)
      [] e.ev = "turn_ended" -> TurnEnded(s)
      [] e.ev = "reset" -> SessionReset(s)
      [] e.ev \in {"changed", "required"} -> s
      [] e.ev = "outcome" ->
            IF e.target # s.target THEN s ELSE OutcomeApplied(s, e.kind, e.status)

\* All events of a batch, in order, under one lock of the controller.
ApplyAll(s, events) ==
    LET after[i \in 0..Len(events)] ==
            IF i = 0 THEN s ELSE Apply(after[i - 1], events[i])
    IN  after[Len(events)]

\* ipc_event_requires_refresh, and ReconciliationRequired
NeedsRefresh(events) ==
    \E i \in DOMAIN events : events[i].ev \in {"changed", "required"}

-----------------------------------------------------------------------------
(* The app loop. *)

Drain ==
    /\ loop.at = "idle" /\ inbox # <<>>
    /\ inbox' = <<>> /\ saturated' = FALSE
    /\ ses' = ApplyAll(ses, Drained)
    /\ \/ /\ NeedsRefresh(Drained)
          /\ loop' = [at |-> SendStage]
          /\ reqq' = Enqueued("refresh")
       \/ /\ ~NeedsRefresh(Drained)
          /\ UNCHANGED <<loop, reqq>>
    /\ UNCHANGED <<srv, link, fetched, open, wire, sent, actor, task, runs,
                   upsets>>

\* apply_ipc_state_snapshot, or mark_ipc_reconciliation_failed: no retry.
FinishRefresh ==
    /\ \/ /\ loop.at = "answered"
          /\ ses' = Refreshed(ses, loop.snap)
       \/ /\ loop.at = "failed"
          /\ UNCHANGED ses
    /\ loop' = [at |-> "idle"]
    /\ UNCHANGED <<srv, link, fetched, open, wire, sent, actor, reqq, task,
                   runs, inbox, saturated, upsets>>

-----------------------------------------------------------------------------
(* The operator. *)

\* can_submit, in a session whose harness is ready and has a provider
CanSubmit == ~ses.runActive /\ ses.pending = None

\* dispatch_over_ipc: one task per command, aimed at the route of the moment.
Dispatch(c) ==
    /\ task[c].at = "none"
    /\ task' = [task EXCEPT ![c].at = SendStage, ![c].target = ses.target]
    /\ reqq' = Enqueued(c)
    /\ UNCHANGED <<srv, link, fetched, open, wire, sent, actor, runs, inbox,
                   saturated, loop, upsets>>

\* submit_prompt_command and RemoteHostSession::submit
Submit(p) ==
    /\ CanSubmit
    /\ ses' = [ses EXCEPT !.pending = p, !.ack = FALSE]
    /\ Dispatch(p)

\* The embedded composer sends what it cannot submit, and keeps the draft.
QueueAnyway(p) ==
    /\ ~CanSubmit
    /\ Dispatch(p)
    /\ UNCHANGED ses

\* cancel_command
Cancel(c) ==
    /\ ses.runActive
    /\ Dispatch(c)
    /\ UNCHANGED ses

SelectRoute(t) ==
    /\ t # ses.target /\ upsets < MaxUpsets
    /\ upsets' = upsets + 1
    /\ ses' = [ses EXCEPT !.target = t]
    /\ UNCHANGED <<srv, link, fetched, open, wire, sent, actor, reqq, task,
                   runs, inbox, saturated, loop>>

-----------------------------------------------------------------------------

TaskStep(c) == SendRequest(c) \/ RequestTimesOut(c) \/ PublishOutcome(c)

ActorStep ==
    \/ Connect \/ Subscribe \/ AttachFails
    \/ TakeUnsupported \/ TakeRequest \/ WriteFails \/ ReadFrame \/ ReadFails

HandleRequest ==
    \/ \E p \in Prompts : HandlePrompt(p)
    \/ \E c \in Cancels : HandleCancel(c)
    \/ HandleGetState

Environment ==
    OtherPrompt \/ ResetSession \/ Lag \/ CloseSocket \/ Crash \/ Restart

LoopStep == Drain \/ FinishRefresh

Next ==
    \/ LoopStep
    \/ \E p \in Prompts : Submit(p) \/ QueueAnyway(p)
    \/ \E c \in Cancels : Cancel(c)
    \/ \E t \in Targets : SelectRoute(t)
    \/ /\ \/ \E c \in Calls : TaskStep(c)
          \/ SendRefresh \/ RefreshExpires
          \/ ActorStep \/ ActorTimesOut
          \/ HandleRequest \/ StartTurn \/ EndTurn
          \/ Environment
       /\ UNCHANGED ses

\* Tasks, the actor, the loop and timers are driven by the runtime, and Omegon
\* serves requests and works its queue.  Nothing makes an operator act, a
\* connection fail, or a stopped Omegon come back.
Fairness ==
    /\ \A c \in Calls : WF_vars(TaskStep(c) /\ UNCHANGED ses)
    /\ WF_vars(SendRefresh /\ UNCHANGED ses)
    /\ WF_vars(RefreshExpires /\ UNCHANGED ses)
    /\ WF_vars(ActorStep /\ UNCHANGED ses)
    /\ WF_vars(HandleRequest /\ UNCHANGED ses)
    /\ WF_vars((StartTurn \/ EndTurn) /\ UNCHANGED ses)
    /\ WF_vars(LoopStep)

Spec == Init /\ [][Next]_vars /\ Fairness

-----------------------------------------------------------------------------
(* Properties. *)

Snapshots ==
    [inst : Nat, gen : Nat \cup {None}, frontier : Nat \cup {None},
     busy : BOOLEAN, queued : BOOLEAN]

ASSUME SessionAssumption == Targets # {} /\ None \notin Snapshots

\* The queues stay within their capacities, the pending prompt is one that was
\* sent, and the actor serves one request at a time.
TypeOK ==
    /\ Len(inbox) <= InboxCap /\ Len(reqq) <= ReqCap
    /\ link \in {"down", "fetched", "up"}
    /\ actor \in Calls \cup Refreshes \cup {None}
    /\ ses.auth \in Snapshots \cup {None}
    /\ ses.pending \in {None} \cup {p \in Prompts : task[p].at # "none"}
    /\ actor # None => link = "up"

\* An acknowledgement always has its subject: an acknowledged prompt is still
\* pending and an acknowledged cancellation still has a turn to cancel, so the
\* composer never waits for the end of something that is over.
AcknowledgementsHaveASubject ==
    /\ ses.ack => ses.pending # None
    /\ ses.cancelAck => ses.runActive

\* The drained batch holds a snapshot of another process than the session's.
SpansRestart ==
    \E i \in DOMAIN inbox :
        inbox[i].ev = "reconciled" /\ inbox[i].snap.inst # ses.auth.inst

NotOlder(new, old) ==
    \/ old.gen = None
    \/ /\ new.gen # None
       /\ new.gen > old.gen \/ (new.gen = old.gen /\ new.frontier >= old.frontier)

\* Of one Omegon process, the session never falls back to an older snapshot,
\* although a newer get_state answer can overtake one that waits in the inbox.
\* A batch that spans a restart is excepted: in it a snapshot of the old process
\* makes room for any of the new one (ipc_snapshot_is_stale compares within one).
SnapshotsNeverRegress ==
    [][\/ ses.auth = None
       \/ ses'.auth.inst # ses.auth.inst
       \/ SpansRestart
       \/ NotOlder(ses'.auth, ses.auth)]_vars

\* Expected to fail, with three upsets and an inbox of three.  The same without the exception.
RestartsNeverRegress ==
    [][\/ ses.auth = None
       \/ ses'.auth.inst # ses.auth.inst
       \/ NotOlder(ses'.auth, ses.auth)]_vars

\* What a caller knows of its command.
Word(t) ==
    CASE t.at = "none" -> "none"
      [] t.at \in {"sending", "waiting"} -> "open"
      [] t.at \in {"told", "done"} -> t.told

Said == [c \in Calls |-> Word(task[c])]

Channel == INSTANCE RequestChannel WITH answer <- Said, ran <- runs

\* The connection is a request channel: each command reaches Omegon at most
\* once, is answered once, and is only called accepted or refused when it was.
IsRequestChannel == Channel!ChannelSpec

\* The app loop, which waits for get_state in the middle of an iteration, comes
\* back to its work even when Omegon never answers.
LoopReturns == loop.at # "idle" ~> loop.at = "idle"

ServerIdle == srv.up /\ srv.turn = None /\ srv.queue = <<>>

\* Nothing has gone wrong or been dropped, and no other client has prompted.
Calm == upsets = 0 /\ ~saturated

\* While nothing is lost and nobody else prompts, the composer is available
\* whenever Omegon stays idle.
AvailableInCalm ==
    []Calm => (<>[]ServerIdle => []<>CanSubmit)

\* "Queue depth and active turn are authoritative for command availability":
\* with an Omegon that stays idle and connected the composer becomes available.
AvailableWhenIdle == <>[](ServerIdle /\ link = "up") => []<>CanSubmit

IsPrior(at, auth) ==
    /\ auth # None /\ auth.gen # None
    /\ at[1] < auth.inst \/ (at[1] = auth.inst /\ at[2] < auth.gen)

\* "events from the prior generation cannot reactivate stale work": no event of
\* an older session than the one the session last saw makes it busy.
PriorGenerationIsFenced ==
    [][inbox # <<>> /\ inbox' = <<>> =>
         \A i \in DOMAIN inbox :
            LET before == ApplyAll(ses, SubSeq(inbox, 1, i - 1))
            IN  inbox[i].ev = "turn_started" /\ IsPrior(inbox[i].at, before.auth)
                    => before.runActive \/ ~Apply(before, inbox[i]).runActive]_vars

\* The app loop's refresh returns even when something is lost, and while nothing
\* is, the operator can prompt again once Omegon is quiet.
SessionRecovers == LoopReturns /\ AvailableInCalm
=============================================================================
