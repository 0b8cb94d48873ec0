------------------------------ MODULE OmegonIpc ------------------------------
(***************************************************************************)
(* The native IPC connection to Omegon (ipc_client.rs) and the tasks that  *)
(* send commands over it (command_transport.rs).                           *)
(*                                                                         *)
(* One actor owns the socket.  It says hello, fetches the state, and only  *)
(* then subscribes to events; after that it serves one request at a time   *)
(* and forwards every event to an inbox that forgets its oldest entry when *)
(* full.  Callers put requests into a bounded queue and give up after two  *)
(* seconds, independently of the actor's own two seconds.  Connected,      *)
(* Disconnected and AttachFailed only change what the screen says about    *)
(* the transport, and are left out of the inbox.                           *)
(*                                                                         *)
(* Omegon itself is external.  It keeps a queue of prompts, runs one turn  *)
(* at a time, numbers its state with an instance, a session generation and *)
(* a frontier, may crash and restart, and may reset its session.           *)
(***************************************************************************)
EXTENDS Integers, Sequences, FiniteSets

CONSTANTS
    Prompts,      \* the prompts an operator sends, each one attempt
    Cancels,      \* the cancellations an operator sends
    None,         \* stands for every Option::None
    Builds,       \* the Omegons there are: what each advertises, and whether it
                  \* numbers its state
    ReqCap,       \* IPC_REQUEST_QUEUE_CAPACITY
    InboxCap,     \* IPC_EVENT_QUEUE_CAPACITY
    WireCap,      \* bound on the frames in the socket: Omegon writes when there is room
    MaxUpsets     \* bound on what may go wrong: lost connections, timeouts nothing
                  \* forces, lag, crashes and session resets of Omegon, and prompts
                  \* of its other clients

ASSUME IpcAssumption ==
    /\ None \notin Prompts \cup Cancels \cup Nat
    /\ {"refresh", "abandoned"} \cap (Prompts \cup Cancels) = {}
    /\ InboxCap \in Nat \ {0} /\ ReqCap \in Nat /\ WireCap \in Nat

VARIABLES
    srv,          \* Omegon
    link,         \* how far the actor's connection is: "down", "fetched", "up"
    fetched,      \* the snapshot read while connecting
    open,         \* whether the far end of the socket is still open
    wire,         \* frames Omegon has written and the actor has not read
    sent,         \* requests written to the socket and not handled by Omegon
    actor,        \* the request the actor waits on
    reqq,         \* requests queued for the actor
    task,         \* what each command's task is doing, or has been answered
    runs,         \* how often Omegon has handled each command
    inbox,        \* events for the app loop
    saturated,    \* reconciliation_required of the inbox
    loop,         \* the app loop's own get_state call
    upsets

ipcVars == <<srv, link, fetched, open, wire, sent, actor, reqq, task, runs,
             inbox, saturated, loop, upsets>>

Calls == Prompts \cup Cancels

\* A get_state whose caller still waits, and one whose caller has given up.
Refreshes == {"refresh", "abandoned"}

\* capability_for_method
CapabilityFor(r) ==
    IF r \in Refreshes THEN "state.snapshot"
    ELSE IF r \in Prompts THEN "prompt.submit" ELSE "turn.cancel"

\* get_state: what an IpcStateSnapshot says that the session looks at.  An
\* Omegon that does not count reports neither generation nor frontier.
Snapshot ==
    [inst |-> srv.inst,
     gen |-> IF srv.build.counts THEN srv.gen ELSE None,
     frontier |-> IF srv.build.counts THEN srv.frontier ELSE None,
     busy |-> srv.turn # None,
     queued |-> srv.queue # <<>>]

\* Which process and session an event comes from.  The wire does not say; the
\* field is kept for the properties alone.
Epoch == <<srv.inst, srv.gen>>

Event(kind) == [ev |-> kind, at |-> Epoch]
Reconciled(snap) == [ev |-> "reconciled", snap |-> snap]
Outcome(c, status, target) ==
    [ev |-> "outcome", kind |-> IF c \in Prompts THEN "prompt" ELSE "cancel",
     status |-> status, target |-> target]
Notice(kind) == [ev |-> kind]

NewServer ==
    [inst : {1}, gen : {1}, frontier : {0}, turn : {None}, queue : {<<>>},
     up : {TRUE}, build : Builds]

IpcInit ==
    /\ srv \in NewServer
    /\ link = "down" /\ fetched = None /\ open = FALSE
    /\ wire = <<>> /\ sent = {} /\ actor = None /\ reqq = <<>>
    /\ task = [c \in Calls |-> [at |-> "none", told |-> "none", target |-> None]]
    /\ runs = [c \in Calls |-> 0]
    /\ inbox = <<>> /\ saturated = FALSE
    /\ loop = [at |-> "idle"]
    /\ upsets = 0

-----------------------------------------------------------------------------
(* The inbox. *)

\* IpcEventInbox::push
Push(queue, flag, event) ==
    IF Len(queue) = InboxCap
    THEN [events |-> Append(Tail(queue), event), flag |-> TRUE]
    ELSE [events |-> Append(queue, event), flag |-> flag]

PushInbox(event) ==
    LET q == Push(inbox, saturated, event)
    IN  inbox' = q.events /\ saturated' = q.flag

\* IpcEventInbox::drain: what the loop gets.
Drained ==
    inbox \o IF saturated THEN <<Notice("required"), Notice("changed")>> ELSE <<>>

-----------------------------------------------------------------------------
(* Callers: the task of a command, and the loop's get_state. *)

\* request: into the queue at once if there is room.
Enqueued(r) == IF Len(reqq) < ReqCap THEN Append(reqq, r) ELSE reqq
SendStage == IF Len(reqq) < ReqCap THEN "waiting" ELSE "sending"

\* The caller of r stops waiting: the request stays where it is.
Abandon(s) == [i \in DOMAIN s |-> IF s[i] = "refresh" THEN "abandoned" ELSE s[i]]

\* An answer reaches its caller unless the caller has given up.
Answered(c, status) ==
    IF c \in Calls /\ task[c].at \in {"sending", "waiting"}
    THEN [task EXCEPT ![c].at = "told", ![c].told = status]
    ELSE task

\* A caller that has waited for room in the queue finds it.
SendRequest(c) ==
    /\ task[c].at = "sending"
    /\ Len(reqq) < ReqCap
    /\ reqq' = Append(reqq, c)
    /\ task' = [task EXCEPT ![c].at = "waiting"]
    /\ UNCHANGED <<srv, link, fetched, open, wire, sent, actor, runs, inbox,
                   saturated, loop, upsets>>

\* A timeout nothing forces is an upset; one while there is no connection is not.
Expires ==
    \/ link # "up" /\ UNCHANGED upsets
    \/ link = "up" /\ upsets < MaxUpsets /\ upsets' = upsets + 1

\* request: no room, or no answer, within IPC_RESPONSE_TIMEOUT.
RequestTimesOut(c) ==
    /\ \/ task[c].at = "waiting"
       \/ task[c].at = "sending" /\ Len(reqq) = ReqCap
    /\ Expires
    /\ task' = Answered(c, "failed")
    /\ UNCHANGED <<srv, link, fetched, open, wire, sent, actor, reqq, runs,
                   inbox, saturated, loop>>

\* dispatch_over_ipc: the task publishes what it was told.
PublishOutcome(c) ==
    /\ task[c].at = "told"
    /\ PushInbox(Outcome(c, task[c].told, task[c].target))
    /\ task' = [task EXCEPT ![c].at = "done", ![c].target = None]
    /\ UNCHANGED <<srv, link, fetched, open, wire, sent, actor, reqq, runs,
                   loop, upsets>>

SendRefresh ==
    /\ loop.at = "sending"
    /\ Len(reqq) < ReqCap
    /\ reqq' = Append(reqq, "refresh")
    /\ loop' = [at |-> "waiting"]
    /\ UNCHANGED <<srv, link, fetched, open, wire, sent, actor, task, runs,
                   inbox, saturated, upsets>>

\* The loop's get_state fails the same way; what it put in the queue stays.
RefreshExpires ==
    /\ \/ loop.at = "waiting"
       \/ loop.at = "sending" /\ Len(reqq) = ReqCap
    /\ Expires
    /\ loop' = [at |-> "failed"]
    /\ reqq' = Abandon(reqq)
    /\ actor' = IF actor = "refresh" THEN "abandoned" ELSE actor
    /\ UNCHANGED <<srv, link, fetched, open, wire, sent, task, runs, inbox,
                   saturated>>

-----------------------------------------------------------------------------
(* The actor: run_ipc_connection. *)

\* connect_and_initialize up to get_state: the connection, hello with the
\* capabilities it insists on, and the state, before any subscription.
Connect ==
    /\ link = "down"
    /\ srv.up
    /\ {"state.snapshot", "events.stream"} \subseteq srv.build.caps
    /\ link' = "fetched" /\ fetched' = Snapshot /\ open' = TRUE
    /\ UNCHANGED <<srv, wire, sent, actor, reqq, task, runs, inbox, saturated,
                   loop, upsets>>

\* connect_and_initialize: subscribe.
Subscribe ==
    /\ link = "fetched" /\ open
    /\ link' = "up" /\ fetched' = None
    /\ PushInbox(Reconciled(fetched))
    /\ UNCHANGED <<srv, open, wire, sent, actor, reqq, task, runs, loop,
                   upsets>>

\* The connection is lost before the subscription: AttachFailed and a new try.
AttachFails ==
    /\ link = "fetched" /\ ~open
    /\ link' = "down" /\ fetched' = None
    /\ UNCHANGED <<srv, open, wire, sent, actor, reqq, task, runs, inbox,
                   saturated, loop, upsets>>

\* The answer to the request the actor holds, for whoever asked.
AnswerCaller(r, status) ==
    /\ task' = Answered(r, status)
    /\ loop' = IF r # "refresh" THEN loop ELSE [at |-> "answered", snap |-> status]

FailCaller(r) ==
    /\ task' = Answered(r, "failed")
    /\ loop' = IF r # "refresh" THEN loop ELSE [at |-> "failed"]

\* Mutant: the request in flight is tried again on the next connection.
DisconnectRetrying ==
    /\ link' = "down" /\ wire' = <<>> /\ actor' = None
    /\ FailCaller(actor)
    /\ sent' \in {sent \ Refreshes, {}}
    /\ reqq' = IF actor \in Calls /\ Len(reqq) < ReqCap THEN <<actor>> \o reqq ELSE reqq
    /\ UNCHANGED <<srv, fetched, open, runs, inbox, saturated>>

\* The connection is given up: the request the actor holds, if any, fails, and
\* what was written may or may not still be handled by Omegon.
Disconnect ==
    /\ link' = "down" /\ wire' = <<>> /\ actor' = None
    /\ FailCaller(actor)
    /\ sent' \in {sent \ Refreshes, {}}
    /\ UNCHANGED <<srv, fetched, open, reqq, runs, inbox, saturated>>

\* A request without its capability is refused and the connection kept.
TakeUnsupported ==
    /\ link = "up" /\ actor = None /\ reqq # <<>>
    /\ CapabilityFor(Head(reqq)) \notin srv.build.caps
    /\ reqq' = Tail(reqq)
    /\ FailCaller(Head(reqq))
    /\ UNCHANGED <<srv, link, fetched, open, wire, sent, actor, runs, inbox,
                   saturated, upsets>>

TakeRequest ==
    /\ link = "up" /\ open /\ actor = None /\ reqq # <<>>
    /\ CapabilityFor(Head(reqq)) \in srv.build.caps
    /\ reqq' = Tail(reqq)
    /\ actor' = Head(reqq)
    /\ sent' = sent \cup {Head(reqq)}
    /\ UNCHANGED <<srv, link, fetched, open, wire, task, runs, inbox,
                   saturated, loop, upsets>>

\* write_envelope fails: the request is answered and not put back.
WriteFails ==
    /\ link = "up" /\ ~open /\ actor = None /\ reqq # <<>>
    /\ CapabilityFor(Head(reqq)) \in srv.build.caps
    /\ reqq' = Tail(reqq)
    /\ link' = "down" /\ wire' = <<>>
    /\ FailCaller(Head(reqq))
    /\ UNCHANGED <<srv, fetched, open, sent, actor, runs, inbox, saturated, upsets>>

Response(r, status) == [ev |-> "response", to |-> r, status |-> status]

\* forward_event_envelope while idle, await_correlated_response while waiting:
\* events go to the inbox.  A response is always the awaited one, because a
\* request that is not waited for to its end takes the connection with it.
ReadFrame ==
    /\ link = "up" /\ wire # <<>>
    /\ wire' = Tail(wire)
    /\ LET f == Head(wire) IN
          \/ /\ f.ev # "response"
             /\ PushInbox(f)
             /\ UNCHANGED <<actor, task, loop>>
          \/ /\ f.ev = "response" /\ actor # None
             /\ f.to = actor \/ {f.to, actor} = Refreshes
             /\ AnswerCaller(actor, f.status)
             /\ actor' = None
             /\ UNCHANGED <<inbox, saturated>>
    /\ UNCHANGED <<srv, link, fetched, open, sent, reqq, runs, upsets>>

\* The read fails, whether or not a request is waited on.
ReadFails ==
    /\ link = "up" /\ ~open /\ wire = <<>>
    /\ Disconnect
    /\ UNCHANGED upsets

\* The actor's own IPC_RESPONSE_TIMEOUT.
ActorTimesOut ==
    /\ link = "up" /\ actor # None /\ upsets < MaxUpsets
    /\ Disconnect
    /\ upsets' = upsets + 1

-----------------------------------------------------------------------------
(* Omegon, as far as the connection can tell. *)

\* Events go to a subscriber only; what happens before Subscribe is told to nobody.
Emit(frames) ==
    /\ Len(wire) < WireCap
    /\ wire' = IF link = "up" /\ open THEN wire \o frames ELSE wire

ToActor(r, status) == IF actor = r THEN <<Response(r, status)>> ELSE <<>>

HandlePrompt(p) ==
    /\ srv.up /\ p \in sent
    /\ sent' = sent \ {p}
    /\ runs' = [runs EXCEPT ![p] = @ + 1]
    /\ \/ /\ srv' = [srv EXCEPT !.queue = Append(@, p), !.frontier = @ + 1]
          /\ Emit(<<Event("changed")>> \o ToActor(p, "accepted"))
       \/ /\ UNCHANGED srv
          /\ Emit(ToActor(p, "refused"))
    /\ UNCHANGED <<link, fetched, open, actor, reqq, task, inbox, saturated,
                   loop, upsets>>

HandleCancel(c) ==
    /\ srv.up /\ c \in sent
    /\ sent' = sent \ {c}
    /\ runs' = [runs EXCEPT ![c] = @ + 1]
    /\ Emit(ToActor(c, IF srv.turn = None THEN "refused" ELSE "accepted"))
    /\ UNCHANGED <<srv, link, fetched, open, actor, reqq, task, inbox,
                   saturated, loop, upsets>>

HandleGetState ==
    /\ srv.up
    /\ \E r \in sent \cap Refreshes :
          /\ sent' = sent \ Refreshes
          /\ Emit(<<Response(r, Snapshot)>>)
    /\ UNCHANGED <<srv, link, fetched, open, actor, reqq, task, runs, inbox,
                   saturated, loop, upsets>>

StartTurn ==
    /\ srv.up /\ srv.turn = None /\ srv.queue # <<>>
    /\ srv' = [srv EXCEPT !.turn = Head(srv.queue), !.queue = Tail(@), !.frontier = @ + 1]
    /\ Emit(<<Event("turn_started")>>)
    /\ UNCHANGED <<link, fetched, open, sent, actor, reqq, task, runs, inbox,
                   saturated, loop, upsets>>

EndTurn ==
    /\ srv.up /\ srv.turn # None
    /\ srv' = [srv EXCEPT !.turn = None, !.frontier = @ + 1]
    /\ Emit(<<Event("turn_ended")>>)
    /\ UNCHANGED <<link, fetched, open, sent, actor, reqq, task, runs, inbox,
                   saturated, loop, upsets>>

\* A new session generation in the same process.
ResetSession ==
    /\ srv.up /\ upsets < MaxUpsets
    /\ upsets' = upsets + 1
    /\ srv' = [srv EXCEPT !.gen = @ + 1, !.frontier = 0, !.turn = None, !.queue = <<>>]
    /\ Emit(<<Event("reset")>>)
    /\ UNCHANGED <<link, fetched, open, sent, actor, reqq, task, runs, inbox,
                   saturated, loop>>

\* Another client of the same Omegon prompts it.
OtherPrompt ==
    /\ srv.up /\ upsets < MaxUpsets
    /\ upsets' = upsets + 1
    /\ srv' = [srv EXCEPT !.queue = Append(@, "other"), !.frontier = @ + 1]
    /\ Emit(<<Event("changed")>>)
    /\ UNCHANGED <<link, fetched, open, sent, actor, reqq, task, runs, inbox,
                   saturated, loop>>

\* A slow subscriber: Omegon replaces the events it could not send by its state.
\* A response is kept; there is at most one, for the actor waits for one at a time.
Lag ==
    /\ srv.up /\ link = "up" /\ open /\ upsets < MaxUpsets /\ wire # <<>>
    /\ upsets' = upsets + 1
    /\ \/ /\ \A i \in DOMAIN wire : wire[i].ev # "response"
          /\ wire' = <<Reconciled(Snapshot)>>
       \/ \E i \in DOMAIN wire : /\ wire[i].ev = "response"
                                 /\ wire' = <<wire[i], Reconciled(Snapshot)>>
    /\ UNCHANGED <<srv, link, fetched, open, sent, actor, reqq, task, runs,
                   inbox, saturated, loop>>

\* The connection is lost, or Omegon dies; it need not come back.
CloseSocket ==
    /\ link # "down" /\ open /\ upsets < MaxUpsets
    /\ upsets' = upsets + 1
    /\ open' = FALSE
    /\ UNCHANGED <<srv, link, fetched, wire, sent, actor, reqq, task, runs,
                   inbox, saturated, loop>>

Crash ==
    /\ srv.up /\ upsets < MaxUpsets
    /\ upsets' = upsets + 1
    /\ srv' = [srv EXCEPT !.up = FALSE]
    /\ open' = FALSE /\ sent' = {}
    /\ UNCHANGED <<link, fetched, wire, actor, reqq, task, runs, inbox,
                   saturated, loop>>

Restart ==
    /\ ~srv.up
    /\ srv' = [srv EXCEPT !.up = TRUE, !.inst = @ + 1, !.gen = 1, !.frontier = 0,
                          !.turn = None, !.queue = <<>>]
    /\ UNCHANGED <<link, fetched, open, wire, sent, actor, reqq, task, runs,
                   inbox, saturated, loop, upsets>>
=============================================================================
