-------------------------- MODULE SessionTranscript --------------------------
(***************************************************************************)
(* What an operator reads of a session: the transcript and the chat that   *)
(* remote_session.rs builds from Omegon's events, the badge of an instance *)
(* session (instance_session.rs), and the audit ledger the controller      *)
(* keeps of it on disk (controller.rs, audit_timeline.rs, bootstrap.rs).   *)
(*                                                                         *)
(* Events are applied in the order they come, each by one handler that     *)
(* ends with a refresh of the ledger; a full inbox may have dropped any of *)
(* them.  A message is a number, and the text of a delta is the number of  *)
(* the message it is part of.  The native IPC protocol has neither         *)
(* MessageStart nor MessageAbort.  Auspex itself starts, attaches and      *)
(* restarts.                                                               *)
(***************************************************************************)
EXTENDS AuditTimeline, SequencesExt

CONSTANTS ToolIds, MaxTurns, MaxMessages, MaxDeltas, MaxEvents, MaxLost, MaxStarts, Nil

ASSUME TranscriptAssumption == Nil \notin {"Assistant", "User", "System", "Dispatcher", "Child"}

VARIABLES
    view,    \* RemoteHostSession: turns, chat, the message being streamed
    badge,   \* ActivitySummary of the instance session
    audit,   \* the ledger in memory, and what was last recorded of telemetry
    disk,    \* the entries of audit-timeline.json
    app,     \* which kind of session the controller holds, and how often it started
    omegon   \* external: what Omegon has said

trVars == <<view, badge, audit, disk, app, omegon>>

Block(kind, id, body, origin) ==
    [kind |-> kind, id |-> id, body |-> body, origin |-> origin, result |-> Nil]

\* from_snapshot: one chat message, an empty transcript.
FreshView ==
    [turns |-> <<>>, active |-> Nil, chat |-> <<[role |-> "System", body |-> <<>>]>>,
     role |-> Nil, text |-> <<>>, running |-> FALSE, ended |-> 0]

FreshBadge == [running |-> FALSE, turns |-> 0, tools |-> 0]

FreshAudit(store) == [store |-> store, last |-> 0, sequence |-> 0]

\* A session of Omegon over one of its two protocols.
NewSession(protocol) ==
    [protocol |-> protocol, turn |-> 0, inTurn |-> FALSE, message |-> 0, deltas |-> 0,
     whole |-> FALSE, said |-> 0, told |-> {}, running |-> {}, used |-> {},
     reset |-> FALSE, events |-> 0, lost |-> 0]

TrInit ==
    /\ view = FreshView
    /\ badge = FreshBadge
    /\ audit = FreshAudit(EmptyStore)
    /\ disk = <<>>
    /\ app = [mode |-> "off", starts |-> 0]
    /\ omegon = NewSession("ipc")

-----------------------------------------------------------------------------
(* The transcript. *)

HasTurn(v) == v.turns # <<>>

Blocks(v) == Last(v.turns).blocks

\* transcript.turns.last_mut(): the blocks of the last turn, replaced.
WithBlocks(v, blocks) == [v EXCEPT !.turns[Len(v.turns)].blocks = blocks]

PushBlock(v, block) == IF HasTurn(v) THEN WithBlocks(v, Append(Blocks(v), block)) ELSE v

LastBlock(v) ==
    IF HasTurn(v) /\ Blocks(v) # <<>> THEN Last(Blocks(v)) ELSE Block("none", Nil, <<>>, Nil)

ReplaceLast(v, block) == WithBlocks(v, [Blocks(v) EXCEPT ![Len(Blocks(v))] = block])

push_chat_message(v, role, body) ==
    [v EXCEPT !.chat = Append(@, [role |-> role, body |-> body])]

push_system_notice(v, origin) ==
    PushBlock(push_chat_message(v, "System", <<>>), Block("system", Nil, <<>>, origin))

push_dispatcher_notice(v) == push_system_notice(v, "Dispatcher")

SystemNotification(v) == push_system_notice(v, "System")

PlanUpdated(v) == push_dispatcher_notice(v)

DecompositionStarted(v) == push_dispatcher_notice(v)

DecompositionChildCompleted(v) == push_system_notice(v, "Child")

DecompositionCompleted(v) == push_dispatcher_notice(v)

MessageStart(v, role) == [v EXCEPT !.role = role, !.text = <<>>]

\* The text so far takes the place of the last block when that is a message,
\* be it the one being streamed or a completed one of the dispatcher.
MessageDelta(v, m) ==
    LET w == [v EXCEPT !.text = Append(@, m),
                       !.role = IF @ = Nil THEN "Assistant" ELSE @]
        last == LastBlock(v)
    IN  IF last.kind = "text" /\ last.origin \in {Nil, "Dispatcher"}
        THEN ReplaceLast(w, [last EXCEPT !.body = w.text])
        ELSE PushBlock(w, Block("text", Nil, w.text, Nil))

ThinkingDelta(v) ==
    IF LastBlock(v).kind = "thinking" THEN ReplaceLast(v, [LastBlock(v) EXCEPT !.body = <<1>>])
    ELSE PushBlock(v, Block("thinking", Nil, <<>>, Nil))

\* Mutant: outside a turn there is nothing to complete.
MessageCompletedInTurn(v) ==
    LET w == [push_chat_message(v, v.role, v.text) EXCEPT !.role = Nil, !.text = <<>>]
    IN  IF v.role = Nil THEN v
        ELSE IF HasTurn(v) THEN ReplaceLast(w, Block("text", Nil, v.text, "Dispatcher"))
        ELSE [v EXCEPT !.role = Nil, !.text = <<>>]

MessageCompleted(v) ==
    LET w == [push_chat_message(v, v.role, v.text) EXCEPT !.role = Nil, !.text = <<>>]
        block == Block("text", Nil, v.text, "Dispatcher")
    IN  IF v.role = Nil THEN v
        ELSE IF LastBlock(v).kind = "text" THEN ReplaceLast(w, block)
        ELSE PushBlock(w, block)

\* The streamed block, which has no origin yet, becomes an aborted one.
Aborted(v, body) ==
    IF LastBlock(v).kind = "text" /\ LastBlock(v).origin = Nil
    THEN ReplaceLast(v, Block("aborted", Nil, body, Nil))
    ELSE PushBlock(v, Block("aborted", Nil, body, Nil))

MessageAbort(v) ==
    LET w == IF v.role = "Assistant" THEN push_chat_message(v, "System", v.text) ELSE v
    IN  [Aborted(w, v.text) EXCEPT !.role = Nil, !.text = <<>>, !.running = FALSE]

SessionReset(v) == [FreshView EXCEPT !.ended = v.ended]

TurnStarted(v, n) ==
    [v EXCEPT !.active = n, !.running = TRUE,
              !.turns = Append(@, [number |-> n, blocks |-> <<>>])]

\* IPC has no MessageAbort: a message still open is flushed as an aborted block.
TurnEnded(v) ==
    LET w == IF v.role # Nil /\ v.text # <<>> /\ HasTurn(v) THEN Aborted(v, v.text) ELSE v
    IN  [w EXCEPT !.role = Nil, !.text = IF v.role = Nil THEN @ ELSE <<>>,
                  !.active = Nil, !.running = FALSE, !.ended = @ + 1]

ToolStarted(v, id) == PushBlock(v, Block("tool", id, <<>>, "Dispatcher"))

\* A tool is only looked for in the last block of the last turn.
ToolUpdated(v, id, partial) ==
    IF partial /\ LastBlock(v).kind = "tool" /\ LastBlock(v).id = id
    THEN ReplaceLast(v, [LastBlock(v) EXCEPT !.body = <<1>>]) ELSE v

ToolEnded(v, id) ==
    IF LastBlock(v).kind = "tool" /\ LastBlock(v).id = id
    THEN ReplaceLast(v, [LastBlock(v) EXCEPT !.result = id]) ELSE v

AgentCompleted(v) == [v EXCEPT !.running = FALSE]

-----------------------------------------------------------------------------
(* The ledger. *)

\* session_audit_key: a live session has its own, the others that of a fixture.
session_audit_key == IF app'.mode = "remote" THEN "remote" ELSE "mock"

\* append_telemetry_audit_entries: nothing unless telemetry has changed; the
\* number of turns that ended stands for what telemetry says.
append_telemetry_audit_entries(a, key, v) ==
    IF v.ended + 1 = a.last THEN a
    ELSE LET entry == TelemetryEntry(key, a.sequence + 1,
                                     Block("telemetry", Nil, <<v.ended>>, Nil))
         IN  [store |-> append_entry(a.store, entry),
              last |-> v.ended + 1, sequence |-> a.sequence + 1]

\* refresh_audit_timeline, whose result is written to the file.
Refreshed(a, key, v) ==
    append_telemetry_audit_entries(
        [a EXCEPT !.store = append_transcript_snapshot(@, key, v.turns)], key, v)

Persist == disk' = audit'.store.entries

-----------------------------------------------------------------------------
(* Starting and attaching. *)

\* The controllers of startup failures, fixtures and the wait for an owned
\* Omegon read the ledger and go on with it.
StartMock ==
    /\ app.starts < MaxStarts
    /\ app' = [mode |-> "mock", starts |-> app.starts + 1]
    /\ view' = FreshView
    /\ audit' = Refreshed(FreshAudit(load_or_default(disk)), session_audit_key, FreshView)
    /\ Persist
    /\ UNCHANGED <<badge, omegon>>

\* from_remote_snapshot_json_with_registry refreshes, and so writes, the
\* ledger of a new controller before the bootstrap reads the file.
AttachRemote(protocol) ==
    LET first == Refreshed(FreshAudit(EmptyStore), session_audit_key, FreshView)
        read == [first EXCEPT !.store = load_or_default(first.store.entries)]
    IN  /\ app.starts < MaxStarts
        /\ app' = [mode |-> "remote", starts |-> app.starts + 1]
        /\ view' = FreshView
        /\ badge' = FreshBadge
        /\ audit' = Refreshed(read, session_audit_key, FreshView)
        /\ Persist
        /\ omegon' = NewSession(protocol)

-----------------------------------------------------------------------------
(* Omegon's events.  Applied, or dropped by a full inbox. *)

\* handle_session_mutation
Emit(next, v, b) ==
    /\ app.mode = "remote" /\ omegon.events < MaxEvents
    /\ UNCHANGED app
    /\ \/ /\ view' = v
          /\ badge' = b
          /\ audit' = Refreshed(audit, session_audit_key, v)
          /\ Persist
          /\ omegon' = [next EXCEPT !.events = @ + 1]
       \/ /\ omegon.lost < MaxLost
          /\ omegon' = [next EXCEPT !.events = @ + 1, !.lost = @ + 1,
                                    !.whole = FALSE, !.told = @ \intersect omegon.told]
          /\ UNCHANGED <<view, badge, audit, disk>>

EmitTurnStarted ==
    /\ ~omegon.inTurn /\ omegon.turn < MaxTurns
    /\ Emit([omegon EXCEPT !.turn = @ + 1, !.inTurn = TRUE],
            TurnStarted(view, omegon.turn + 1),
            [badge EXCEPT !.running = TRUE, !.turns = @ + 1])

EmitTurnEnded ==
    /\ omegon.inTurn
    /\ Emit([omegon EXCEPT !.inTurn = FALSE, !.message = 0, !.running = {}],
            TurnEnded(view), [badge EXCEPT !.running = FALSE])

EmitMessageStart(role) ==
    /\ omegon.protocol = "ws" /\ omegon.message = 0 /\ omegon.said < MaxMessages
    /\ Emit([omegon EXCEPT !.message = @ + omegon.said + 1, !.said = @ + 1,
                           !.deltas = 0, !.whole = TRUE],
            MessageStart(view, role), badge)

\* Over IPC the first delta is the start of a message.
EmitMessageDelta ==
    \/ /\ omegon.message # 0 /\ omegon.deltas < MaxDeltas
       /\ Emit([omegon EXCEPT !.deltas = @ + 1], MessageDelta(view, omegon.message), badge)
    \/ /\ omegon.protocol = "ipc" /\ omegon.message = 0 /\ omegon.said < MaxMessages
       /\ Emit([omegon EXCEPT !.message = omegon.said + 1, !.said = @ + 1,
                              !.deltas = 1, !.whole = TRUE],
               MessageDelta(view, omegon.said + 1), badge)

EmitMessageCompleted ==
    /\ omegon.message # 0
    /\ Emit([omegon EXCEPT !.message = 0,
                !.told = IF omegon.whole /\ omegon.deltas > 0
                         THEN @ \union {omegon.message} ELSE @],
            MessageCompleted(view), badge)

EmitMessageAbort ==
    /\ omegon.protocol = "ws" /\ omegon.message # 0
    /\ Emit([omegon EXCEPT !.message = 0], MessageAbort(view), [badge EXCEPT !.running = FALSE])

EmitThinking ==
    /\ omegon.inTurn
    /\ Emit(omegon, ThinkingDelta(view), badge)

EmitNotice ==
    \E w \in {SystemNotification(view), PlanUpdated(view), DecompositionStarted(view),
             DecompositionChildCompleted(view), DecompositionCompleted(view)} :
        Emit(omegon, w, badge)

EmitToolStarted(id) ==
    /\ omegon.inTurn /\ id \notin omegon.used
    /\ Emit([omegon EXCEPT !.running = @ \union {id}, !.used = @ \union {id}],
            ToolStarted(view, id), [badge EXCEPT !.tools = @ + 1])

\* Over IPC an update says nothing but that there is one.
EmitToolUpdated(id) ==
    /\ id \in omegon.running
    /\ Emit(omegon, ToolUpdated(view, id, omegon.protocol = "ws"), badge)

EmitToolEnded(id) ==
    /\ id \in omegon.running
    /\ Emit([omegon EXCEPT !.running = @ \ {id}], ToolEnded(view, id), badge)

EmitAgentCompleted ==
    /\ omegon.inTurn
    /\ Emit(omegon, AgentCompleted(view), [badge EXCEPT !.running = FALSE])

\* A new session of Omegon counts its turns from one again.
EmitSessionReset ==
    /\ omegon.turn > 0
    /\ Emit([omegon EXCEPT !.turn = 0, !.inTurn = FALSE, !.message = 0, !.running = {},
                           !.told = {}, !.reset = TRUE],
            SessionReset(view), badge)

TrNext ==
    \/ StartMock
    \/ \E p \in {"ipc", "ws"} : AttachRemote(p)
    \/ EmitTurnStarted \/ EmitTurnEnded
    \/ \E r \in {"Assistant", "User"} : EmitMessageStart(r)
    \/ EmitMessageDelta \/ EmitMessageCompleted \/ EmitMessageAbort \/ EmitThinking
    \/ EmitNotice
    \/ \E id \in ToolIds : EmitToolStarted(id) \/ EmitToolUpdated(id) \/ EmitToolEnded(id)
    \/ EmitAgentCompleted \/ EmitSessionReset

TrSpec == TrInit /\ [][TrNext]_trVars

-----------------------------------------------------------------------------
(* Properties. *)

Bodies == Seq(1 .. MaxMessages)

\* A message is streamed by someone; blocks and turns are as Turn and TurnBlock
\* say, and the badge and the ledger count up from nothing.
TrTypeOK ==
    /\ view.role \in {Nil, "Assistant", "User"}
    /\ view.text \in Bodies
    /\ view.text # <<>> => view.role # Nil
    /\ \A t \in DOMAIN view.turns :
         /\ view.turns[t].number \in 1 .. MaxTurns
         /\ \A i \in DOMAIN view.turns[t].blocks :
              view.turns[t].blocks[i].kind \in {"text", "thinking", "tool", "system", "aborted"}
    /\ badge \in [running : BOOLEAN, turns : Nat, tools : Nat]
    /\ audit.sequence \in Nat
    /\ disk = audit.store.entries

\* A tool card never shows what another tool has returned, however the events
\* of tools that run side by side are interleaved or lost.
ToolResultsAreTheirOwn ==
    \A t \in DOMAIN view.turns : \A i \in DOMAIN view.turns[t].blocks :
        LET block == view.turns[t].blocks[i]
        IN  block.result # Nil => block.kind = "tool" /\ block.result = block.id

\* A message of which no event was dropped is in the chat once it is
\* complete, over either protocol, and stays there until the session is reset.
CompletedMessagesAreInTheChat ==
    app.mode = "remote" =>
        \A m \in omegon.told : \E i \in DOMAIN view.chat : m \in ToSet(view.chat[i].body)

\* The badge of an instance says that it runs whenever its session does: the
\* two are computed apart, from the same events.
BadgeCoversSession == app.mode = "remote" /\ view.running => badge.running

\* What a block may become: text and thinking grow, a tool shows output and a result, a message
\* that is streamed is aborted.  A notice, and an aborted message, stay as they came.
GoesOn(first, now) ==
    /\ first.id = now.id
    /\ first.kind = now.kind \/ (first.kind = "text" /\ now.kind = "aborted")
    /\ first.kind \in {"system", "aborted"} => first = now

\* A block that takes up another message leaves the one it showed to the chat.
IsReadOn(first, now, chat) ==
    IsPrefix(first.body, now.body) \/ \E i \in DOMAIN chat : IsPrefix(first.body, chat[i].body)

\* Until the session is reset, the ledger has an entry for every block on the screen, which holds
\* it as it first was: the entry is of the same kind and tool, and, if no event was dropped, its
\* text is the beginning of what the operator reads in the block or in the chat.
LedgerHoldsFirstForms ==
    app.mode = "remote" /\ ~omegon.reset =>
        \A t \in DOMAIN view.turns : \A i \in DOMAIN view.turns[t].blocks :
            \E e \in ToSet(audit.store.entries) :
                /\ e.id = BlockId("remote", view.turns[t].number, i)
                /\ GoesOn(e.content, view.turns[t].blocks[i])
                /\ omegon.lost = 0 => IsReadOn(e.content, view.turns[t].blocks[i], view.chat)

\* The ledger holds what is on the screen.  Refuted: an entry is never changed, so that of a
\* message ends with its first delta and that of a tool has no result.
LedgerIsTheTranscript ==
    app.mode = "remote" =>
        \A t \in DOMAIN view.turns : \A i \in DOMAIN view.turns[t].blocks :
            BlockEntry("remote", view.turns[t].number, i, view.turns[t].blocks[i])
                \in ToSet(audit.store.entries)

\* The first forms without the proviso.  Refuted: after a reset the turns are counted from one
\* again, and a block whose id is in the ledger is not recorded.
LedgerOutlastsResets ==
    app.mode = "remote" =>
        \A t \in DOMAIN view.turns : \A i \in DOMAIN view.turns[t].blocks :
            \E e \in ToSet(audit.store.entries) :
                /\ e.id = BlockId("remote", view.turns[t].number, i)
                /\ GoesOn(e.content, view.turns[t].blocks[i])

\* No id is in the ledger twice, through restarts that read it back.
LedgerIdsAreUnique ==
    \A i, j \in DOMAIN disk : disk[i].id = disk[j].id => i = j

\* What the ledger on disk holds is only ever added to.  Refuted: attaching
\* to an Omegon writes the ledger of a new controller over the file before
\* the file is read.
LedgerIsAppendOnly == [][IsPrefix(disk, disk')]_trVars

\* The conversation on screen is what Omegon said, however its events interleave: results with
\* their tools, completed messages in the chat, the badge covering what is on screen; and until a
\* reset the audit ledger has the first form of every block, and no id twice, also after the
\* ledger of an earlier start was read.
TranscriptIsFaithful ==
    /\ ToolResultsAreTheirOwn /\ CompletedMessagesAreInTheChat /\ BadgeCoversSession
    /\ LedgerHoldsFirstForms /\ LedgerIdsAreUnique
==============================================================================
