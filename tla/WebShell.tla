------------------------------ MODULE WebShell ------------------------------
(***************************************************************************)
(* The browser page of an Omegon daemon (src/omegon_web_mock.rs with the   *)
(* calls of src/omegon_web_contract.rs).  What the page shows is the last  *)
(* snapshot anybody set: the stream's frames, and the answers of the       *)
(* refreshes that deltas, prompts and permission answers ask for, each in  *)
(* a task of its own with the context it was started with.                 *)
(***************************************************************************)
EXTENDS Integers, Sequences, FiniteSets

CONSTANTS
    Tasks,         \* tasks the page has at a time
    MaxRevision,   \* revisions of the daemon's surfaces
    MaxDrafts,     \* texts the operator types
    MaxWire        \* frames on the stream

VARIABLES
    surfaces,  \* external: the daemon: its revision, the prompts it took, the permission it asks
    page,      \* the signals of OmegonWebMockApp
    task,      \* post_action_request and refresh_surfaces_snapshot under way
    frames     \* external: frames on the way to the page

wsVars == <<surfaces, page, task, frames>>

\* A surface as the page shows it: the revision of its content, and whether its session,
\* links and workspace are the daemon's or the fixture's.
Fixture == [rev |-> 0, of |-> "fixture"]
NoTask == [st |-> "free", what |-> "delta", of |-> "fixture", text |-> 0, id |-> 0, rev |-> 0, acted |-> 0]

WsInit ==
    /\ surfaces = [rev |-> 1, taken |-> <<>>, permission |-> "none"]
    /\ page = [load |-> "pending", loaded |-> Fixture, set |-> FALSE, override |-> Fixture,
               stream |-> "unopened", streamOf |-> "fixture", sent |-> 0, draft |-> 0, typed |-> 0]
    /\ task = [t \in Tasks |-> NoTask]
    /\ frames = <<>>

\* OmegonWebMockApp: the override, else what was loaded, else the fixture.
Shown == IF page.set THEN page.override ELSE page.loaded

\* normalize_backend_session: content, session and links of one answer of the daemon.
Normalized(of, rev) == [rev |-> rev, of |-> of]

\* normalize_refreshed_surface: the content of a snapshot in the session and links of the
\* context, which is the surface that was shown when the call began.
PageRefreshed(context, rev) == Normalized(context, rev)

----------------------------------------------------------------------------
\* External: the frame of a change; a stream that cannot keep up loses it.
Pushed(kind) ==
    IF page.stream = "open" /\ Len(frames) < MaxWire
    THEN Append(frames, [kind |-> kind, rev |-> surfaces.rev + 1]) ELSE frames

\* The daemon's surfaces change; its stream tells the page, with a snapshot or a delta.
SurfacesChange(kind, asks) ==
    /\ surfaces.rev < MaxRevision
    /\ surfaces' = [surfaces EXCEPT !.rev = @ + 1, !.permission = IF asks /\ @ = "none" THEN "asked" ELSE @]
    /\ frames' = Pushed(kind)
    /\ UNCHANGED <<page, task>>

\* load_initial_session: any of its three calls may fail, and then the fixture is shown.
LoadSession(ok) ==
    /\ page.load = "pending"
    /\ page' = [page EXCEPT !.load = IF ok THEN "ok" ELSE "failed",
                            !.loaded = IF ok THEN Normalized("session", surfaces.rev) ELSE Fixture]
    /\ UNCHANGED <<surfaces, task, frames>>

\* start_surface_stream, once, from the effect after the first render: the context is the
\* one of the surface that is shown then.
StartStream(opens) ==
    /\ page.stream = "unopened"
    /\ page' = [page EXCEPT !.stream = IF opens THEN "open" ELSE "closed", !.streamOf = Shown.of]
    /\ UNCHANGED <<surfaces, task, frames>>

\* onclose, onerror: nobody opens it again.
StreamCloses ==
    /\ page.stream = "open"
    /\ page' = [page EXCEPT !.stream = "closed"]
    /\ frames' = <<>>
    /\ UNCHANGED <<surfaces, task>>

\* onmessage: a snapshot is set as it is; anything else asks for a refresh.  A frame that
\* cannot be read is only reported.
OnMessage(readable) ==
    /\ frames # <<>>
    /\ frames' = Tail(frames)
    /\ CASE ~readable -> UNCHANGED <<page, task>>
         [] readable /\ Head(frames).kind = "snapshot" ->
               /\ page' = [page EXCEPT !.set = TRUE, !.override = PageRefreshed(page.streamOf, Head(frames).rev)]
               /\ UNCHANGED task
         [] OTHER -> \E t \in Tasks :
               /\ task[t].st = "free"
               /\ task' = [task EXCEPT ![t] = [NoTask EXCEPT !.st = "refresh", !.of = page.streamOf]]
               /\ UNCHANGED page
    /\ UNCHANGED surfaces

----------------------------------------------------------------------------
\* The operator types, or takes a command from the dock.
TypeDraft ==
    /\ page.typed < MaxDrafts
    /\ page' = [page EXCEPT !.typed = @ + 1, !.draft = page.typed + 1]
    /\ UNCHANGED <<surfaces, task, frames>>

\* Composer, Send: the number of the action is that of the prompts accepted so far.
SendPrompt(t) ==
    /\ page.draft # 0 /\ task[t].st = "free"
    /\ task' = [task EXCEPT ![t] = [NoTask EXCEPT !.st = "post", !.what = "prompt", !.text = page.draft,
                                                   !.id = page.sent + 1, !.of = Shown.of]]
    /\ UNCHANGED <<surfaces, page, frames>>

\* submit_permission_response: the buttons stay as long as the segment is shown.
RespondPermission(t) ==
    /\ surfaces.permission # "none" /\ Shown.rev # 0 /\ task[t].st = "free"
    /\ task' = [task EXCEPT ![t] = [NoTask EXCEPT !.st = "post", !.what = "permission", !.of = Shown.of]]
    /\ UNCHANGED <<surfaces, page, frames>>

\* External: the daemon takes the action, or refuses it.
DaemonTakes(t) ==
    /\ task[t].st = "post" /\ surfaces.rev < MaxRevision
    /\ task[t].what = "permission" => surfaces.permission = "asked"
    /\ surfaces' = [surfaces EXCEPT !.rev = @ + 1,
                        !.taken = IF task[t].what = "prompt" THEN Append(@, [id |-> task[t].id, text |-> task[t].text])
                                  ELSE @,
                        !.permission = IF task[t].what = "permission" THEN "answered" ELSE @]
    /\ task' = [task EXCEPT ![t].st = "taken", ![t].acted = surfaces.rev + 1]
    /\ frames' = Pushed("delta")
    /\ UNCHANGED page

DaemonRefuses(t) ==
    /\ task[t].st = "post"
    /\ task' = [task EXCEPT ![t].st = "refused"]
    /\ UNCHANGED <<surfaces, page, frames>>

\* The outcome of a prompt: an accepted one is counted, the composer cleared whatever it
\* holds by now, and a refresh asked for; anything else is only reported.
PromptOutcome(t) ==
    /\ task[t].what = "prompt" /\ task[t].st \in {"taken", "refused"}
    /\ IF task[t].st = "taken"
       THEN /\ task' = [task EXCEPT ![t].st = "refresh"]
            /\ page' = [page EXCEPT !.sent = @ + 1, !.draft = 0]
       ELSE task' = [task EXCEPT ![t] = NoTask] /\ UNCHANGED page
    /\ UNCHANGED <<surfaces, frames>>

\* The outcome of a permission answer.
PermissionOutcome(t) ==
    /\ task[t].what = "permission" /\ task[t].st \in {"taken", "refused"}
    /\ task' = [task EXCEPT ![t] = IF @.st = "taken" THEN [@ EXCEPT !.st = "refresh"] ELSE NoTask]
    /\ UNCHANGED <<surfaces, page, frames>>

\* A call fails, before or after the daemon saw it.
CallFails(t) ==
    /\ task[t].st # "free"
    /\ task' = [task EXCEPT ![t] = NoTask]
    /\ UNCHANGED <<surfaces, page, frames>>

\* Mutant: the snapshot is the one the page has.
SnapshotCached(t) ==
    /\ task[t].st = "refresh"
    /\ task' = [task EXCEPT ![t].st = "snapshot", ![t].rev = Shown.rev]
    /\ UNCHANGED <<surfaces, page, frames>>

\* refresh_surfaces_snapshot: the daemon answers...
SnapshotTaken(t) ==
    /\ task[t].st = "refresh"
    /\ task' = [task EXCEPT ![t].st = "snapshot", ![t].rev = surfaces.rev]
    /\ UNCHANGED <<surfaces, page, frames>>

\* ... and the page shows what it answered, whatever it has shown since.
SnapshotArrives(t) ==
    /\ task[t].st = "snapshot"
    /\ page' = [page EXCEPT !.set = TRUE, !.override = PageRefreshed(task[t].of, task[t].rev)]
    /\ task' = [task EXCEPT ![t] = NoTask]
    /\ UNCHANGED <<surfaces, frames>>

WsNext ==
    \/ \E kind \in {"snapshot", "delta"}, asks \in BOOLEAN : SurfacesChange(kind, asks)
    \/ \E b \in BOOLEAN : LoadSession(b) \/ StartStream(b) \/ OnMessage(b)
    \/ StreamCloses \/ TypeDraft
    \/ \E t \in Tasks : \/ SendPrompt(t) \/ RespondPermission(t) \/ DaemonTakes(t) \/ DaemonRefuses(t)
                        \/ PromptOutcome(t) \/ PermissionOutcome(t) \/ CallFails(t) \/ SnapshotTaken(t) \/ SnapshotArrives(t)

WsSpec == WsInit /\ [][WsNext]_wsVars

----------------------------------------------------------------------------
\* The state is well formed: what is shown is a revision the daemon has had, an accepted
\* prompt is one the daemon took.
WsTypeOK ==
    /\ Shown.rev \in 0..surfaces.rev
    /\ page.load \in {"pending", "ok", "failed"} /\ page.stream \in {"unopened", "open", "closed"}
    /\ page.draft \in 0..MaxDrafts /\ page.sent <= Len(surfaces.taken)
    /\ \A t \in Tasks : task[t].acted <= surfaces.rev

\* The operator sees what was just accepted: the refresh that follows an accepted prompt or
\* permission answer is asked for after the outcome, so what it shows includes the action,
\* whatever else is under way (Composer, submit_permission_response).
ReadsItsWrites ==
    [][\A t \in Tasks :
          task[t].st = "snapshot" /\ task'[t].st = "free" /\ page' # page => Shown'.rev >= task[t].acted]_wsVars

\* Expected to fail.  What is shown never goes back to an earlier revision: two refreshes that
\* are answered in one order and arrive in the other.
PageNeverGoesBack == [][page.set => Shown'.rev >= Shown.rev]_wsVars

\* Expected to fail.  Once the session was loaded the page shows the session's own links and
\* workspace: the stream was started with the fixture's.
ShowsItsSession == page.load = "ok" => Shown.of = "session"

\* Expected to fail.  Two prompts have two action ids: the second is sent before the first
\* was accepted.
ActionIdsAreUnique ==
    \A i, j \in DOMAIN surfaces.taken : surfaces.taken[i].id = surfaces.taken[j].id => i = j

\* Expected to fail.  Only the text that was sent is cleared.
DraftIsSent ==
    [][page.draft # 0 /\ page'.draft = 0 =>
          \E i \in DOMAIN surfaces.taken : surfaces.taken[i].text = page.draft]_wsVars
=============================================================================
