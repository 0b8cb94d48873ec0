--------------------------- MODULE AssistantConsole ---------------------------
(***************************************************************************)
(* The console of the primary agent (render_assistant_workspace in         *)
(* src/app.rs).  The operator stages settings for the next turn, applies   *)
(* them or sends a prompt with them; each click spawns a task that runs    *)
(* when the executor gets to it, and that waits for Omegon's state in the  *)
(* middle.  Beside that every render may spawn a load of the assistants.   *)
(* Over the event stream commands arrive in order; over IPC each command   *)
(* is a task of its own (dispatch_over_ipc).                               *)
(***************************************************************************)
EXTENDS Integers, Sequences, FiniteSets, Functions

CONSTANTS
    Endpoints,      \* addresses of assistant lists
    ModelOptions,   \* sets of models the authenticated providers may offer
    MaxClicks,      \* clicks on Apply and Send
    LoadIds,        \* loads of the assistants under way
    MaxStaged,      \* changes of the staged settings
    MaxTexts,       \* texts typed
    MaxShifts       \* changes of the session and of what is attached, and commands Omegon takes

VARIABLES
    reported,   \* the session: endpoint of the control plane, models on offer, can_submit
    attached,   \* the command transport, and whether a focused instance has a session
    desk,       \* AssistantWorkspaceState and the composer's draft
    loadTask, sendTask,
    outgoing,   \* every command handed to a transport, in order
    arrived,    \* external: the ones Omegon has
    shifts

acVars == <<reported, attached, desk, loadTask, sendTask, outgoing, arrived, shifts>>

SendIds == 1..MaxClicks
Nowhere == "nowhere"
Unset == "unset"
Models == UNION ModelOptions

\* The staged settings; limits stands for thinking level, context class and turns.  ver counts
\* the changes, for the properties.
NoProfile == [model |-> Unset, limits |-> Unset, slim |-> FALSE, ver |-> 0]
Idle == [at |-> "none", kind |-> "none", profile |-> NoProfile, options |-> {}, via |-> "none",
         clicked |-> 0]

AcInit ==
    /\ reported \in [endpoint : Endpoints \cup {Nowhere}, options : ModelOptions, idle : {TRUE}]
    /\ attached \in [via : {"stream", "ipc"}, focus : {FALSE}]
    /\ desk = [loading |-> FALSE, loaded |-> Nowhere, applying |-> FALSE, profile |-> NoProfile, draft |-> 0, texts |-> 0]
    /\ loadTask = [l \in LoadIds |-> [at |-> "none", of |-> Nowhere]]
    /\ sendTask = [t \in SendIds |-> Idle]
    /\ outgoing = <<>> /\ arrived = {}
    /\ shifts = 0

----------------------------------------------------------------------------
(* The list of assistants. *)

SpawnLoad(l) ==
    /\ loadTask[l].at = "none"
    /\ loadTask' = [loadTask EXCEPT ![l] = [at |-> "spawned", of |-> reported.endpoint]]
    /\ UNCHANGED <<reported, attached, desk, sendTask, outgoing, arrived, shifts>>

\* Every render, until the endpoint's list has been tried.
AutoLoad(l) ==
    reported.endpoint # Nowhere /\ ~desk.loading /\ desk.loaded # reported.endpoint /\ SpawnLoad(l)

\* The Refresh button is disabled while a load runs.
Refresh(l) == ~desk.loading /\ SpawnLoad(l)

\* refresh_assistant_workspace, up to the request...
LoadStarts(l) ==
    /\ loadTask[l].at = "spawned"
    /\ loadTask' = [loadTask EXCEPT ![l].at = "loading"]
    /\ desk' = [desk EXCEPT !.loading = TRUE]
    /\ UNCHANGED <<reported, attached, sendTask, outgoing, arrived, shifts>>

\* Mutant: a failed load leaves the flag.
LoadEndsQuietly(l, ok) ==
    /\ loadTask[l].at = "loading" /\ (ok => loadTask[l].of # Nowhere)
    /\ loadTask' = [loadTask EXCEPT ![l].at = "none"]
    /\ desk' = IF ok THEN [desk EXCEPT !.loading = FALSE, !.loaded = loadTask[l].of]
               ELSE [desk EXCEPT !.loaded = loadTask[l].of]
    /\ UNCHANGED <<reported, attached, sendTask, outgoing, arrived, shifts>>

\* ... and after it; apply_assistant_refresh_success, apply_assistant_refresh_failure.
LoadEnds(l, ok) ==
    /\ loadTask[l].at = "loading" /\ (ok => loadTask[l].of # Nowhere)
    /\ loadTask' = [loadTask EXCEPT ![l].at = "none"]
    /\ desk' = [desk EXCEPT !.loading = FALSE, !.loaded = loadTask[l].of]
    /\ UNCHANGED <<reported, attached, sendTask, outgoing, arrived, shifts>>

----------------------------------------------------------------------------
(* The settings of the next turn. *)

Stage(p) ==
    /\ desk.profile.ver < MaxStaged
    /\ desk' = [desk EXCEPT !.profile = [p EXCEPT !.ver = desk.profile.ver + 1]]
    /\ UNCHANGED <<reported, attached, loadTask, sendTask, outgoing, arrived, shifts>>

StageSomething ==
    \/ \E m \in Models : Stage([desk.profile EXCEPT !.model = m])
    \/ \E v \in {"valid", "invalid"} : Stage([desk.profile EXCEPT !.limits = v])
    \/ Stage([desk.profile EXCEPT !.slim = ~@])

TypeText ==
    /\ desk.texts < MaxTexts
    /\ desk' = [desk EXCEPT !.texts = @ + 1, !.draft = desk.texts + 1]
    /\ UNCHANGED <<reported, attached, loadTask, sendTask, outgoing, arrived, shifts>>

\* profile_control_commands: the settings are refused together, or sent in this order.
Acceptable(p, options) == (p.model = Unset \/ p.model \in options) /\ p.limits # "invalid"
profile_control_commands(p) ==
    (IF p.model = Unset THEN <<>> ELSE <<<<"model", p.model>>>>)
    \o (IF p.limits = Unset THEN <<>> ELSE <<<<"limits", p.limits>>>>)
    \o <<<<"slim", p.slim>>>>

\* dispatch_profile_command for each of them over the transport the task holds.
Envelope(t, p, via) ==
    LET commands == profile_control_commands(p)
    IN  [i \in DOMAIN commands |-> [by |-> t, what |-> commands[i], via |-> via]]

----------------------------------------------------------------------------
(* Apply. *)

\* Clicks are numbered as they come.
IsNextClick(t) == sendTask[t].at = "none" /\ \A u \in 1..(t - 1) : sendTask[u].at # "none"

\* The commands are made at the click.
ClickApply(t) ==
    /\ IsNextClick(t) /\ ~desk.applying
    /\ sendTask' = [sendTask EXCEPT ![t] =
           [Idle EXCEPT !.at = "spawned", !.kind = "apply", !.profile = desk.profile,
                        !.options = reported.options, !.via = attached.via]]
    /\ UNCHANGED <<reported, attached, desk, loadTask, outgoing, arrived, shifts>>

\* A refusal or a missing transport is shown; over IPC the task waits for the state.
RunApply(t) ==
    LET s == sendTask[t]
        sends == Acceptable(s.profile, s.options) /\ s.via # "none"
        waits == sends /\ s.via = "ipc"
    IN  /\ s.at = "spawned" /\ s.kind = "apply"
        /\ sendTask' = [sendTask EXCEPT ![t].at = IF waits THEN "waiting" ELSE "done"]
        /\ outgoing' = IF sends THEN outgoing \o Envelope(t, s.profile, s.via) ELSE outgoing
        /\ desk' = IF waits THEN [desk EXCEPT !.applying = TRUE]
                   ELSE IF Acceptable(s.profile, s.options) THEN [desk EXCEPT !.applying = FALSE]
                   ELSE desk
        /\ UNCHANGED <<reported, attached, loadTask, arrived, shifts>>

\* get_state has answered, with what Omegon says of its readiness, or failed.
Answers(answer) ==
    reported' = IF answer = "failed" THEN reported ELSE [reported EXCEPT !.idle = answer = "idle"]

FinishApply(t, answer) ==
    /\ sendTask[t].at = "waiting" /\ sendTask[t].kind = "apply"
    /\ Answers(answer)
    /\ sendTask' = [sendTask EXCEPT ![t].at = "done"]
    /\ desk' = [desk EXCEPT !.applying = FALSE]
    /\ UNCHANGED <<attached, loadTask, outgoing, arrived, shifts>>

----------------------------------------------------------------------------
(* Send. *)

\* embedded_can_send
ClickSend(t) ==
    /\ IsNextClick(t)
    /\ reported.endpoint # Nowhere /\ desk.draft # 0
    /\ sendTask' = [sendTask EXCEPT ![t] =
           [Idle EXCEPT !.at = "spawned", !.kind = "send", !.options = reported.options,
                        !.clicked = desk.profile.ver]]
    /\ UNCHANGED <<reported, attached, desk, loadTask, outgoing, arrived, shifts>>

\* The end of the task: submit_prompt_command takes the draft if the session can take it, and
\* otherwise the draft is sent and stays; a focused instance goes before the transport.
SendsPrompt(t, before, idle, via) ==
    IF desk.draft = 0
    THEN outgoing' = before /\ UNCHANGED desk
    ELSE /\ outgoing' = Append(before, [by |-> t, what |-> <<"prompt", desk.draft>>,
                                        via |-> IF attached.focus THEN "focus" ELSE via])
         /\ desk' = [desk EXCEPT !.draft = IF idle THEN 0 ELSE @]

\* Mutant: the prompt goes although the settings were refused.
RunSendAnyway(t) ==
    LET s == sendTask[t]
        p == desk.profile
    IN  /\ s.at = "spawned" /\ s.kind = "send"
        /\ sendTask' = [sendTask EXCEPT ![t].profile = p, ![t].via = attached.via, ![t].at = "done"]
        /\ SendsPrompt(t, outgoing, reported.idle, attached.via)
        /\ UNCHANGED <<reported, attached, loadTask, arrived, shifts>>

\* The task reads the settings and the transport when it runs.
RunSend(t) ==
    LET s == sendTask[t]
        p == desk.profile
        sends == Acceptable(p, s.options) /\ attached.via # "none"
        before == outgoing \o Envelope(t, p, attached.via)
    IN  /\ s.at = "spawned" /\ s.kind = "send"
        /\ sendTask' = [sendTask EXCEPT ![t].profile = p, ![t].via = attached.via,
                                        ![t].at = IF sends /\ attached.via = "ipc" THEN "waiting" ELSE "done"]
        /\ \/ ~sends /\ UNCHANGED <<outgoing, desk, reported>>
           \/ sends /\ attached.via = "ipc" /\ outgoing' = before /\ UNCHANGED <<desk, reported>>
           \/ /\ sends /\ attached.via = "stream"
              /\ SendsPrompt(t, before, reported.idle, "stream")
              /\ reported' = [reported EXCEPT !.idle = @ /\ desk.draft = 0]
        /\ UNCHANGED <<attached, loadTask, arrived, shifts>>

FinishSend(t, answer) ==
    LET idle == IF answer = "failed" THEN reported.idle ELSE answer = "idle"
    IN  /\ sendTask[t].at = "waiting" /\ sendTask[t].kind = "send"
        /\ sendTask' = [sendTask EXCEPT ![t].at = "done"]
        /\ SendsPrompt(t, outgoing, idle, sendTask[t].via)
        /\ reported' = [reported EXCEPT !.idle = idle /\ desk.draft = 0]
        /\ UNCHANGED <<attached, loadTask, arrived, shifts>>

----------------------------------------------------------------------------
(* Omegon and the session. *)

\* External: the stream keeps the order, the tasks of dispatch_over_ipc do not.
Arrive(i) ==
    /\ i \notin arrived /\ shifts < MaxShifts /\ shifts' = shifts + 1
    /\ outgoing[i].via = "stream" =>
          \A j \in 1..(i - 1) : outgoing[j].via = "stream" => j \in arrived
    /\ arrived' = arrived \cup {i}
    /\ UNCHANGED <<reported, attached, desk, loadTask, sendTask, outgoing>>

\* The control plane moves, a provider logs in or out, a run begins or ends; a transport comes
\* or goes, an instance is focused.
Shift ==
    /\ shifts < MaxShifts /\ shifts' = shifts + 1
    /\ \/ /\ \/ \E e \in Endpoints : reported' = [reported EXCEPT !.endpoint = e]
             \/ \E o \in ModelOptions : reported' = [reported EXCEPT !.options = o]
             \/ reported' = [reported EXCEPT !.idle = ~@]
          /\ UNCHANGED attached
       \/ /\ \/ \E v \in {"none", "stream", "ipc"} : attached' = [attached EXCEPT !.via = v]
             \/ attached' = [attached EXCEPT !.focus = ~@]
          /\ UNCHANGED reported
    /\ UNCHANGED <<desk, loadTask, sendTask, outgoing, arrived>>

AcNext ==
    \/ \E l \in LoadIds : \/ AutoLoad(l) \/ Refresh(l) \/ LoadStarts(l)
                          \/ \E ok \in BOOLEAN : LoadEnds(l, ok)
    \/ \E t \in SendIds : \/ ClickApply(t) \/ RunApply(t) \/ ClickSend(t) \/ RunSend(t)
                          \/ \E answer \in {"idle", "busy", "failed"} :
                                FinishApply(t, answer) \/ FinishSend(t, answer)
    \/ StageSomething \/ TypeText \/ Shift
    \/ \E i \in DOMAIN outgoing : Arrive(i)

AcSpec == AcInit /\ [][AcNext]_acVars

----------------------------------------------------------------------------
IsPrompt(m) == m.what[1] = "prompt"

\* What task t has handed over before position i.
Before(i, t) == {j \in 1..(i - 1) : outgoing[j].by = t}

\* The flags that disable Refresh and Apply have a task behind them that will clear them.
FlagsHaveATask ==
    /\ desk.loading => \E l \in LoadIds : loadTask[l].at = "loading"
    /\ desk.applying => \E t \in SendIds : sendTask[t].at = "waiting" /\ sendTask[t].kind = "apply"

\* Behind every prompt stand all the settings of one state of the controls, no older than the
\* click, and acceptable to the providers of that moment.
PromptsFollowTheirEnvelope ==
    \A i \in DOMAIN outgoing : IsPrompt(outgoing[i]) =>
        LET s == sendTask[outgoing[i].by]
        IN  /\ Acceptable(s.profile, s.options) /\ s.profile.ver >= s.clicked
            /\ {outgoing[j].what : j \in Before(i, outgoing[i].by)}
                  = Range(profile_control_commands(s.profile))

\* However clicks, loads and answers interleave, the console does not lock itself, and no prompt
\* leaves it with settings that were refused, incomplete, or staged before the click
\* (refresh_assistant_workspace, profile_control_commands, the onsubmit handler).
ConsoleIsConsistent == FlagsHaveATask /\ PromptsFollowTheirEnvelope

\* Expected to fail.  The settings are there when the prompt arrives ("sends requested settings
\* before the prompt", app.rs:4858): over IPC every command is a task of its own.
SettingsArriveFirst ==
    \A i \in arrived : IsPrompt(outgoing[i]) => Before(i, outgoing[i].by) \subseteq arrived

\* Expected to fail.  The settings go where the prompt goes ("Sent with the selected next-turn
\* envelope", app.rs:5915): the settings go to the session's Omegon, the prompt to the instance
\* that is focused.
EnvelopeGoesAlong ==
    \A i \in DOMAIN outgoing : IsPrompt(outgoing[i]) =>
        \A j \in Before(i, outgoing[i].by) : outgoing[j].via = outgoing[i].via
=============================================================================
