-------------------------- MODULE DispatcherSwitch --------------------------
(***************************************************************************)
(* Switching the dispatcher of a live session (remote_session.rs): the     *)
(* request Auspex numbers and shows as pending, and the snapshots from     *)
(* which it concludes, and tells the operator, that the switch was made,   *)
(* failed or gave way to another.                                          *)
(*                                                                         *)
(* A target is a profile and a model; a request may leave the model open.  *)
(* Omegon, which is external, takes requests in order, does or refuses     *)
(* each, and reports the state of the last one; some builds report no      *)
(* state of a switch at all.  Snapshots and requests take time.            *)
(***************************************************************************)
EXTENDS Integers, Sequences, SequencesExt

CONSTANTS Profiles, Models, Unset, MaxSwitches, MaxAttaches, WireMax

\* There is a dispatcher to be bound to, and None is neither a profile nor a model.
ASSUME SwitchAssumption == Profiles # {} /\ Models # {} /\ Unset \notin Profiles \union Models

VARIABLES
    binding,     \* dispatcher_binding: profile, model, switch_state
    nextId,      \* next_dispatcher_request_id
    told,        \* the last notice about a switch
    asked,       \* requests on their way to Omegon
    shown,       \* snapshots on their way to Auspex
    host,        \* external: Omegon's own binding, and whether it reports switches
    attaches     \* how often Auspex attached

dsVars == <<binding, nextId, told, asked, shown, host, attaches>>

\* For the properties, at is the attachment in which the switch was asked for: the numbers start
\* at 1 in each, and nothing in a request tells them apart.
Switch(id, profile, model, status, at) ==
    [id |-> id, profile |-> profile, model |-> model, status |-> status, at |-> at]

NoSwitch == Switch(0, Unset, Unset, "none", 0)

\* What Auspex sees of a switch.
Seen(s) == [s EXCEPT !.at = 0]

\* A notice speaks of a switch and of the binding it came with; wanted, for the properties, is what
\* was there before, which a notice that something is confirmed replaces.
Notice(kind, switch, bound, wanted) ==
    [kind |-> kind, switch |-> switch, bound |-> bound, wanted |-> wanted]

Quiet == Notice("none", NoSwitch, Unset, NoSwitch)

\* What a snapshot says of the dispatcher.
Shown(h) == [profile |-> h.profile, model |-> h.model,
             switch |-> IF h.reports THEN h.switch ELSE NoSwitch]

DsInit ==
    /\ \E r \in BOOLEAN :
         host = [profile |-> CHOOSE p \in Profiles : TRUE, model |-> CHOOSE m \in Models : TRUE,
                 switch |-> NoSwitch, reports |-> r]
    /\ binding = Shown(host)
    /\ nextId = 1
    /\ told = Quiet
    /\ asked = <<>> /\ shown = <<>>
    /\ attaches = 1

-----------------------------------------------------------------------------
(* Auspex. *)

\* Whether a binding is what a switch asked for.
ModelMatches(b, model) == model = Unset \/ b.model = model

Matches(b, profile, model) == b.profile = profile /\ ModelMatches(b, model)

\* request_dispatcher_switch: what is active already is only noted, a request
\* that is still pending is superseded without waiting for its answer.
request_dispatcher_switch(profile, model) ==
    \/ /\ Matches(binding, profile, model)
       /\ binding' = [binding EXCEPT !.switch = Switch(0, profile, model, "active", 0)]
       /\ told' = Notice("already", binding'.switch, binding', binding'.switch)
       /\ UNCHANGED <<nextId, asked>>
    \/ /\ ~Matches(binding, profile, model)
       /\ Len(asked) < WireMax
       /\ binding' = [binding EXCEPT !.switch = Switch(nextId, profile, model, "pending", attaches)]
       /\ told' = Notice("requested", binding'.switch, binding', binding'.switch)
       /\ asked' = Append(asked, binding'.switch)
       /\ nextId' = nextId + 1

RequestSwitch ==
    /\ nextId <= MaxSwitches
    /\ \E p \in Profiles, m \in Models \union {Unset} : request_dispatcher_switch(p, m)
    /\ UNCHANGED <<shown, host, attaches>>

\* Mutant: a pending switch waits for success.
ReconciledBySuccess(previous, next) ==
    IF previous.switch.status = "pending" /\ next.switch.status # "active"
    THEN [next EXCEPT !.switch = previous.switch]
    ELSE next

\* reconcile_dispatcher_binding: what the snapshot says of a switch stands;
\* when it says nothing, a pending switch is done if the binding matches.
reconcile_dispatcher_binding(previous, next) ==
    IF next.switch = NoSwitch /\ previous.switch.status = "pending"
    THEN [next EXCEPT !.switch =
            [previous.switch EXCEPT !.status =
                IF Matches(next, previous.switch.profile, previous.switch.model)
                THEN "active" ELSE @]]
    ELSE next

\* append_dispatcher_switch_transition_notice
TransitionNotice(previous, next) ==
    LET before == previous.switch
        after == next.switch
    IN  CASE Seen(after) = Seen(before) \/ after = NoSwitch -> told
          [] after.status = "active" /\ before.status = "pending" ->
               Notice(IF before.id = after.id THEN "confirmed" ELSE "another", after, next, before)
          [] after.status \in {"failed", "superseded"} -> Notice(after.status, after, next, before)
          [] OTHER -> told

ApplySnapshot ==
    /\ shown # <<>>
    /\ binding' = reconcile_dispatcher_binding(binding, Head(shown))
    /\ told' = TransitionNotice(binding, binding')
    /\ shown' = Tail(shown)
    /\ UNCHANGED <<nextId, asked, host, attaches>>

\* SessionReset: a pending switch is said to have failed.
FailOnReset ==
    /\ binding.switch.status = "pending"
    /\ binding' = [binding EXCEPT !.switch.status = "failed"]
    /\ UNCHANGED <<nextId, told, asked, shown, host, attaches>>

\* A new attachment, or a restart of Auspex: numbers start again.
Reattach ==
    /\ attaches < MaxAttaches
    /\ attaches' = attaches + 1
    /\ binding' = Shown(host)
    /\ nextId' = 1
    /\ told' = Quiet
    /\ shown' = <<>>
    /\ UNCHANGED <<asked, host>>

-----------------------------------------------------------------------------
(* Omegon. *)

\* A model left open is chosen by Omegon.
Perform ==
    /\ asked # <<>>
    /\ \E m \in Models :
         /\ Head(asked).model \in {Unset, m}
         /\ host' = [host EXCEPT !.profile = Head(asked).profile, !.model = m,
                                 !.switch = [Head(asked) EXCEPT !.status = "active"]]
    /\ asked' = Tail(asked)
    /\ UNCHANGED <<binding, nextId, told, shown, attaches>>

Refuse ==
    /\ asked # <<>> /\ host.reports
    /\ \E status \in {"failed", "superseded"} :
         host' = [host EXCEPT !.switch = [Head(asked) EXCEPT !.status = status]]
    /\ asked' = Tail(asked)
    /\ UNCHANGED <<binding, nextId, told, shown, attaches>>

Show ==
    /\ Len(shown) < WireMax
    /\ shown' = Append(shown, Shown(host))
    /\ UNCHANGED <<binding, nextId, told, asked, host, attaches>>

DsNext == RequestSwitch \/ ApplySnapshot \/ FailOnReset \/ Reattach \/ Perform \/ Refuse \/ Show

\* Omegon answers and reports, and what it sends is applied.
DsFairness ==
    /\ WF_dsVars(Perform \/ Refuse)
    /\ WF_dsVars(Show)
    /\ WF_dsVars(ApplySnapshot)

DsSpec == DsInit /\ [][DsNext]_dsVars /\ DsFairness

-----------------------------------------------------------------------------
(* Properties. *)

DsStatuses == {"none", "pending", "active", "failed", "superseded"}

\* A pending switch has the number it was sent under, and every number is
\* below the next one of its attachment.
DsTypeOK ==
    /\ binding.profile \in Profiles /\ binding.model \in Models
    /\ binding.switch.status \in DsStatuses
    /\ binding.switch.status = "pending" => binding.switch.id \in 1 .. (nextId - 1)
    /\ host.profile \in Profiles /\ host.model \in Models
    /\ \A i \in DOMAIN asked : asked[i].status = "pending"

\* What is confirmed is bound: the snapshot shows the dispatcher its own answer speaks of.  And
\* what is confirmed is what was pending, whatever was asked for, refused, superseded and answered
\* late before, unless the answer is one to a request of an earlier attachment.
ConfirmedIsWanted ==
    told.kind = "confirmed" =>
        /\ Matches(told.bound, told.switch.profile, told.switch.model)
        /\ told.switch.at = told.wanted.at =>
              /\ told.switch = [told.wanted EXCEPT !.status = "active"]
              /\ Matches(told.bound, told.wanted.profile, told.wanted.model)

\* Expected to fail.  The same without the proviso: the numbers start again with every attachment,
\* so the answer to an old request confirms a new one of that number for another dispatcher
\* (allocate_dispatcher_request_id).
ConfirmedOutlastsAttachments ==
    told.kind = "confirmed" => Matches(told.bound, told.wanted.profile, told.wanted.model)

\* A switch that is pending is finally answered: no order of snapshots, of
\* other requests and of answers leaves the operator waiting for ever, as
\* long as Omegon answers and reports.
PendingSwitchSettles ==
    host.reports /\ binding.switch.status = "pending" ~> binding.switch.status # "pending"

\* A switch is answered, and within an attachment never with a confirmation of something else.
SwitchIsAnswered == []ConfirmedIsWanted /\ PendingSwitchSettles
==============================================================================
