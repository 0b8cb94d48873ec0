--------------------------- MODULE ExternalAgents ---------------------------
(***************************************************************************)
(* The external-agent half of auspex-operator: it probes the endpoint of   *)
(* every ExternalAgent and writes what it finds to the resource's status.  *)
(*                                                                         *)
(* The controller is woken by the timer reconcile asks for and by every    *)
(* change of the resource, the operator's own status writes included.      *)
(* Time is counted in steps of one second of the clock that last_seen is   *)
(* taken from.                                                             *)
(***************************************************************************)
EXTENDS Naturals

CONSTANTS Agents,     \* ExternalAgent resources
          Endpoints,  \* endpoints they may name
          NoEndpoint, \* the resource does not exist
          Allowed,    \* endpoints validate_endpoint accepts
          Interval,   \* probe_interval_seconds of every resource
          Floor,      \* the 10 seconds of external.rs
          MaxEdits,   \* bound on edits of resources
          MaxTurns    \* bound on changes of an endpoint's health and on
                      \* failed status writes

VARIABLES spec,     \* the endpoint each stored resource names
          status,   \* the status each resource carries
          health,   \* what each endpoint answers
          seen,     \* the controller's watch cache
          due,      \* agents to reconcile now
          timer,    \* seconds until each agent is due again (0: no timer)
          probe,    \* the reconcile under way for each agent
          since,    \* seconds since each agent's last probe began
          edits, turns

vars == <<spec, status, health, seen, due, timer, probe, since, edits, turns>>

\* ready: both endpoints answer; starting: healthy, no startup document;
\* garbled: healthy, startup document unreadable; down: no healthy answer.
Health == {"ready", "starting", "garbled", "down"}

\* recent: last_seen is the current second.  of is history: the endpoint the
\* status was found at.
Status == [reachability: {"", "Online", "Unreachable"}, known: BOOLEAN,
           recent: BOOLEAN, of: Endpoints \cup {NoEndpoint}]
NoStatus == [reachability |-> "", known |-> FALSE, recent |-> FALSE, of |-> NoEndpoint]

Idle == [at |-> "idle", endpoint |-> NoEndpoint]
Busy(a) == probe[a] # Idle

Greater(m, n) == IF m >= n THEN m ELSE n
RequeueAfter == Greater(Interval, Floor)

ASSUME ConstantsAreProper ==
    /\ NoEndpoint \notin Endpoints /\ Allowed \subseteq Endpoints
    /\ Interval \in Nat /\ Floor \in Nat \ {0} /\ MaxEdits \in Nat /\ MaxTurns \in Nat

Init == /\ spec = [a \in Agents |-> NoEndpoint]
        /\ status = [a \in Agents |-> NoStatus]
        /\ health = [e \in Endpoints |-> "down"]
        /\ seen = [a \in Agents |-> NoEndpoint]
        /\ due = {} /\ timer = [a \in Agents |-> 0]
        /\ probe = [a \in Agents |-> Idle]
        /\ since = [a \in Agents |-> RequeueAfter]
        /\ edits = 0 /\ turns = 0

(***************************************************************************)
(* The environment.                                                        *)
(***************************************************************************)
\* A resource is created, pointed elsewhere or deleted.  A new resource has
\* no status.
Edit(a, e) ==
    /\ edits < MaxEdits /\ spec[a] # e
    /\ spec' = [spec EXCEPT ![a] = e]
    /\ status' = IF e = NoEndpoint \/ spec[a] = NoEndpoint
                 THEN [status EXCEPT ![a] = NoStatus] ELSE status
    /\ edits' = edits + 1
    /\ UNCHANGED <<health, seen, due, timer, probe, since, turns>>

Turn(e, h) ==
    /\ turns < MaxTurns /\ health[e] # h
    /\ health' = [health EXCEPT ![e] = h]
    /\ turns' = turns + 1
    /\ UNCHANGED <<spec, status, seen, due, timer, probe, since, edits>>

\* One second passes; a timer that runs out makes its agent due.
Tick ==
    /\ timer' = [a \in Agents |-> IF timer[a] = 0 THEN 0 ELSE timer[a] - 1]
    /\ due' = due \cup {a \in Agents : timer[a] = 1}
    /\ status' = [a \in Agents |-> [status[a] EXCEPT !.recent = FALSE]]
    /\ since' = [a \in Agents |-> IF since[a] < RequeueAfter THEN since[a] + 1 ELSE since[a]]
    /\ UNCHANGED <<spec, health, seen, probe, edits, turns>>

(***************************************************************************)
(* The controller (kube-rs, external): the cache follows the resources and *)
(* every change of one asks for a reconcile.                               *)
(***************************************************************************)
WatchDelivers(a) ==
    /\ seen[a] # spec[a]
    /\ seen' = [seen EXCEPT ![a] = spec[a]]
    /\ due' = IF spec[a] = NoEndpoint THEN due ELSE due \cup {a}
    /\ UNCHANGED <<spec, status, health, timer, probe, since, edits, turns>>

(***************************************************************************)
(* reconcile: probe, then write the status.                                *)
(***************************************************************************)
\* An endpoint that names a private or cluster-internal address, or no address
\* at all, is refused before any call.
validate_endpoint(e) == e \in Allowed

\* reconcile begins with the cached resource; a refused endpoint is not called
\* and is reported like one that does not answer.
ReconcileStarts(a) ==
    /\ a \in due /\ ~Busy(a)
    /\ due' = due \ {a}
    /\ IF seen[a] = NoEndpoint
       THEN UNCHANGED <<timer, probe, since>>
       ELSE /\ timer' = [timer EXCEPT ![a] = 0]
            /\ probe' = [probe EXCEPT ![a] =
                           [at |-> IF validate_endpoint(seen[a]) THEN "readyz" ELSE "unreachable",
                            endpoint |-> seen[a]]]
            /\ since' = [since EXCEPT ![a] = 0]
    /\ UNCHANGED <<spec, status, health, seen, edits, turns>>

\* The answer to /api/readyz, then the answer to /api/startup.  An endpoint
\* that serves no startup document is online with nothing known of it.
probe_external_agent(a) ==
    LET h == health[probe[a].endpoint]
        next == CASE probe[a].at = "readyz" -> IF h = "down" THEN "unreachable" ELSE "startup"
                  [] probe[a].at = "startup" -> CASE h = "ready" -> "online"
                                                  [] h = "starting" -> "unknown"
                                                  [] OTHER -> "unreachable"
    IN  /\ probe[a].at \in {"readyz", "startup"}
        /\ probe' = [probe EXCEPT ![a].at = next]
        /\ UNCHANGED <<spec, status, health, seen, due, timer, since, edits, turns>>

\* Mutant: a failed probe leaves the reachability that was reported.
StatusAfterSuccess(a) ==
    LET p == probe[a]
    IN  IF p.at = "unreachable"
        THEN [status[a] EXCEPT !.of = p.endpoint]
        ELSE [reachability |-> "Online", known |-> p.at = "online",
              recent |-> TRUE, of |-> p.endpoint]

\* The status a finished probe leads to.  A failed probe keeps what was known.
StatusAfter(a) ==
    LET p == probe[a]
    IN  IF p.at = "unreachable"
        THEN [status[a] EXCEPT !.reachability = "Unreachable", !.of = p.endpoint]
        ELSE [reachability |-> "Online", known |-> p.at = "online",
              recent |-> TRUE, of |-> p.endpoint]

\* What the API server stores: of is history and no part of it, and one
\* failure reads like another.
Stored(s) == [s EXCEPT !.of = NoEndpoint]

\* The end of reconcile: the timer is set whether the write succeeded or not.
Requeue(a) == /\ probe' = [probe EXCEPT ![a] = Idle]
              /\ timer' = [timer EXCEPT ![a] = RequeueAfter]

\* The merge patch of the status.  It finds whatever the resource has become;
\* one that changes the stored resource is an event of its own.
PatchStatus(a) ==
    /\ Busy(a) /\ probe[a].at \notin {"readyz", "startup"}
    /\ Requeue(a)
    /\ IF spec[a] = NoEndpoint
       THEN UNCHANGED <<status, due>>
       ELSE /\ status' = [status EXCEPT ![a] = StatusAfter(a)]
            /\ due' = IF Stored(StatusAfter(a)) = Stored(status[a])
                      THEN due ELSE due \cup {a}
    /\ UNCHANGED <<spec, health, seen, since, edits, turns>>

\* A failed write is logged and forgotten.
PatchStatusFails(a) ==
    /\ Busy(a) /\ probe[a].at \notin {"readyz", "startup"}
    /\ turns < MaxTurns /\ turns' = turns + 1
    /\ Requeue(a)
    /\ UNCHANGED <<spec, status, health, seen, due, since, edits>>

Reconcile(a) == \/ WatchDelivers(a) \/ ReconcileStarts(a)
                \/ probe_external_agent(a) \/ PatchStatus(a)

Next == \/ \E a \in Agents : \/ Reconcile(a) \/ PatchStatusFails(a)
                             \/ \E e \in Endpoints \cup {NoEndpoint} : Edit(a, e)
        \/ \E e \in Endpoints, h \in Health : Turn(e, h)
        \/ Tick

Spec == Init /\ [][Next]_vars

\* The loop and the clock go on; a reconcile takes finitely many steps while
\* time passes, so each step is fair on its own.
Fairness == /\ WF_vars(Tick)
            /\ \A a \in Agents : /\ WF_vars(WatchDelivers(a)) /\ WF_vars(ReconcileStarts(a))
                                 /\ WF_vars(probe_external_agent(a)) /\ WF_vars(PatchStatus(a))

FairSpec == Spec /\ Fairness

-----------------------------------------------------------------------------
(***************************************************************************)
(* Properties.                                                             *)
(***************************************************************************)
Places == Endpoints \cup {NoEndpoint}

\* Every variable holds what the code can store in it; a status belongs to a
\* stored resource, and only one that is not under way has a timer running.
TypeOK ==
    /\ spec \in [Agents -> Places] /\ seen \in [Agents -> Places]
    /\ status \in [Agents -> Status] /\ health \in [Endpoints -> Health]
    /\ due \subseteq Agents
    /\ timer \in [Agents -> 0 .. RequeueAfter] /\ since \in [Agents -> 0 .. RequeueAfter]
    /\ probe \in [Agents -> [at: {"idle", "readyz", "startup", "online", "unknown",
                                  "unreachable"}, endpoint: Places]]
    /\ \A a \in Agents : /\ spec[a] = NoEndpoint => status[a] = NoStatus
                         /\ Busy(a) => timer[a] = 0
    /\ edits \in 0 .. MaxEdits /\ turns \in 0 .. MaxTurns

\* A status that speaks of an endpoint the resource no longer names is about
\* to be replaced: the change is on its way, asked for, or being probed.
StaleStatusIsReplaced ==
    \A a \in Agents :
        spec[a] # NoEndpoint /\ status[a].of # spec[a]
            => seen[a] # spec[a] \/ a \in due \/ Busy(a) \/ timer[a] > 0

\* Once edits and outages stop, every status says what its endpoint answers.
ReachabilityConverges ==
    <>[](\A a \in Agents :
            spec[a] # NoEndpoint =>
                /\ status[a].of = spec[a]
                /\ (status[a].reachability = "Online")
                      <=> (spec[a] \in Allowed /\ health[spec[a]] \in {"ready", "starting"}))

\* An agent whose resource has not changed is not probed again before the
\* floor has passed.
ProbesAreSpaced ==
    [][\A a \in Agents : ~Busy(a) /\ Busy(a)' /\ probe'[a].endpoint = status[a].of
            => since[a] >= Floor]_vars

\* The recorded reachability is never left to an endpoint the resource no longer names without
\* a probe to come, and becomes what the endpoint answers once edits and outages stop.
ReachabilityIsCurrent == []StaleStatusIsReplaced /\ ReachabilityConverges
=============================================================================
