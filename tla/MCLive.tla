------------------------------- MODULE MCLive -------------------------------
(***************************************************************************)
(* Three conversations that must come to an end: a dispatcher switch, the  *)
(* operator's proxied WebSocket, and the probes of external agents.  They  *)
(* share no state: a behaviour of this module is a behaviour of one of     *)
(* them, chosen at the start, with the others at rest.                     *)
(***************************************************************************)
EXTENDS DispatcherSwitch, FleetApi, ExternalAgents

VARIABLE part

CONSTANTS f1, f2, m1, m2, x1, e1, e2

Parts == {"switch", "fleet", "external"}

\* FleetApi: one agent in the operator's namespace and one elsewhere.
MCNamespaceOf == [a \in {"a1", "a2"} |-> IF a = "a1" THEN "agents" ELSE "other"]

LiveInit ==
    /\ part \in Parts
    /\ DsInit /\ FlInit /\ Init
    /\ part # "switch" => host.reports

LiveNext ==
    /\ UNCHANGED part
    /\ \/ part = "switch" /\ DsNext /\ UNCHANGED <<flVars, vars>>
       \/ part = "fleet" /\ FlNext /\ UNCHANGED <<dsVars, vars>>
       \/ part = "external" /\ Next /\ UNCHANGED <<dsVars, flVars>>

\* The fairness of each part, for the behaviours that are that part's.
LiveFairness ==
    /\ WF_dsVars(part = "switch" /\ (Perform \/ Refuse))
    /\ WF_dsVars(part = "switch" /\ Show)
    /\ WF_dsVars(part = "switch" /\ ApplySnapshot)
    /\ WF_flVars(part = "fleet" /\ AcpConnect)
    /\ WF_flVars(part = "fleet" /\ SelectEnds)
    /\ \A d \in Directions : /\ WF_flVars(part = "fleet" /\ PumpTakes(d))
                             /\ WF_flVars(part = "fleet" /\ PumpGives(d))
    /\ WF_vars(part = "external" /\ Tick)
    /\ \A a \in Agents : /\ WF_vars(part = "external" /\ WatchDelivers(a))
                         /\ WF_vars(part = "external" /\ ReconcileStarts(a))
                         /\ WF_vars(part = "external" /\ probe_external_agent(a))
                         /\ WF_vars(part = "external" /\ PatchStatus(a))

liveVars == <<part, dsVars, flVars, vars>>

LiveSpec == LiveInit /\ [][LiveNext]_liveVars /\ LiveFairness
=============================================================================
