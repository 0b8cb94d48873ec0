----------------------------- MODULE MCSurfaces -----------------------------
(***************************************************************************)
(* What an operator looks at, and the Omegon behind it: parts that share   *)
(* no state.  A behaviour of this module is a behaviour of one of them,    *)
(* chosen at the start, with the others at rest.                           *)
(***************************************************************************)
EXTENDS SessionTranscript, SessionStatus, CopSurface, WebProxy, WebShell, OwnedOmegon,
        WorkflowEditor, AssistantConsole

VARIABLE part

CONSTANTS k1, k2, c1, c2, h1, t1, t2, a1, a2, p1, p2, u

Parts == {"transcript", "status", "cop", "proxy", "shell", "owned", "workflow", "console"}

\* SessionStatus: two providers, each with a name of its own.
MCNames == <<"anthropic", "openai">>
MCKeyOf == [n \in {"anthropic", "openai"} |-> n]

\* WorkflowEditor: a flow with a way behind its output, one with an edge to a node that is gone
\* and a kind no catalog has.
MCFlow(kinds, edges) == [nodes |-> {Node(i, kinds[i]) : i \in DOMAIN kinds}, edges |-> edges]
MCStored ==
    {MCFlow(<<"webhook_input", "branch", "fleet_dispatch", "result_output">>, <<<<1, 2>>, <<2, 4>>, <<4, 3>>>>),
     MCFlow(<<"webhook_input", "note", "result_output">>, <<<<1, 3>>, <<2, 7>>>>)}

SurfacesInit ==
    /\ part \in Parts
    /\ TrInit /\ SsInit /\ CopInit /\ WpInit /\ WsInit /\ OwInit /\ WfInit /\ AcInit
    /\ part # "status" => ses.harness = None /\ ses.runtime = None
    /\ part # "proxy" => authority.demands
    /\ part # "workflow" => flowFile.doc = 2
    /\ reported.options = Models
    /\ part # "console" => reported.endpoint = Nowhere /\ attached.via = "ipc"

SurfacesNext ==
    /\ UNCHANGED part
    /\ \/ part = "transcript" /\ TrNext
          /\ UNCHANGED <<ssVars, copVars, wpVars, wsVars, owVars, wfVars, acVars>>
       \/ part = "status" /\ SsNext
          /\ UNCHANGED <<trVars, copVars, wpVars, wsVars, owVars, wfVars, acVars>>
       \/ part = "cop" /\ CopNext
          /\ UNCHANGED <<trVars, ssVars, wpVars, wsVars, owVars, wfVars, acVars>>
       \/ part = "proxy" /\ WpNext
          /\ UNCHANGED <<trVars, ssVars, copVars, wsVars, owVars, wfVars, acVars>>
       \/ part = "shell" /\ WsNext
          /\ UNCHANGED <<trVars, ssVars, copVars, wpVars, owVars, wfVars, acVars>>
       \/ part = "owned" /\ OwNext
          /\ UNCHANGED <<trVars, ssVars, copVars, wpVars, wsVars, wfVars, acVars>>
       \/ part = "workflow" /\ WfNext
          /\ UNCHANGED <<trVars, ssVars, copVars, wpVars, wsVars, owVars, acVars>>
       \/ part = "console" /\ AcNext
          /\ UNCHANGED <<trVars, ssVars, copVars, wpVars, wsVars, owVars, wfVars>>

surfacesVars == <<part, trVars, ssVars, copVars, wpVars, wsVars, owVars, wfVars, acVars>>

SurfacesSpec == SurfacesInit /\ [][SurfacesNext]_surfacesVars
=============================================================================
