----------------------------- MODULE MCRegistry -----------------------------
(***************************************************************************)
(* Instances of InstanceRegistry for model checking.                       *)
(***************************************************************************)
EXTENDS InstanceRegistry

CONSTANTS h1, h2, d1, r1, c1, l1

\* Every remote and container has an endpoint of its own, or they share one.
OwnEndpoint == [i \in Probed |-> i]
SharedEndpoint == [i \in Probed |-> 0]
-----------------------------------------------------------------------------
(* One run with three worlds: a session with hosts and local agents, one   *)
(* with a container, one with a remote.  In each of them what belongs to   *)
(* the others never appears.                                               *)

VARIABLE about

Worlds == {"session", "containers", "remotes"}

WorldAllows ==
    /\ about # "session" => session.host = NoId /\ DOMAIN reg \cap Locals = {}
    /\ about # "containers" => \A c \in Containers : health[c] = "absent"
    /\ about # "remotes" => config = {} /\ \A r \in Remotes : health[r] = "absent"

WorldsInit == about \in Worlds /\ Init

WorldsSpec ==
    /\ WorldsInit
    /\ [][Next /\ UNCHANGED about /\ WorldAllows']_<<about, vars>>
    /\ Fairness
=============================================================================
