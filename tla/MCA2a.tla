------------------------------- MODULE MCA2a -------------------------------
(***************************************************************************)
(* Instances of ManagedAgentA2a for model checking.                        *)
(***************************************************************************)
EXTENDS ManagedAgentA2a, TLC

CONSTANTS p1, p2, o1, o2

\* One client with one operation id, or with one to dispatch and another to
\* cancel.
OneKey == {<<p1, o1>>}
TwoKeys == {<<p1, o1>>, <<p1, o2>>}

\* The same client, and another one that may try to cancel its run.
ThreeKeys == TwoKeys \cup {<<p2, o1>>}
=============================================================================
