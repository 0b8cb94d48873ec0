----------------------------- MODULE MCControl -----------------------------
(***************************************************************************)
(* Instances of ManagedAgentControl for model checking.                    *)
(***************************************************************************)
EXTENDS ManagedAgentControl, TLC

CONSTANTS r1, w1, i1, i2

OneRunWorker == r1 :> w1
OneRunTarget == r1 :> i1
=============================================================================
