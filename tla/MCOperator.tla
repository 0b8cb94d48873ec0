----------------------------- MODULE MCOperator -----------------------------
(***************************************************************************)
(* Instances of OperatorReconciler for model checking.                     *)
(***************************************************************************)
EXTENDS OperatorReconciler

CONSTANTS a1, o1

Daemon == [mode |-> "daemon", image |-> 1, provision |-> TRUE, tls |-> TRUE,
           leaf |-> 0, inline |-> 0, catalog |-> FALSE]
Cron == [Daemon EXCEPT !.mode = "cronjob", !.provision = FALSE, !.tls = FALSE,
                       !.inline = 1]
JobOf(text) == [Cron EXCEPT !.mode = "job", !.inline = text]
NewJob == [JobOf(2) EXCEPT !.image = 2]
PrimaryDaemon == [Daemon EXCEPT !.catalog = TRUE]

\* Specifications a run's users write.
Mixed == {Daemon, Cron, JobOf(2), NewJob}
=============================================================================
