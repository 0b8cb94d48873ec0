-------------------------- MODULE ManagedAgentRun --------------------------
(***************************************************************************)
(* The managed-run state machine of auspex-core/src/managed_agents.rs.     *)
(*                                                                         *)
(* A ManagedAgentRun is the supervisor's record of one delegated task: its *)
(* state, the task handle the worker reported, and who executes it.  Each  *)
(* &mut self method of the code is an operator from a run to the run it    *)
(* leaves behind, paired with the condition under which the method returns *)
(* Ok; a method that returns Err leaves the run as it was.  Texts (reason, *)
(* result, safe message) and the last observation are data no transition   *)
(* reads, and are left out.                                                *)
(***************************************************************************)
EXTENDS Naturals

\* omegon_task_id = None.  Task handles are positive numbers.
NoTask == 0

\* Cancelled carries termination_confirmed in the code; the two values are
\* two states here because is_terminal distinguishes them.
RunStates == {"Dispatching", "DispatchTimedOut", "Running", "Cancelling",
              "Completed", "Failed", "Cancelled", "CancelledUnconfirmed",
              "Disconnected"}

TerminalStates == {"DispatchTimedOut", "Completed", "Failed", "Cancelled"}

is_terminal(run) == run.state \in TerminalStates

\* The statuses of a delegate observation; "SucceededEmpty" is a success
\* whose observation carries no result.
ObservationStatuses == {"Running", "Succeeded", "SucceededEmpty",
                        "Unsuccessful", "Cancelled", "CancelledUnconfirmed"}

-----------------------------------------------------------------------------
(***************************************************************************)
(* Transitions.  Each accepts_ operator is the Ok condition of a method.   *)
(***************************************************************************)

accepts_dispatch(run) == run.state = "Dispatching"

accept_dispatch(run, task) ==
    [run EXCEPT !.state = "Running", !.task = task]

accepts_cancellation_request(run) == run.state \in {"Running", "Disconnected"}

request_cancellation(run) == [run EXCEPT !.state = "Cancelling"]

\* The method checks the task identity and nothing else: the state the run
\* is in, terminal or not, plays no part.
accepts_observation(run, task, status) ==
    /\ run.task # NoTask
    /\ run.task = task
    /\ status # "SucceededEmpty"

\* Mutant: the reported status is stored without being normalised.
apply_observation_raw(run, status) == [run EXCEPT !.state = status]

apply_observation(run, status) ==
    [run EXCEPT !.state = CASE status = "Succeeded"    -> "Completed"
                            [] status = "Unsuccessful" -> "Failed"
                            [] OTHER                   -> status]

accepts_dispatch_timeout(run) == run.state = "Dispatching"

mark_dispatch_timed_out(run) == [run EXCEPT !.state = "DispatchTimedOut"]

\* An acknowledgement without confirmed termination keeps Cancelling.
accepts_cancellation_response(run, status) ==
    /\ run.state = "Cancelling"
    /\ status \in {"confirmed", "acknowledged"}

\* Mutant: an acknowledgement is taken for a confirmed termination.
apply_cancellation_response_early(run, status) ==
    [run EXCEPT !.state = "Cancelled"]

apply_cancellation_response(run, status) ==
    IF status = "confirmed" THEN [run EXCEPT !.state = "Cancelled"] ELSE run

\* Mutant: a result that overtakes the acceptance is refused.
accepts_result_running(run) == run.state \in {"Running", "Cancelling", "Completed"}

accepts_result(run) == ~is_terminal(run) \/ run.state = "Completed"

complete_from_result(run) == [run EXCEPT !.state = "Completed"]

\* fail, confirm_termination and mark_disconnected share one condition.
accepts_ending(run) == ~is_terminal(run)

fail(run) == [run EXCEPT !.state = "Failed"]

confirm_termination(run) == [run EXCEPT !.state = "Cancelled"]

mark_disconnected(run) == [run EXCEPT !.state = "Disconnected"]

accepts_cancellation_accepted(run) ==
    run.state \in {"Running", "Disconnected", "Cancelling"}

mark_cancellation_accepted(run) == [run EXCEPT !.state = "Cancelling"]

\* Whatever the run was doing before it was disconnected, it is Running
\* after: the state it held is not remembered.
mark_reconnected(run) ==
    IF run.state = "Disconnected" THEN [run EXCEPT !.state = "Running"] ELSE run

=============================================================================
