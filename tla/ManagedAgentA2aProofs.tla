----------------------- MODULE ManagedAgentA2aProofs -----------------------
(***************************************************************************)
(* Managed agents over A2A, for any number of parents, operations and runs *)
(* and any capacity of the channels: whatever the broker repeats, reorders *)
(* or drops, an outcome the supervisor or the bridge reports was reached   *)
(* by the worker, an operation is answered with one run, a run is only     *)
(* cancelled when its own parent asked, and a run that ended stays ended.  *)
(*                                                                         *)
(* The invariant follows a message from where it is made to where it is    *)
(* used.  A command or an outcome is about a run id that has been given    *)
(* out, so a later run never meets one; it is real, or asked for, when it  *)
(* is made; and no step makes it less so (Grows), because a task that has  *)
(* ended does not change, requests are not forgotten and a run keeps its   *)
(* parent for as long as the controller knows it.                          *)
(***************************************************************************)
EXTENDS ManagedAgentA2a, FiniteSetTheorems, TLAPS

\* The session that dispatched run r, if the controller knows it, has asked
\* for its cancellation.
Asked(r) == Known(r) => <<run[r].parent, r>> \in asked

\* Commands and outcomes that may be about: of a run id that was given out, and
\* asked for, or reached.
GoodCommands ==
    {c \in Commands : c.run <= created /\ (c.kind = "Cancel" => Asked(c.run))}

GoodOutcomes ==
    {m \in Outcomes :
        /\ m.run <= created
        /\ Real(tasks[m.run], m.type)
        /\ m.type \in {"CancellationAccepted", "TerminationConfirmed"} => Asked(m.run)}

\* What is in the channels and at the broker.
MessagesOK ==
    /\ actions \in Seq(GoodCommands)
    /\ commands \in Seq(GoodCommands)
    /\ toWorker \subseteq GoodCommands
    /\ events \in Seq(GoodOutcomes \cup {Notice})
    /\ owed \in GoodOutcomes \cup {Notice, NoEvent}
    /\ toApp \subseteq GoodOutcomes

\* What the controller and the worker know of each run.
RunsOK ==
    \A r \in RunIds :
        /\ Known(r) \/ tasks[r] # "none" => r <= created
        /\ run[r].state \in {"Cancelling", "Cancelled"} => Asked(r)
        /\ tasks[r] \in {"cancelling", "cancelled"} => Asked(r)

\* What is in the coordinator's channel.
RequestsOK ==
    \A i \in DOMAIN requests :
        /\ Key(requests[i]) \in Keys
        /\ requests[i].kind = "Cancel" =>
              requests[i].run \in RunIds /\ <<requests[i].parent, requests[i].run>> \in asked

\* The dispatches in a channel that are not answered from done.
Fresh(channel, done) ==
    {i \in DOMAIN channel : channel[i].kind = "Dispatch" /\ done[Key(channel[i])] = NoRun}

\* There is a run id left for every one of them.
RoomOK == created + Cardinality(Fresh(requests, completed)) <= MaxRuns

A2aInv ==
    TypeOK /\ RequestsOK /\ RoomOK /\ MessagesOK /\ RunsOK /\ OutcomesAreReal
        /\ OneRunPerOperation

-----------------------------------------------------------------------------
(* The dispatches waiting, counted. *)

LEMMA FreshIsFinite ==
    ASSUME NEW q \in Seq(Requests), NEW done
    PROVE  IsFiniteSet(Fresh(q, done)) /\ Cardinality(Fresh(q, done)) \in Nat
<1>1. Fresh(q, done) \in SUBSET (1..Len(q)) BY DEF Fresh
<1>2. IsFiniteSet(1..Len(q)) BY FS_Interval
<1> QED BY <1>1, <1>2, FS_Subset, FS_CardinalityType

LEMMA FreshAppend ==
    ASSUME NEW q \in Seq(Requests), NEW x \in Requests, NEW done
    PROVE  /\ Cardinality(Fresh(Append(q, x), done)) <= Cardinality(Fresh(q, done)) + 1
           /\ ~(x.kind = "Dispatch" /\ done[Key(x)] = NoRun) =>
                 Cardinality(Fresh(Append(q, x), done)) <= Cardinality(Fresh(q, done))
<1> DEFINE n == Len(q) + 1
           A == Fresh(q, done)
           B == Fresh(Append(q, x), done)
<1>1. /\ DOMAIN Append(q, x) = 1..n /\ DOMAIN q = 1..(n - 1) /\ n \in Nat
      /\ Append(q, x)[n] = x /\ \A i \in DOMAIN q : Append(q, x)[i] = q[i]
  OBVIOUS
<1>2. B \subseteq A \cup {n} BY <1>1 DEF Fresh
<1>3. ~(x.kind = "Dispatch" /\ done[Key(x)] = NoRun) => B \subseteq A BY <1>1 DEF Fresh
<1>4. IsFiniteSet(A) /\ Cardinality(A) \in Nat BY FreshIsFinite
<1> HIDE DEF A, B, n
<1>5. /\ IsFiniteSet(A \cup {n}) /\ Cardinality(A \cup {n}) <= Cardinality(A) + 1
  <2>1. /\ IsFiniteSet(A \cup {n})
        /\ Cardinality(A \cup {n}) = IF n \in A THEN Cardinality(A) ELSE Cardinality(A) + 1
    BY <1>4, FS_AddElement
  <2> QED BY <1>4, <2>1
<1>6. Cardinality(B) <= Cardinality(A \cup {n}) /\ Cardinality(B) \in Nat
  BY <1>2, <1>5, FS_Subset, FS_CardinalityType
<1>7. B \subseteq A => Cardinality(B) <= Cardinality(A) BY <1>4, FS_Subset
<1>8. Cardinality(A \cup {n}) \in Nat BY <1>5, FS_CardinalityType
<1> QED BY <1>3, <1>4, <1>5, <1>6, <1>7, <1>8 DEF A, B

LEMMA FreshTail ==
    ASSUME NEW q \in Seq(Requests), q # <<>>, NEW done, NEW done2,
           \A i \in DOMAIN q : done2[Key(q[i])] = NoRun => done[Key(q[i])] = NoRun
    PROVE  /\ Cardinality(Fresh(Tail(q), done2)) <= Cardinality(Fresh(q, done))
           /\ Head(q).kind = "Dispatch" /\ done[Key(Head(q))] = NoRun =>
                 Cardinality(Fresh(Tail(q), done2)) + 1 <= Cardinality(Fresh(q, done))
<1> DEFINE A == Fresh(q, done)
           B == Fresh(Tail(q), done2)
           f == [i \in B |-> i + 1]
<1>1. \A i \in B : i \in Nat /\ i + 1 \in A /\ i + 1 # 1 BY DEF Fresh
<1>2. IsFiniteSet(A) /\ Cardinality(A) \in Nat BY FreshIsFinite
<1>3. Head(q).kind = "Dispatch" /\ done[Key(Head(q))] = NoRun => 1 \in A BY DEF Fresh
<1> HIDE DEF A, B
<1>4. f \in Injection(B, A \ {1}) BY <1>1 DEF Injection, IsInjective
<1> HIDE DEF f
<1>5. /\ IsFiniteSet(A \ {1}) /\ Cardinality(A \ {1}) \in Nat
      /\ Cardinality(A \ {1}) = IF 1 \in A THEN Cardinality(A) - 1 ELSE Cardinality(A)
  BY <1>2, FS_RemoveElement, FS_CardinalityType
<1>6. IsFiniteSet(B) /\ Cardinality(B) <= Cardinality(A \ {1}) BY <1>4, <1>5, FS_Injection
<1>7. Cardinality(B) \in Nat BY <1>6, FS_CardinalityType
<1> QED BY <1>2, <1>3, <1>5, <1>6, <1>7 DEF A, B

-----------------------------------------------------------------------------
(* The run state machine: what an outcome may do to a run. *)

Records == [state : RunStates \cup {"Absent"}, task : RunIds \cup {NoTask},
            parent : Parents \cup {NoParent}]

LEMMA AppliedOutcome ==
    ASSUME TypeOK, NEW e \in Outcomes, Known(e.run)
    PROVE  /\ apply_a2a_event(e) \in Records
           /\ apply_a2a_event(e).state # "Absent"
           /\ apply_a2a_event(e).parent = run[e.run].parent
           /\ is_terminal(run[e.run]) => apply_a2a_event(e) = run[e.run]
           /\ \/ apply_a2a_event(e).state = run[e.run].state
              \/ e.type \in {"Accepted", "Duplicate"} /\ apply_a2a_event(e).state = "Running"
              \/ e.type = "Completed" /\ apply_a2a_event(e).state = "Completed"
              \/ e.type = "Failed" /\ apply_a2a_event(e).state = "Failed"
              \/ e.type = "CancellationAccepted" /\ apply_a2a_event(e).state = "Cancelling"
              \/ e.type = "TerminationConfirmed" /\ apply_a2a_event(e).state = "Cancelled"
<1> DEFINE it == run[e.run]
           new == apply_a2a_event(e)
<1>1. e.run \in RunIds BY DEF Outcomes
<1>2. it \in Records /\ it.state # "Absent" BY <1>1 DEF TypeOK, Records, Known
<1>3. CASE e.type \in {"Accepted", "Duplicate"} /\ accepts_dispatch(it)
  <2>1. new = [it EXCEPT !.state = "Running", !.task = e.run]
    BY <1>3 DEF apply_a2a_event, accept_dispatch
  <2>2. new \in Records /\ new.state = "Running" /\ new.parent = it.parent
    BY <1>1, <1>2, <2>1 DEF Records, RunStates
  <2>3. ~is_terminal(it) BY <1>3 DEF accepts_dispatch, is_terminal, TerminalStates
  <2> QED BY <1>3, <2>2, <2>3
<1>4. CASE e.type = "Completed" /\ accepts_result(it)
  <2>1. new = [it EXCEPT !.state = "Completed"]
    BY <1>4 DEF apply_a2a_event, complete_from_result
  <2>2. new \in Records /\ new.state = "Completed" /\ new.parent = it.parent
    BY <1>2, <2>1 DEF Records, RunStates
  <2>3. is_terminal(it) => it.state = "Completed" BY <1>4 DEF accepts_result
  <2>4. it.state = "Completed" => new = it BY <1>2, <2>1 DEF Records
  <2> QED BY <1>4, <2>2, <2>3, <2>4
<1>5. CASE e.type = "Failed" /\ accepts_ending(it)
  <2>1. new = [it EXCEPT !.state = "Failed"] BY <1>5 DEF apply_a2a_event, fail
  <2>2. new \in Records /\ new.state = "Failed" /\ new.parent = it.parent
    BY <1>2, <2>1 DEF Records, RunStates
  <2> QED BY <1>5, <2>2 DEF accepts_ending
<1>6. CASE e.type = "CancellationAccepted" /\ accepts_cancellation_accepted(it)
  <2>1. new = [it EXCEPT !.state = "Cancelling"]
    BY <1>6 DEF apply_a2a_event, mark_cancellation_accepted
  <2>2. new \in Records /\ new.state = "Cancelling" /\ new.parent = it.parent
    BY <1>2, <2>1 DEF Records, RunStates
  <2>3. ~is_terminal(it) BY <1>6 DEF accepts_cancellation_accepted, is_terminal, TerminalStates
  <2> QED BY <1>6, <2>2, <2>3
<1>7. CASE e.type = "TerminationConfirmed" /\ accepts_ending(it)
  <2>1. new = [it EXCEPT !.state = "Cancelled"]
    BY <1>7 DEF apply_a2a_event, confirm_termination
  <2>2. new \in Records /\ new.state = "Cancelled" /\ new.parent = it.parent
    BY <1>2, <2>1 DEF Records, RunStates
  <2> QED BY <1>7, <2>2 DEF accepts_ending
<1>8. CASE /\ ~(e.type \in {"Accepted", "Duplicate"} /\ accepts_dispatch(it))
           /\ ~(e.type = "Completed" /\ accepts_result(it))
           /\ ~(e.type = "Failed" /\ accepts_ending(it))
           /\ ~(e.type = "CancellationAccepted" /\ accepts_cancellation_accepted(it))
           /\ ~(e.type = "TerminationConfirmed" /\ accepts_ending(it))
  <2>1. new = it BY <1>8 DEF apply_a2a_event
  <2> QED BY <1>2, <2>1
<1> QED BY <1>3, <1>4, <1>5, <1>6, <1>7, <1>8

-----------------------------------------------------------------------------
(* No step takes back what a message relies on. *)

Grows ==
    /\ created <= created' /\ created' \in Nat
    /\ asked \subseteq asked'
    /\ \A r \in RunIds :
          /\ Known(r)' => \/ Known(r) /\ run'[r].parent = run[r].parent
                          \/ r > created
          /\ \A claim : Real(tasks[r], claim) => Real(tasks'[r], claim)

LEMMA Carried ==
    ASSUME TypeOK, Grows
    PROVE  /\ \A r \in RunIds : r <= created /\ Asked(r) => Asked(r)'
           /\ GoodCommands \subseteq GoodCommands'
           /\ GoodOutcomes \subseteq GoodOutcomes'
<1>0. created \in Nat BY DEF TypeOK
<1>1. ASSUME NEW r \in RunIds, r <= created, Asked(r) PROVE Asked(r)'
  BY <1>0, <1>1 DEF Grows, Asked, Known, RunIds
<1>2. ASSUME NEW c \in GoodCommands PROVE c \in GoodCommands'
  <2>1. c \in Commands /\ c.run \in RunIds /\ c.run \in Nat /\ c.run <= created
    BY DEF GoodCommands, Commands, RunIds
  <2>2. c.run <= created' BY <1>0, <2>1 DEF Grows
  <2> QED BY <1>1, <2>1, <2>2 DEF GoodCommands
<1>3. ASSUME NEW m \in GoodOutcomes PROVE m \in GoodOutcomes'
  <2>1. m \in Outcomes /\ m.run \in RunIds /\ m.run \in Nat /\ m.run <= created
    BY DEF GoodOutcomes, Outcomes, RunIds
  <2>2. m.run <= created' BY <1>0, <2>1 DEF Grows
  <2>3. Real(tasks'[m.run], m.type) BY <2>1 DEF GoodOutcomes, Grows
  <2> QED BY <1>1, <2>1, <2>2, <2>3 DEF GoodOutcomes
<1> QED BY <1>1, <1>2, <1>3

LEMMA AbsentIsRecord ==
    Absent \in Records /\ Absent.state = "Absent"
BY DEF Absent, Records

\* The head of the coordinator's channel.
LEMMA HeadRequest ==
    ASSUME A2aInv, requests # <<>>
    PROVE  /\ Head(requests) \in Requests /\ Tail(requests) \in Seq(Requests)
           /\ Len(Tail(requests)) <= RequestCapacity
           /\ Key(Head(requests)) \in Keys
           /\ Head(requests).kind = "Cancel" =>
                 /\ Head(requests).run \in RunIds
                 /\ <<Head(requests).parent, Head(requests).run>> \in asked
<1>1. requests \in Seq(Requests) /\ Len(requests) <= RequestCapacity BY DEF A2aInv, TypeOK
<1>2. Head(requests) = requests[1] /\ 1 \in DOMAIN requests BY <1>1
<1>3. Len(Tail(requests)) = Len(requests) - 1 /\ Len(requests) \in Nat BY <1>1
<1>4. RequestCapacity \in Nat BY A2aAssumption
<1> QED BY <1>1, <1>2, <1>3, <1>4 DEF A2aInv, RequestsOK

\* A dispatch that is not a repetition gets a run id of its own.
LEMMA NextRunId ==
    ASSUME A2aInv, requests # <<>>, prepare_styrene_a2a_dispatch(Head(requests))
    PROVE  created + 1 \in RunIds /\ ~Known(created + 1)
<1>1. requests \in Seq(Requests) /\ created \in Nat BY DEF A2aInv, TypeOK
<1>2. 1 \in Fresh(requests, completed)
  BY <1>1 DEF Fresh, prepare_styrene_a2a_dispatch, Repeats
<1>3. IsFiniteSet(Fresh(requests, completed)) /\ Cardinality(Fresh(requests, completed)) \in Nat
  BY <1>1, FreshIsFinite
<1>4. Cardinality(Fresh(requests, completed)) # 0 BY <1>2, <1>3, FS_EmptySet
<1>5. created + 1 <= MaxRuns BY <1>1, <1>3, <1>4, A2aAssumption DEF A2aInv, RoomOK
<1>6. created + 1 \in RunIds BY <1>1, <1>5, A2aAssumption DEF RunIds
<1>7. ~(created + 1 <= created) BY <1>1
<1> QED BY <1>6, <1>7 DEF A2aInv, RunsOK

-----------------------------------------------------------------------------
(* Types. *)

LEMMA InitType == Init => TypeOK
<1> SUFFICES ASSUME Init PROVE TypeOK OBVIOUS
<1>1. run \in [RunIds -> Records] BY AbsentIsRecord DEF Init
<1>2. 0 <= RequestCapacity /\ 0 <= CommandCapacity /\ 0 <= EventCapacity /\ 0 \in 0..MaxRuns
  BY A2aAssumption
<1> QED BY <1>1, <1>2 DEF Init, TypeOK, Records, TaskStates, NoRun

LEMMA LoopType ==
    ASSUME A2aInv, AppLoop
    PROVE  TypeOK'
<1> USE DEF A2aInv
<1>1. CASE SendAction
  <2>1. actions \in Seq(Commands) /\ actions # <<>> /\ commands \in Seq(Commands)
        /\ Len(commands) < CommandCapacity /\ CommandCapacity \in Nat
    BY <1>1, A2aAssumption DEF SendAction, TypeOK
  <2>2. /\ Append(commands, Head(actions)) \in Seq(Commands)
        /\ Len(Append(commands, Head(actions))) <= CommandCapacity
        /\ Tail(actions) \in Seq(Commands)
    BY <2>1
  <2> QED BY <1>1, <2>2 DEF SendAction, TypeOK, bridgeVars, worldVars
<1>2. CASE RejectActions BY <1>2 DEF RejectActions, TypeOK, bridgeVars, orchVars, worldVars
<1>3. CASE ActionsSent BY <1>3 DEF ActionsSent, TypeOK, bridgeVars, orchVars, worldVars
<1>4. CASE apply_event
  <2>1. events \in Seq(Events) /\ events # <<>> /\ Len(events) <= EventCapacity
        /\ EventCapacity \in Nat
    BY <1>4, A2aAssumption DEF apply_event, TypeOK
  <2>2. Tail(events) \in Seq(Events) /\ Len(Tail(events)) <= EventCapacity BY <2>1
  <2>3. run' \in [RunIds -> Records]
    <3> DEFINE e == Head(events)
    <3>1. run \in [RunIds -> Records] BY DEF TypeOK, Records
    <3>2. CASE e \in Outcomes /\ Known(e.run)
      <4>1. run' = [run EXCEPT ![e.run] = apply_a2a_event(e)] BY <1>4, <3>2 DEF apply_event
      <4>2. apply_a2a_event(e) \in Records BY <3>2, AppliedOutcome
      <4> QED BY <3>1, <4>1, <4>2
    <3>3. CASE ~(e \in Outcomes /\ Known(e.run)) BY <1>4, <3>1, <3>3 DEF apply_event
    <3> QED BY <3>2, <3>3
  <2> QED BY <1>4, <2>2, <2>3 DEF apply_event, TypeOK, Records, bridgeVars, worldVars
<1>5. CASE EventsDrained BY <1>5 DEF EventsDrained, TypeOK, bridgeVars, orchVars, worldVars
<1>6. CASE process_pending
  <2> DEFINE q == Head(requests)
  <2>1. requests # <<>> BY <1>6 DEF process_pending
  <2>2. /\ q \in Requests /\ Key(q) \in Keys
        /\ Tail(requests) \in Seq(Requests) /\ Len(Tail(requests)) <= RequestCapacity
        /\ q.kind = "Cancel" => q.run \in RunIds
    BY <2>1, HeadRequest
  <2>3. q.parent \in Parents BY <2>2 DEF Requests
  <2> HIDE DEF q
  <2>4. /\ requests' = Tail(requests)
        /\ UNCHANGED <<asked, phase, snapshot, attach, commands, events, orch, owed,
                       toWorker, toApp, tasks>>
    BY <1>6 DEF process_pending, orchVars, worldVars
  <2>5. ASSUME NEW r \in RunIds, NEW kind \in {"Dispatch", "Cancel"},
               Completes(q, r, [kind |-> kind, run |-> r])
        PROVE  /\ completed' \in [Keys -> RunIds \cup {NoRun}]
               /\ told' \in [Keys -> SUBSET RunIds]
               /\ actions' \in Seq(Commands)
    <3>1. [kind |-> kind, run |-> r] \in Commands BY DEF Commands
    <3> QED BY <2>2, <2>5, <3>1 DEF Completes, TypeOK
  <2>6. CASE prepare_styrene_a2a_dispatch(q)
    <3>1. created + 1 \in RunIds BY <2>1, <2>6, NextRunId DEF q
    <3>2. created' \in 0..MaxRuns
      BY <2>6, <3>1, A2aAssumption DEF prepare_styrene_a2a_dispatch, RunIds
    <3>3. run' \in [RunIds -> Records]
      <4>1. [state |-> "Dispatching", task |-> NoTask, parent |-> q.parent] \in Records
        BY <2>3 DEF Records, RunStates
      <4> QED BY <2>6, <3>1, <4>1 DEF prepare_styrene_a2a_dispatch, TypeOK, Records
    <3>4. /\ completed' \in [Keys -> RunIds \cup {NoRun}]
          /\ told' \in [Keys -> SUBSET RunIds]
          /\ actions' \in Seq(Commands)
      BY <2>5, <2>6, <3>1 DEF prepare_styrene_a2a_dispatch
    <3> QED BY <2>2, <2>4, <3>2, <3>3, <3>4 DEF TypeOK, Records
  <2>7. CASE prepare_styrene_a2a_cancel(q)
    <3>1. q.run \in RunIds BY <2>2, <2>7 DEF prepare_styrene_a2a_cancel
    <3>2. run' \in [RunIds -> Records]
      <4>1. run[q.run] \in Records BY <3>1 DEF TypeOK, Records
      <4>2. request_cancellation(run[q.run]) \in Records
        BY <4>1 DEF request_cancellation, Records, RunStates
      <4> QED BY <2>7, <3>1, <4>2 DEF prepare_styrene_a2a_cancel, TypeOK, Records
    <3>3. /\ completed' \in [Keys -> RunIds \cup {NoRun}]
          /\ told' \in [Keys -> SUBSET RunIds]
          /\ actions' \in Seq(Commands)
      BY <2>5, <2>7, <3>1 DEF prepare_styrene_a2a_cancel
    <3>4. created' = created BY <2>7 DEF prepare_styrene_a2a_cancel
    <3> QED BY <2>2, <2>4, <3>2, <3>3, <3>4 DEF TypeOK, Records
  <2>8. CASE AnswersDuplicate(q)
    <3>1. completed[Key(q)] \in RunIds
      BY <2>2, <2>8 DEF AnswersDuplicate, Repeats, TypeOK
    <3>2. told' \in [Keys -> SUBSET RunIds] BY <2>2, <2>8, <3>1 DEF AnswersDuplicate, TypeOK
    <3> QED BY <2>2, <2>4, <2>8, <3>2 DEF AnswersDuplicate, TypeOK
  <2>9. CASE Refuses(q) BY <2>2, <2>4, <2>9 DEF Refuses, TypeOK
  <2> QED BY <1>6, <2>6, <2>7, <2>8, <2>9 DEF process_pending, q
<1>7. CASE sync_managed_agent_projection_snapshot
  <2>1. \A p \in Parents : Projection(p) \in [RunIds -> RunStates \cup {"Absent"}]
    BY DEF Projection, TypeOK
  <2>2. snapshot' \in [Parents -> [RunIds -> RunStates \cup {"Absent"}]]
    BY <1>7, <2>1 DEF sync_managed_agent_projection_snapshot, TypeOK
  <2> QED BY <1>7, <2>2
         DEF sync_managed_agent_projection_snapshot, TypeOK, bridgeVars, orchVars, worldVars
<1> QED BY <1>1, <1>2, <1>3, <1>4, <1>5, <1>6, <1>7 DEF AppLoop

LEMMA ClientType ==
    ASSUME A2aInv, ClientSends \/ \E ok \in BOOLEAN : spawn_and_attach_omegon_with_bridge(ok)
    PROVE  TypeOK'
<1> USE DEF A2aInv
<1>1. ASSUME NEW k \in Keys, NEW kind \in {"Dispatch", "InvalidDispatch", "Cancel"},
             NEW r \in RunIds \cup {NoRun}, kind = "Cancel" => r \in RunIds,
             serve_connection(k[1], k[2], kind, r)
      PROVE  TypeOK'
  <2>1. k[1] \in Parents /\ k[2] \in Ops BY A2aAssumption
  <2>2. [parent |-> k[1], op |-> k[2], kind |-> kind, run |-> r] \in Requests
    BY <2>1 DEF Requests
  <2>3. requests \in Seq(Requests) /\ RequestCapacity \in Nat BY A2aAssumption DEF TypeOK
  <2>4. requests' \in Seq(Requests) /\ Len(requests') <= RequestCapacity
    BY <1>1, <2>2, <2>3 DEF serve_connection
  <2>5. asked' \subseteq Parents \X RunIds BY <1>1, <2>1 DEF serve_connection, TypeOK
  <2> QED BY <1>1, <2>4, <2>5 DEF serve_connection, TypeOK, loopVars, orchVars, worldVars
<1>2. ASSUME NEW ok \in BOOLEAN, spawn_and_attach_omegon_with_bridge(ok) PROVE TypeOK'
  <2>1. run' \in [RunIds -> Records]
    BY <1>2, AbsentIsRecord DEF spawn_and_attach_omegon_with_bridge
  <2>2. snapshot' \in [Parents -> [RunIds -> RunStates \cup {"Absent"}]]
    BY <1>2 DEF spawn_and_attach_omegon_with_bridge, TypeOK
  <2> QED BY <1>2, <2>1, <2>2
         DEF spawn_and_attach_omegon_with_bridge, TypeOK, Records, bridgeVars, orchVars, worldVars
<1> QED BY <1>1, <1>2 DEF ClientSends

LEMMA OrchestratorType ==
    ASSUME A2aInv, Orchestrator
    PROVE  TypeOK'
<1> USE DEF A2aInv, loopVars, bridgeVars, worldVars
<1>0. Notice \in Events BY DEF Events
<1>1. CASE send_event
  <2>1. owed \in Events /\ events \in Seq(Events) /\ EventCapacity \in Nat
    BY <1>1, A2aAssumption DEF send_event, TypeOK
  <2>2. events' \in Seq(Events) /\ Len(events') <= EventCapacity BY <1>1, <2>1 DEF send_event
  <2> QED BY <1>1, <2>2 DEF send_event, TypeOK
<1>2. ASSUME NEW ok \in BOOLEAN, Reconnects(ok) PROVE TypeOK'
  BY <1>0, <1>2 DEF Reconnects, TypeOK
<1>3. ASSUME TakesCommand
      PROVE  /\ Head(commands) \in Commands /\ Tail(commands) \in Seq(Commands)
             /\ Len(Tail(commands)) <= CommandCapacity
  <2>1. commands \in Seq(Commands) /\ commands # <<>> /\ Len(commands) <= CommandCapacity
        /\ CommandCapacity \in Nat
    BY <1>3, A2aAssumption DEF TakesCommand, TypeOK
  <2> QED BY <2>1
<1>4. CASE publish BY <1>0, <1>3, <1>4 DEF publish, TakesCommand, TypeOK
<1>5. CASE PublishFails BY <1>0, <1>3, <1>5 DEF PublishFails, TakesCommand, TypeOK
<1>6. ASSUME NEW m \in toApp, receive_event(m) PROVE TypeOK'
  <2>1. m \in Events /\ toApp' \subseteq Outcomes
    BY <1>6 DEF receive_event, AfterDelivery, TypeOK, Events
  <2> QED BY <1>6, <2>1 DEF receive_event, TypeOK
<1>7. CASE ReceiveFails BY <1>0, <1>7 DEF ReceiveFails, TypeOK
<1> QED BY <1>1, <1>2, <1>4, <1>5, <1>6, <1>7 DEF Orchestrator

\* What the worker does: a task that ended stays as it ended.
WorkerStep(r) ==
    /\ toWorker' \subseteq toWorker
    /\ \/ UNCHANGED <<tasks, toApp>>
       \/ \E state \in TaskStates,
             type \in {"Accepted", "Duplicate", "Completed", "Failed",
                       "CancellationAccepted", "TerminationConfirmed"} :
            /\ tasks' = [tasks EXCEPT ![r] = state]
            /\ toApp' = toApp \cup {[type |-> type, run |-> r]}
            /\ \/ tasks[r] \in {"none", "running", "cancelling"} /\ Real(state, type)
               \/ state = tasks[r] /\ type = "Duplicate"
            /\ tasks[r] # "none" \/ [kind |-> "Dispatch", run |-> r] \in toWorker
            /\ \/ tasks[r] = "cancelling"
               \/ [kind |-> "Cancel", run |-> r] \in toWorker
               \/ /\ type \notin {"CancellationAccepted", "TerminationConfirmed"}
                  /\ state \in {"cancelling", "cancelled"} => tasks[r] = state
    /\ UNCHANGED <<attach, loopVars, bridgeVars, orchVars>>

LEMMA WorkerSteps ==
    ASSUME NEW r \in RunIds, TypeOK, WorkerDispatch(r) \/ WorkerCancel(r) \/ TaskEnds(r)
    PROVE  WorkerStep(r)
<1>0. tasks[r] \in TaskStates BY DEF TypeOK
<1> DEFINE Does(state, type) ==
              /\ tasks' = [tasks EXCEPT ![r] = state]
              /\ toApp' = toApp \cup {[type |-> type, run |-> r]}
              /\ UNCHANGED <<attach, loopVars, bridgeVars, orchVars>>
<1>1. ASSUME NEW state, NEW type, Reaches(r, state, type) PROVE Does(state, type)
  BY <1>1 DEF Reaches
<1>2. CASE WorkerDispatch(r)
  <2>1. toWorker' \subseteq toWorker /\ [kind |-> "Dispatch", run |-> r] \in toWorker
    BY <1>2 DEF WorkerDispatch, AfterDelivery
  <2>2. \/ tasks[r] = "none" /\ Does("running", "Accepted")
        \/ tasks[r] = "none" /\ Does("unsuccessful", "Failed")
        \/ tasks[r] # "none" /\ Does(tasks[r], "Duplicate")
    BY <1>1, <1>2 DEF WorkerDispatch
  <2>3. CASE tasks[r] = "none" /\ Does("running", "Accepted")
    BY <2>1, <2>3 DEF WorkerStep, Real, TaskStates
  <2>4. CASE tasks[r] = "none" /\ Does("unsuccessful", "Failed")
    BY <2>1, <2>4 DEF WorkerStep, Real, TaskStates
  <2>5. CASE tasks[r] # "none" /\ Does(tasks[r], "Duplicate")
    BY <1>0, <2>1, <2>5 DEF WorkerStep
  <2> QED BY <2>2, <2>3, <2>4, <2>5
<1>3. CASE WorkerCancel(r)
  <2>1. toWorker' \subseteq toWorker /\ [kind |-> "Cancel", run |-> r] \in toWorker
    BY <1>3 DEF WorkerCancel, AfterDelivery
  <2>2. \/ tasks[r] \in {"running", "cancelling"} /\ Does("cancelling", "CancellationAccepted")
        \/ tasks[r] \in {"running", "cancelling"} /\ Does("cancelled", "TerminationConfirmed")
        \/ UNCHANGED <<tasks, toApp, attach, loopVars, bridgeVars, orchVars>>
    BY <1>1, <1>3 DEF WorkerCancel
  <2>3. CASE tasks[r] \in {"running", "cancelling"} /\ Does("cancelling", "CancellationAccepted")
    BY <2>1, <2>3 DEF WorkerStep, Real, TaskStates
  <2>4. CASE tasks[r] \in {"running", "cancelling"} /\ Does("cancelled", "TerminationConfirmed")
    BY <2>1, <2>4 DEF WorkerStep, Real, TaskStates
  <2>5. CASE UNCHANGED <<tasks, toApp, attach, loopVars, bridgeVars, orchVars>>
    BY <2>1, <2>5 DEF WorkerStep
  <2> QED BY <2>2, <2>3, <2>4, <2>5
<1>4. CASE TaskEnds(r)
  <2>1. toWorker' \subseteq toWorker BY <1>4 DEF TaskEnds
  <2>2. \/ tasks[r] \in {"running", "cancelling"} /\ Does("succeeded", "Completed")
        \/ tasks[r] \in {"running", "cancelling"} /\ Does("unsuccessful", "Failed")
        \/ tasks[r] = "cancelling" /\ Does("cancelled", "TerminationConfirmed")
    BY <1>1, <1>4 DEF TaskEnds
  <2>3. CASE tasks[r] \in {"running", "cancelling"} /\ Does("succeeded", "Completed")
    BY <2>1, <2>3 DEF WorkerStep, Real, TaskStates
  <2>4. CASE tasks[r] \in {"running", "cancelling"} /\ Does("unsuccessful", "Failed")
    BY <2>1, <2>4 DEF WorkerStep, Real, TaskStates
  <2>5. CASE tasks[r] = "cancelling" /\ Does("cancelled", "TerminationConfirmed")
    BY <2>1, <2>5 DEF WorkerStep, Real, TaskStates
  <2> QED BY <2>2, <2>3, <2>4, <2>5
<1> QED BY <1>2, <1>3, <1>4

LEMMA WorldType ==
    ASSUME A2aInv, World
    PROVE  TypeOK'
<1> USE DEF A2aInv, loopVars, bridgeVars, orchVars
<1>1. CASE MessageExpires BY <1>1 DEF MessageExpires, TypeOK
<1>2. ASSUME NEW r \in RunIds, WorkerStep(r) PROVE TypeOK'
  <2>1. toApp' \subseteq Outcomes BY <1>2 DEF WorkerStep, TypeOK, Outcomes
  <2>2. tasks' \in [RunIds -> TaskStates] BY <1>2 DEF WorkerStep, TypeOK
  <2> QED BY <1>2, <2>1, <2>2 DEF WorkerStep, TypeOK
<1> QED BY <1>1, <1>2, WorkerSteps DEF World

-----------------------------------------------------------------------------
(* Every step grows. *)

LEMMA StillGrows ==
    ASSUME TypeOK, UNCHANGED <<run, created, tasks>>, asked \subseteq asked'
    PROVE  Grows
BY DEF Grows, Known, TypeOK

\* What a mutation request changes, when it is carried out.
PendingStep ==
    \E q \in Requests :
        \/ prepare_styrene_a2a_dispatch(q) /\ created + 1 \in RunIds /\ ~Known(created + 1)
        \/ prepare_styrene_a2a_cancel(q) /\ q.run \in RunIds
        \/ AnswersDuplicate(q)
        \/ Refuses(q)

LEMMA PendingSteps ==
    ASSUME A2aInv, process_pending
    PROVE  PendingStep
<1> DEFINE q == Head(requests)
<1>1. requests # <<>> BY DEF process_pending
<1>2. q \in Requests /\ (q.kind = "Cancel" => q.run \in RunIds) BY <1>1, HeadRequest
<1>3. CASE prepare_styrene_a2a_dispatch(q) BY <1>1, <1>2, <1>3, NextRunId DEF PendingStep
<1>4. CASE prepare_styrene_a2a_cancel(q)
  <2>1. q.run \in RunIds BY <1>2, <1>4 DEF prepare_styrene_a2a_cancel
  <2> HIDE DEF q
  <2> QED BY <1>2, <1>4, <2>1 DEF PendingStep
<1>5. CASE AnswersDuplicate(q) BY <1>2, <1>5 DEF PendingStep
<1>6. CASE Refuses(q) BY <1>2, <1>6 DEF PendingStep
<1> QED BY <1>3, <1>4, <1>5, <1>6 DEF process_pending

LEMMA EveryStepGrows ==
    ASSUME A2aInv, Next
    PROVE  Grows
<1> USE DEF A2aInv
<1>0. created \in Nat BY DEF TypeOK
<1>1. CASE ClientSends
  <2>1. UNCHANGED <<run, created, tasks>> /\ asked \subseteq asked'
    BY <1>1 DEF ClientSends, serve_connection, loopVars, worldVars
  <2> QED BY <2>1, StillGrows
<1>2. ASSUME NEW ok \in BOOLEAN, spawn_and_attach_omegon_with_bridge(ok) PROVE Grows
  <2>1. \A r \in RunIds : ~Known(r)'
    BY <1>2, AbsentIsRecord DEF spawn_and_attach_omegon_with_bridge, Known
  <2> QED BY <1>0, <1>2, <2>1 DEF spawn_and_attach_omegon_with_bridge, Grows, bridgeVars, worldVars
<1>3. CASE SendAction \/ RejectActions \/ ActionsSent \/ EventsDrained
           \/ sync_managed_agent_projection_snapshot
  BY <1>3, StillGrows DEF SendAction, RejectActions, ActionsSent, EventsDrained,
        sync_managed_agent_projection_snapshot, bridgeVars, worldVars
<1>4. CASE apply_event
  <2> DEFINE e == Head(events)
  <2>1. UNCHANGED <<created, asked, tasks>> BY <1>4 DEF apply_event, bridgeVars, worldVars
  <2>2. CASE e \in Outcomes /\ Known(e.run)
    <3>1. e.run \in RunIds BY <2>2 DEF Outcomes
    <3>2. run' = [run EXCEPT ![e.run] = apply_a2a_event(e)] BY <1>4, <2>2 DEF apply_event
    <3>3. apply_a2a_event(e).parent = run[e.run].parent BY <2>2, AppliedOutcome
    <3>4. \A r \in RunIds : Known(r)' => Known(r) /\ run'[r].parent = run[r].parent
      BY <2>2, <3>1, <3>2, <3>3 DEF Known, TypeOK
    <3> QED BY <1>0, <2>1, <3>4 DEF Grows
  <2>3. CASE ~(e \in Outcomes /\ Known(e.run))
    <3>1. run' = run BY <1>4, <2>3 DEF apply_event
    <3> QED BY <2>1, <3>1, StillGrows
  <2> QED BY <2>2, <2>3
<1>5. CASE process_pending
  <2>1. UNCHANGED <<asked, tasks>> BY <1>5 DEF process_pending, worldVars
  <2>2. PICK q \in Requests :
           \/ prepare_styrene_a2a_dispatch(q) /\ created + 1 \in RunIds /\ ~Known(created + 1)
           \/ prepare_styrene_a2a_cancel(q) /\ q.run \in RunIds
           \/ AnswersDuplicate(q)
           \/ Refuses(q)
    BY <1>5, PendingSteps DEF PendingStep
  <2>3. CASE prepare_styrene_a2a_dispatch(q) /\ created + 1 \in RunIds
    <3>1. created' = created + 1 BY <2>3 DEF prepare_styrene_a2a_dispatch
    <3>2. \A r \in RunIds : r # created + 1 => run'[r] = run[r]
      BY <2>3 DEF prepare_styrene_a2a_dispatch, TypeOK
    <3>3. created <= created' /\ created' \in Nat /\ created + 1 > created BY <1>0, <3>1
    <3> QED BY <2>1, <3>2, <3>3 DEF Grows, Known
  <2>4. CASE prepare_styrene_a2a_cancel(q) /\ q.run \in RunIds
    <3>1. created' = created BY <2>4 DEF prepare_styrene_a2a_cancel
    <3>2. run[q.run] \in Records /\ Known(q.run)
      BY <2>4 DEF prepare_styrene_a2a_cancel, CancelAccepted, TypeOK, Records
    <3>3. request_cancellation(run[q.run]).parent = run[q.run].parent
      BY <3>2 DEF request_cancellation, Records
    <3>4. \A r \in RunIds : Known(r)' => Known(r) /\ run'[r].parent = run[r].parent
      BY <2>4, <3>2, <3>3 DEF prepare_styrene_a2a_cancel, Known, TypeOK
    <3> QED BY <1>0, <2>1, <3>1, <3>4 DEF Grows
  <2>5. CASE AnswersDuplicate(q) \/ Refuses(q)
    BY <2>1, <2>5, StillGrows DEF AnswersDuplicate, Refuses
  <2> QED BY <2>2, <2>3, <2>4, <2>5
<1>6. CASE Orchestrator
  <2>1. UNCHANGED <<run, created, tasks, asked>>
    BY <1>6 DEF Orchestrator, send_event, Reconnects, publish, PublishFails, TakesCommand,
           receive_event, ReceiveFails, loopVars, bridgeVars, worldVars
  <2> QED BY <2>1, StillGrows
<1>7. CASE MessageExpires
  BY <1>7, StillGrows DEF MessageExpires, loopVars, bridgeVars
<1>8. ASSUME NEW r \in RunIds, WorkerStep(r) PROVE Grows
  <2>1. UNCHANGED <<run, created, asked>> BY <1>8 DEF WorkerStep, loopVars, bridgeVars
  <2>2. CASE UNCHANGED tasks BY <2>1, <2>2, StillGrows
  <2>3. ASSUME NEW state \in TaskStates, tasks' = [tasks EXCEPT ![r] = state],
               tasks[r] \in {"none", "running", "cancelling"} \/ state = tasks[r]
        PROVE  Grows
    <3>1. \A s \in RunIds : s # r => tasks'[s] = tasks[s] BY <2>3 DEF TypeOK
    <3>2. \A claim : Real(tasks[r], claim) => Real(tasks'[r], claim) BY <2>3 DEF Real, TypeOK
    <3> QED BY <1>0, <2>1, <3>1, <3>2 DEF Grows, Known
  <2> QED BY <1>8, <2>2, <2>3 DEF WorkerStep
<1> QED BY <1>1, <1>2, <1>3, <1>4, <1>5, <1>6, <1>7, <1>8, WorkerSteps DEF Next, AppLoop, World

-----------------------------------------------------------------------------
(* The messages. *)

\* Messages that only move stay good.
LEMMA MessagesKept ==
    ASSUME A2aInv, Next
    PROVE  /\ GoodCommands \subseteq GoodCommands' /\ GoodOutcomes \subseteq GoodOutcomes'
           /\ actions \in Seq(GoodCommands') /\ commands \in Seq(GoodCommands')
           /\ toWorker \subseteq GoodCommands' /\ toApp \subseteq GoodOutcomes'
           /\ events \in Seq(GoodOutcomes' \cup {Notice})
           /\ owed \in GoodOutcomes' \cup {Notice, NoEvent}
<1>1. GoodCommands \subseteq GoodCommands' /\ GoodOutcomes \subseteq GoodOutcomes'
  BY EveryStepGrows, Carried DEF A2aInv
<1> QED BY <1>1 DEF A2aInv, MessagesOK

LEMMA MessagesStep ==
    ASSUME A2aInv, Next
    PROVE  MessagesOK'
<1> DEFINE C == GoodCommands'
           O == GoodOutcomes'
<1>0. /\ actions \in Seq(C) /\ commands \in Seq(C) /\ toWorker \subseteq C
      /\ toApp \subseteq O /\ events \in Seq(O \cup {Notice})
      /\ owed \in O \cup {Notice, NoEvent}
  BY MessagesKept
<1> SUFFICES /\ actions' \in Seq(C) /\ commands' \in Seq(C) /\ toWorker' \subseteq C
             /\ toApp' \subseteq O /\ events' \in Seq(O \cup {Notice})
             /\ owed' \in O \cup {Notice, NoEvent}
  BY DEF MessagesOK
<1> HIDE DEF C, O
<1>1. CASE ClientSends \/ \E ok \in BOOLEAN : spawn_and_attach_omegon_with_bridge(ok)
  BY <1>0, <1>1 DEF ClientSends, serve_connection, spawn_and_attach_omegon_with_bridge,
        loopVars, orchVars, worldVars
<1>2. CASE SendAction BY <1>0, <1>2 DEF SendAction, worldVars
<1>3. CASE RejectActions BY <1>0, <1>3 DEF RejectActions, orchVars, worldVars
<1>4. CASE ActionsSent \/ EventsDrained \/ sync_managed_agent_projection_snapshot
  BY <1>0, <1>4 DEF ActionsSent, EventsDrained, sync_managed_agent_projection_snapshot,
        orchVars, worldVars
<1>5. CASE apply_event BY <1>0, <1>5 DEF apply_event, worldVars
<1>6. CASE process_pending
  <2> DEFINE q == Head(requests)
  <2>0. created \in Nat BY DEF A2aInv, TypeOK
  <2>1. UNCHANGED <<asked, commands, events, owed, toWorker, toApp>> /\ requests # <<>>
    BY <1>6 DEF process_pending, orchVars, worldVars
  <2>2. CASE prepare_styrene_a2a_dispatch(q)
    <3>1. created + 1 \in RunIds BY <2>1, <2>2, NextRunId
    <3>2. created' = created + 1 /\ actions' = Append(actions, [kind |-> "Dispatch", run |-> created + 1])
      BY <2>2 DEF prepare_styrene_a2a_dispatch, Completes
    <3>3. [kind |-> "Dispatch", run |-> created + 1] \in C
      <4>1. [kind |-> "Dispatch", run |-> created + 1] \in Commands BY <3>1 DEF Commands
      <4>2. created + 1 <= created' BY <2>0, <3>2
      <4> QED BY <4>1, <4>2 DEF C, GoodCommands
    <3> QED BY <1>0, <2>1, <3>2, <3>3
  <2>3. CASE prepare_styrene_a2a_cancel(q)
    <3>1. PICK r \in RunIds : r = q.run BY <2>1, <2>3, HeadRequest DEF prepare_styrene_a2a_cancel
    <3>2. /\ <<q.parent, r>> \in asked /\ Known(r) /\ run[r].parent = q.parent /\ r <= created
      BY <2>1, <2>3, <3>1, HeadRequest
         DEF prepare_styrene_a2a_cancel, CancelAccepted, A2aInv, RunsOK
    <3>3. created' = created /\ actions' = Append(actions, [kind |-> "Cancel", run |-> r])
      BY <2>3, <3>1 DEF prepare_styrene_a2a_cancel, Completes
    <3>4. Asked(r)'
      <4>1. \A s \in RunIds : s <= created /\ Asked(s) => Asked(s)'
        BY EveryStepGrows, Carried DEF A2aInv
      <4> QED BY <3>2, <4>1 DEF Asked
    <3>5. [kind |-> "Cancel", run |-> r] \in C
      <4>1. [kind |-> "Cancel", run |-> r] \in Commands BY DEF Commands
      <4> QED BY <3>2, <3>3, <3>4, <4>1 DEF C, GoodCommands
    <3> QED BY <1>0, <2>1, <3>3, <3>5
  <2>4. CASE AnswersDuplicate(q) BY <1>0, <2>1, <2>4 DEF AnswersDuplicate
  <2>5. CASE Refuses(q) BY <1>0, <2>1, <2>5 DEF Refuses
  <2> QED BY <1>6, <2>2, <2>3, <2>4, <2>5 DEF process_pending
<1>7. CASE send_event
  <2>1. owed \in O \cup {Notice} BY <1>0, <1>7 DEF send_event
  <2> QED BY <1>0, <1>7, <2>1 DEF send_event, loopVars, worldVars
<1>8. CASE (\E ok \in BOOLEAN : Reconnects(ok)) \/ ReceiveFails
  BY <1>0, <1>8 DEF Reconnects, ReceiveFails, loopVars, worldVars
<1>9. CASE publish \/ PublishFails
  <2>1. commands # <<>> /\ commands' = Tail(commands)
        /\ toWorker' \subseteq toWorker \cup {Head(commands)} /\ owed' = Notice
        /\ UNCHANGED <<actions, events, toApp>>
    BY <1>9 DEF publish, PublishFails, TakesCommand, loopVars
  <2>2. Head(commands) \in C /\ Tail(commands) \in Seq(C) BY <1>0, <2>1
  <2> QED BY <1>0, <2>1, <2>2
<1>10. ASSUME NEW m \in toApp, receive_event(m)
       PROVE  /\ actions' \in Seq(C) /\ commands' \in Seq(C) /\ toWorker' \subseteq C
              /\ toApp' \subseteq O /\ events' \in Seq(O \cup {Notice})
              /\ owed' \in O \cup {Notice, NoEvent}
  <2>1. toApp' \subseteq toApp BY <1>10 DEF receive_event, AfterDelivery
  <2> QED BY <1>0, <1>10, <2>1 DEF receive_event, loopVars
<1>11. CASE MessageExpires BY <1>0, <1>11 DEF MessageExpires, loopVars, orchVars
<1>12. ASSUME NEW r \in RunIds, WorkerStep(r)
       PROVE  /\ actions' \in Seq(C) /\ commands' \in Seq(C) /\ toWorker' \subseteq C
              /\ toApp' \subseteq O /\ events' \in Seq(O \cup {Notice})
              /\ owed' \in O \cup {Notice, NoEvent}
  <2>1. UNCHANGED <<run, created, asked, actions, commands, events, owed>>
        /\ toWorker' \subseteq toWorker
    BY <1>12 DEF WorkerStep, loopVars, bridgeVars, orchVars
  <2>2. CASE UNCHANGED toApp BY <1>0, <2>1, <2>2
  <2>3. ASSUME NEW state \in TaskStates,
               NEW type \in {"Accepted", "Duplicate", "Completed", "Failed",
                             "CancellationAccepted", "TerminationConfirmed"},
               tasks' = [tasks EXCEPT ![r] = state],
               toApp' = toApp \cup {[type |-> type, run |-> r]},
               \/ tasks[r] \in {"none", "running", "cancelling"} /\ Real(state, type)
               \/ state = tasks[r] /\ type = "Duplicate",
               tasks[r] # "none" \/ [kind |-> "Dispatch", run |-> r] \in toWorker,
               \/ tasks[r] = "cancelling"
               \/ [kind |-> "Cancel", run |-> r] \in toWorker
               \/ type \notin {"CancellationAccepted", "TerminationConfirmed"}
        PROVE  toApp' \subseteq O
    <3> DEFINE m == [type |-> type, run |-> r]
    <3>1. m \in Outcomes BY DEF Outcomes
    <3>2. r <= created
      <4>1. CASE tasks[r] # "none" BY <4>1 DEF A2aInv, RunsOK
      <4>2. CASE [kind |-> "Dispatch", run |-> r] \in toWorker
        BY <4>2 DEF A2aInv, MessagesOK, GoodCommands
      <4> QED BY <2>3, <4>1, <4>2
    <3>3. Real(tasks'[r], type)
      <4>1. tasks'[r] = state BY <2>3 DEF A2aInv, TypeOK
      <4> QED BY <2>3, <4>1 DEF Real
    <3>4. type \in {"CancellationAccepted", "TerminationConfirmed"} => Asked(r)
      <4>1. CASE tasks[r] = "cancelling" BY <4>1 DEF A2aInv, RunsOK
      <4>2. CASE [kind |-> "Cancel", run |-> r] \in toWorker
        BY <4>2 DEF A2aInv, MessagesOK, GoodCommands
      <4> QED BY <2>3, <4>1, <4>2
    <3>5. Asked(r) => Asked(r)' BY <2>1 DEF Asked, Known
    <3>6. m \in O BY <2>1, <3>1, <3>2, <3>3, <3>4, <3>5 DEF O, GoodOutcomes
    <3> QED BY <1>0, <2>3, <3>6
  <2>4. toApp' \subseteq O BY <1>0, <1>12, <2>2, <2>3 DEF WorkerStep
  <2> QED BY <1>0, <2>1, <2>4
<1> QED BY <1>1, <1>2, <1>3, <1>4, <1>5, <1>6, <1>7, <1>8, <1>9, <1>10, <1>11, <1>12,
           WorkerSteps DEF Next, AppLoop, Orchestrator, World, A2aInv

-----------------------------------------------------------------------------
(* The runs, the requests and the answers. *)

\* What a step may do to a run the controller knows.
RunMoves(r) ==
    \/ run'[r] = run[r]
    \/ ~Known(r)'
    \/ ~Known(r) /\ run'[r].state = "Dispatching"
    \/ /\ Known(r) /\ ~is_terminal(run[r]) /\ r <= created
       /\ \/ run'[r].state = run[r].state
          \/ run'[r].state = "Running"
          \/ run'[r].state = "Cancelling" /\ Asked(r)
          \/ run'[r].state = "Cancelled" /\ Asked(r) /\ Real(tasks[r], "Cancelled")
          \/ run'[r].state \in {"Completed", "Failed"} /\ Real(tasks[r], run'[r].state)

LEMMA RunsMove ==
    ASSUME A2aInv, Next, NEW r \in RunIds
    PROVE  RunMoves(r) /\ (attach' = attach /\ Known(r) /\ is_terminal(run[r]) => run'[r] = run[r])
<1> USE DEF A2aInv
<1>1. CASE UNCHANGED run BY <1>1 DEF RunMoves
<1>2. ASSUME NEW ok \in BOOLEAN, spawn_and_attach_omegon_with_bridge(ok)
      PROVE  /\ RunMoves(r)
             /\ attach' = attach /\ Known(r) /\ is_terminal(run[r]) => run'[r] = run[r]
  <2>1. ~Known(r)' /\ attach' # attach
    BY <1>2, AbsentIsRecord DEF spawn_and_attach_omegon_with_bridge, Known
  <2> QED BY <2>1 DEF RunMoves
<1>3. CASE apply_event
  <2> DEFINE e == Head(events)
  <2>1. CASE e \in Outcomes /\ Known(e.run) /\ r = e.run
    <3>1. run' = [run EXCEPT ![e.run] = apply_a2a_event(e)] BY <1>3, <2>1 DEF apply_event
    <3>2. run'[r] = apply_a2a_event(e) BY <2>1, <3>1 DEF TypeOK
    <3>3. events \in Seq(GoodOutcomes \cup {Notice}) /\ events # <<>>
      BY <1>3 DEF apply_event, MessagesOK
    <3>4. e \in GoodOutcomes
      <4>1. Notice \notin Outcomes BY DEF Notice, Outcomes, NoRun, RunIds
      <4>2. e \in GoodOutcomes \cup {Notice} BY <3>3
      <4> QED BY <2>1, <4>1, <4>2
    <3>5. Real(tasks[r], e.type) /\ r <= created
          /\ (e.type \in {"CancellationAccepted", "TerminationConfirmed"} => Asked(r))
      BY <2>1, <3>4 DEF GoodOutcomes
    <3>6. is_terminal(run[r]) => run'[r] = run[r] BY <2>1, <3>2, AppliedOutcome
    <3>7. \/ run'[r].state = run[r].state
          \/ run'[r].state = "Running"
          \/ e.type = "Completed" /\ run'[r].state = "Completed"
          \/ e.type = "Failed" /\ run'[r].state = "Failed"
          \/ e.type = "CancellationAccepted" /\ run'[r].state = "Cancelling"
          \/ e.type = "TerminationConfirmed" /\ run'[r].state = "Cancelled"
      BY <2>1, <3>2, AppliedOutcome
    <3> HIDE DEF e
    <3>8. RunMoves(r) BY <2>1, <3>5, <3>6, <3>7 DEF RunMoves, Real
    <3> QED BY <3>6, <3>8
  <2>2. CASE ~(e \in Outcomes /\ Known(e.run) /\ r = e.run)
    <3>1. run'[r] = run[r] BY <1>3, <2>2 DEF apply_event, TypeOK
    <3> QED BY <3>1 DEF RunMoves
  <2> QED BY <2>1, <2>2
<1>4. CASE process_pending
  <2> DEFINE q == Head(requests)
  <2>0. requests # <<>> BY <1>4 DEF process_pending
  <2>1. CASE prepare_styrene_a2a_dispatch(q)
    <3>1. created + 1 \in RunIds /\ ~Known(created + 1) BY <2>0, <2>1, NextRunId
    <3>2. r # created + 1 => run'[r] = run[r]
      BY <2>1 DEF prepare_styrene_a2a_dispatch, TypeOK
    <3>3. run'[created + 1].state = "Dispatching"
      BY <2>1, <3>1 DEF prepare_styrene_a2a_dispatch, TypeOK
    <3> QED BY <3>1, <3>2, <3>3 DEF RunMoves
  <2>2. CASE prepare_styrene_a2a_cancel(q)
    <3>1. /\ q.run \in RunIds /\ <<q.parent, q.run>> \in asked /\ Known(q.run)
          /\ run[q.run].parent = q.parent /\ q.run <= created
          /\ run[q.run].state \in {"Running", "Disconnected"}
      BY <2>0, <2>2, HeadRequest DEF prepare_styrene_a2a_cancel, CancelAccepted, RunsOK,
            accepts_cancellation_request
    <3>2. r # q.run => run'[r] = run[r] BY <2>2 DEF prepare_styrene_a2a_cancel, TypeOK
    <3>3. r = q.run => run'[r].state = "Cancelling"
      BY <2>2, <3>1 DEF prepare_styrene_a2a_cancel, TypeOK, request_cancellation
    <3>4. r = q.run => ~is_terminal(run[r]) /\ Asked(r)
      BY <3>1 DEF is_terminal, TerminalStates, Asked
    <3> QED BY <3>1, <3>2, <3>3, <3>4 DEF RunMoves
  <2>3. CASE AnswersDuplicate(q) \/ Refuses(q)
    BY <2>3 DEF AnswersDuplicate, Refuses, RunMoves
  <2> QED BY <1>4, <2>1, <2>2, <2>3 DEF process_pending
<1>5. CASE ClientSends BY <1>1, <1>5 DEF ClientSends, serve_connection, loopVars
<1>6. CASE SendAction \/ RejectActions \/ ActionsSent \/ EventsDrained
           \/ sync_managed_agent_projection_snapshot
  BY <1>1, <1>6 DEF SendAction, RejectActions, ActionsSent, EventsDrained,
        sync_managed_agent_projection_snapshot
<1>7. CASE Orchestrator
  <2>1. UNCHANGED run
    BY <1>7 DEF Orchestrator, send_event, Reconnects, publish, PublishFails, TakesCommand,
           receive_event, ReceiveFails, loopVars
  <2> QED BY <1>1, <2>1
<1>8. CASE World
  <2>1. UNCHANGED run BY <1>8, WorkerSteps DEF World, MessageExpires, WorkerStep, loopVars
  <2> QED BY <1>1, <2>1
<1> QED BY <1>2, <1>3, <1>4, <1>5, <1>6, <1>7, <1>8 DEF Next, AppLoop

\* What a step may do to a task.
LEMMA TasksMove ==
    ASSUME A2aInv, Next, NEW r \in RunIds
    PROVE  \/ tasks'[r] = tasks[r]
           \/ /\ r <= created
              /\ tasks'[r] \in {"cancelling", "cancelled"} => Asked(r)
<1> USE DEF A2aInv
<1>1. CASE UNCHANGED tasks BY <1>1
<1>2. ASSUME NEW s \in RunIds, WorkerStep(s)
      PROVE  \/ tasks'[r] = tasks[r]
             \/ r <= created /\ (tasks'[r] \in {"cancelling", "cancelled"} => Asked(r))
  <2>1. CASE UNCHANGED tasks BY <2>1
  <2>2. ASSUME NEW state \in TaskStates, tasks' = [tasks EXCEPT ![s] = state],
               tasks[s] # "none" \/ [kind |-> "Dispatch", run |-> s] \in toWorker,
               \/ tasks[s] = "cancelling"
               \/ [kind |-> "Cancel", run |-> s] \in toWorker
               \/ state \in {"cancelling", "cancelled"} => tasks[s] = state
        PROVE  \/ tasks'[r] = tasks[r]
               \/ r <= created /\ (tasks'[r] \in {"cancelling", "cancelled"} => Asked(r))
    <3>1. r # s => tasks'[r] = tasks[r] BY <2>2 DEF TypeOK
    <3>2. tasks'[s] = state BY <2>2 DEF TypeOK
    <3>3. s <= created
      <4>1. CASE tasks[s] # "none" BY <4>1 DEF RunsOK
      <4>2. CASE [kind |-> "Dispatch", run |-> s] \in toWorker
        BY <4>2 DEF MessagesOK, GoodCommands
      <4> QED BY <2>2, <4>1, <4>2
    <3>4. state \in {"cancelling", "cancelled"} => Asked(s)
      <4>1. tasks[s] \in {"cancelling", "cancelled"} => Asked(s) BY DEF RunsOK
      <4>2. [kind |-> "Cancel", run |-> s] \in toWorker => Asked(s)
        BY DEF MessagesOK, GoodCommands
      <4> QED BY <2>2, <4>1, <4>2
    <3> QED BY <3>1, <3>2, <3>3, <3>4
  <2> QED BY <1>2, <2>1, <2>2 DEF WorkerStep
<1>3. CASE ClientSends \/ \E ok \in BOOLEAN : spawn_and_attach_omegon_with_bridge(ok)
  BY <1>1, <1>3 DEF ClientSends, serve_connection, spawn_and_attach_omegon_with_bridge, worldVars
<1>4. CASE AppLoop
  <2>1. UNCHANGED tasks
    BY <1>4 DEF AppLoop, SendAction, RejectActions, ActionsSent, apply_event, EventsDrained,
          process_pending, sync_managed_agent_projection_snapshot, worldVars
  <2> QED BY <1>1, <2>1
<1>5. CASE Orchestrator
  <2>1. UNCHANGED tasks
    BY <1>5 DEF Orchestrator, send_event, Reconnects, publish, PublishFails, TakesCommand,
           receive_event, ReceiveFails, worldVars
  <2> QED BY <1>1, <2>1
<1>6. CASE MessageExpires BY <1>1, <1>6 DEF MessageExpires
<1> QED BY <1>2, <1>3, <1>4, <1>5, <1>6, WorkerSteps DEF Next, World

\* A run id is only known once it has been given out.
LEMMA KnownIsGivenOut ==
    ASSUME A2aInv, Next, NEW r \in RunIds, Known(r)'
    PROVE  r <= created'
<1> USE DEF A2aInv
<1>0. created \in Nat /\ r \in Nat BY DEF TypeOK, RunIds
<1>1. created <= created' /\ created' \in Nat BY EveryStepGrows DEF Grows
<1>2. CASE Known(r) BY <1>0, <1>1, <1>2 DEF RunsOK
<1>3. CASE ~Known(r)
  <2>1. run'[r] # run[r] BY <1>3 DEF Known
  <2>2. ~(\E ok \in BOOLEAN : spawn_and_attach_omegon_with_bridge(ok))
    BY AbsentIsRecord DEF spawn_and_attach_omegon_with_bridge, Known
  <2>3. CASE apply_event
    <3>1. \A s \in RunIds : run'[s] # run[s] => Known(s) BY <2>3 DEF apply_event, TypeOK
    <3> QED BY <1>3, <2>1, <3>1
  <2>4. CASE process_pending
    <3>1. CASE \E q \in Requests : prepare_styrene_a2a_dispatch(q)
      <4>1. created' = created + 1 /\ (r # created + 1 => run'[r] = run[r])
        BY <3>1 DEF prepare_styrene_a2a_dispatch, TypeOK
      <4> QED BY <1>0, <2>1, <4>1
    <3>2. CASE \E q \in Requests : prepare_styrene_a2a_cancel(q)
      <4>1. \A s \in RunIds : run'[s] # run[s] => Known(s)
        BY <3>2 DEF prepare_styrene_a2a_cancel, CancelAccepted, TypeOK
      <4> QED BY <1>3, <2>1, <4>1
    <3>3. CASE \E q \in Requests : AnswersDuplicate(q) \/ Refuses(q)
      BY <2>1, <3>3 DEF AnswersDuplicate, Refuses
    <3> QED BY <2>4, <3>1, <3>2, <3>3, PendingSteps DEF PendingStep
  <2>5. CASE UNCHANGED run BY <2>1, <2>5
  <2>6. UNCHANGED run \/ apply_event \/ process_pending
    BY <2>2, WorkerSteps
       DEF Next, ClientSends, serve_connection, AppLoop, SendAction, RejectActions, ActionsSent,
           EventsDrained, sync_managed_agent_projection_snapshot, Orchestrator, send_event,
           Reconnects, publish, PublishFails, TakesCommand, receive_event, ReceiveFails, World,
           MessageExpires, WorkerStep, loopVars
  <2> QED BY <2>3, <2>4, <2>5, <2>6
<1> QED BY <1>2, <1>3

LEMMA RunsStep ==
    ASSUME A2aInv, Next
    PROVE  RunsOK'
<1> USE DEF A2aInv
<1>0. Grows BY EveryStepGrows
<1>1. \A r \in RunIds : r <= created /\ Asked(r) => Asked(r)' BY <1>0, Carried
<1>2. created \in Nat /\ created' \in Nat /\ created <= created' BY <1>0 DEF TypeOK, Grows
<1> SUFFICES ASSUME NEW r \in RunIds
             PROVE  /\ Known(r)' \/ tasks'[r] # "none" => r <= created'
                    /\ run'[r].state \in {"Cancelling", "Cancelled"} => Asked(r)'
                    /\ tasks'[r] \in {"cancelling", "cancelled"} => Asked(r)'
  BY DEF RunsOK
<1>3. r \in Nat BY DEF RunIds
<1>4. tasks'[r] # "none" => r <= created'
  <2>1. tasks[r] # "none" => r <= created BY DEF RunsOK
  <2> QED BY <1>2, <1>3, <2>1, TasksMove
<1>5. tasks'[r] \in {"cancelling", "cancelled"} => Asked(r)'
  <2>1. tasks[r] \in {"cancelling", "cancelled"} => r <= created /\ Asked(r) BY DEF RunsOK
  <2> QED BY <1>1, <2>1, TasksMove
<1>6. run'[r].state \in {"Cancelling", "Cancelled"} => Asked(r)'
  <2> SUFFICES ASSUME run'[r].state \in {"Cancelling", "Cancelled"}, Known(r)'
               PROVE  r <= created /\ Asked(r)
    BY <1>1 DEF Asked
  <2>1. RunMoves(r) BY RunsMove
  <2>2. run[r].state \in {"Cancelling", "Cancelled"} => Known(r) /\ Asked(r)
    BY DEF RunsOK, Known
  <2>3. Known(r) => r <= created BY DEF RunsOK
  <2> QED BY <2>1, <2>2, <2>3 DEF RunMoves
<1> QED BY <1>4, <1>5, <1>6, KnownIsGivenOut

LEMMA RealStep ==
    ASSUME A2aInv, Next
    PROVE  OutcomesAreReal'
<1> USE DEF A2aInv
<1> SUFFICES ASSUME NEW r \in RunIds
             PROVE  /\ Real(tasks'[r], run'[r].state)
                    /\ \A p \in Parents : Real(tasks'[r], snapshot'[p][r])
  BY DEF OutcomesAreReal
<1>1. \A claim : Real(tasks[r], claim) => Real(tasks'[r], claim) BY EveryStepGrows DEF Grows
<1>2. Real(tasks[r], run[r].state) BY DEF OutcomesAreReal
<1>3. Real(tasks'[r], run'[r].state)
  <2>1. RunMoves(r) BY RunsMove
  <2>2. Real(tasks[r], run'[r].state)
    BY <1>2, <2>1 DEF RunMoves, Real, Known
  <2> QED BY <1>1, <2>2
<1>4. ASSUME NEW p \in Parents PROVE Real(tasks'[r], snapshot'[p][r])
  <2>1. Real(tasks[r], "Absent") BY DEF Real
  <2>2. \/ snapshot'[p][r] = snapshot[p][r]
        \/ snapshot'[p][r] = run[r].state
        \/ snapshot'[p][r] = "Absent"
    <3>1. CASE UNCHANGED snapshot BY <3>1
    <3>2. CASE sync_managed_agent_projection_snapshot
      <4>1. snapshot'[p] = IF p \in ActiveParents THEN Projection(p) ELSE snapshot[p]
        BY <3>2 DEF sync_managed_agent_projection_snapshot
      <4>2. Projection(p)[r] = run[r].state \/ Projection(p)[r] = "Absent" BY DEF Projection
      <4> QED BY <4>1, <4>2
    <3>3. CASE \E ok \in BOOLEAN : spawn_and_attach_omegon_with_bridge(ok)
      BY <3>3 DEF spawn_and_attach_omegon_with_bridge
    <3>4. \/ UNCHANGED snapshot \/ sync_managed_agent_projection_snapshot
          \/ \E ok \in BOOLEAN : spawn_and_attach_omegon_with_bridge(ok)
      BY WorkerSteps
         DEF Next, ClientSends, serve_connection, AppLoop, SendAction, RejectActions, ActionsSent,
             EventsDrained, apply_event, process_pending, Orchestrator, send_event,
             Reconnects, publish, PublishFails, TakesCommand, receive_event, ReceiveFails, World,
             MessageExpires, WorkerStep, loopVars
    <3> QED BY <3>1, <3>2, <3>3, <3>4
  <2>3. Real(tasks[r], snapshot[p][r]) BY DEF OutcomesAreReal
  <2> QED BY <1>1, <1>2, <2>1, <2>2, <2>3
<1> QED BY <1>3, <1>4

\* Only the clients and the coordinator touch the channel and its answers.
LEMMA OthersLeaveRequests ==
    ASSUME A2aInv, Next
    PROVE  \/ UNCHANGED <<requests, asked, created, completed, told>>
           \/ ClientSends \/ process_pending
BY WorkerSteps
   DEF A2aInv, Next, spawn_and_attach_omegon_with_bridge, AppLoop, SendAction, RejectActions,
       ActionsSent, EventsDrained, apply_event, sync_managed_agent_projection_snapshot,
       Orchestrator, send_event, Reconnects, publish, PublishFails, TakesCommand, receive_event,
       ReceiveFails, World, MessageExpires, WorkerStep, loopVars, bridgeVars

LEMMA RequestsStep ==
    ASSUME A2aInv, Next
    PROVE  RequestsOK'
<1> USE DEF A2aInv
<1>0. requests \in Seq(Requests) BY DEF TypeOK
<1>1. CASE UNCHANGED <<requests, asked>> BY <1>1 DEF RequestsOK, Key
<1>2. ASSUME NEW k \in Keys, NEW kind, NEW r, kind = "Cancel" => r \in RunIds,
             serve_connection(k[1], k[2], kind, r)
      PROVE  RequestsOK'
  <2> DEFINE x == [parent |-> k[1], op |-> k[2], kind |-> kind, run |-> r]
  <2>1. requests' = Append(requests, x) /\ asked \subseteq asked'
        /\ (kind = "Cancel" => <<k[1], r>> \in asked')
    BY <1>2 DEF serve_connection
  <2>2. Key(x) = k /\ x.parent = k[1] /\ x.kind = kind /\ x.run = r BY A2aAssumption DEF Key
  <2> HIDE DEF x
  <2>3. \A i \in DOMAIN requests' : requests'[i] = x \/ (i \in DOMAIN requests /\ requests'[i] = requests[i])
    BY <1>0, <2>1
  <2>4. Key(x) \in Keys /\ (x.kind = "Cancel" => x.run \in RunIds /\ <<x.parent, x.run>> \in asked')
    BY <1>2, <2>1, <2>2
  <2>5. \A i \in DOMAIN requests :
           /\ Key(requests[i]) \in Keys
           /\ requests[i].kind = "Cancel" =>
                 requests[i].run \in RunIds /\ <<requests[i].parent, requests[i].run>> \in asked'
    BY <2>1 DEF RequestsOK
  <2> SUFFICES ASSUME NEW i \in DOMAIN requests'
               PROVE  /\ Key(requests'[i]) \in Keys
                      /\ requests'[i].kind = "Cancel" =>
                            /\ requests'[i].run \in RunIds
                            /\ <<requests'[i].parent, requests'[i].run>> \in asked'
    BY DEF RequestsOK, Key
  <2>6. CASE requests'[i] = x BY <2>4, <2>6
  <2>7. CASE i \in DOMAIN requests /\ requests'[i] = requests[i] BY <2>5, <2>7
  <2> QED BY <2>3, <2>6, <2>7
<1>3. CASE process_pending
  <2>1. requests # <<>> /\ requests' = Tail(requests) /\ asked' = asked
    BY <1>3 DEF process_pending
  <2>2. \A i \in DOMAIN requests' : \E j \in DOMAIN requests : requests'[i] = requests[j]
    BY <1>0, <2>1
  <2> DEFINE Good(q) == /\ Key(q) \in Keys
                        /\ q.kind = "Cancel" => q.run \in RunIds /\ <<q.parent, q.run>> \in asked
  <2>3. \A j \in DOMAIN requests : Good(requests[j]) BY DEF RequestsOK
  <2>4. ASSUME \A i \in DOMAIN requests' : Good(requests'[i]) PROVE RequestsOK'
    BY <2>1, <2>4 DEF RequestsOK, Key
  <2> HIDE DEF Good
  <2> QED BY <2>2, <2>3, <2>4
<1>4. CASE ClientSends
  <2>1. PICK k \in Keys : \/ serve_connection(k[1], k[2], "Dispatch", NoRun)
                          \/ serve_connection(k[1], k[2], "InvalidDispatch", NoRun)
                          \/ \E r \in RunIds : serve_connection(k[1], k[2], "Cancel", r)
    BY <1>4 DEF ClientSends
  <2>2. "Dispatch" # "Cancel" /\ "InvalidDispatch" # "Cancel" OBVIOUS
  <2>3. CASE serve_connection(k[1], k[2], "Dispatch", NoRun) BY <1>2, <2>2, <2>3
  <2>4. CASE serve_connection(k[1], k[2], "InvalidDispatch", NoRun) BY <1>2, <2>2, <2>4
  <2>5. CASE \E r \in RunIds : serve_connection(k[1], k[2], "Cancel", r) BY <1>2, <2>5
  <2> QED BY <2>1, <2>3, <2>4, <2>5
<1> QED BY <1>1, <1>3, <1>4, OthersLeaveRequests

LEMMA RoomStep ==
    ASSUME A2aInv, Next
    PROVE  RoomOK'
<1> USE DEF A2aInv
<1> DEFINE A == Fresh(requests, completed)
           B == Fresh(requests', completed')
<1>0. requests \in Seq(Requests) /\ created \in Nat /\ MaxRuns \in Nat
  BY A2aAssumption DEF TypeOK
<1>1. IsFiniteSet(A) /\ Cardinality(A) \in Nat /\ created + Cardinality(A) <= MaxRuns
  BY <1>0, FreshIsFinite DEF RoomOK
<1>2. IsFiniteSet(B) /\ Cardinality(B) \in Nat
  <2>1. requests' \in Seq(Requests)
    BY ClientType, LoopType, OrchestratorType, WorldType DEF Next, TypeOK
  <2> QED BY <2>1, FreshIsFinite
<1> SUFFICES created' + Cardinality(B) <= MaxRuns BY DEF RoomOK, Fresh, Key
<1>3. CASE UNCHANGED <<requests, created, completed>> BY <1>1, <1>3
<1>4. ASSUME NEW k \in Keys, NEW kind \in {"Dispatch", "InvalidDispatch", "Cancel"},
             NEW r \in RunIds \cup {NoRun}, serve_connection(k[1], k[2], kind, r),
             kind = "Dispatch" => RoomForRun \/ completed[k] # NoRun
      PROVE  created' + Cardinality(B) <= MaxRuns
  <2> DEFINE x == [parent |-> k[1], op |-> k[2], kind |-> kind, run |-> r]
  <2>1. requests' = Append(requests, x) /\ UNCHANGED <<created, completed>>
    BY <1>4 DEF serve_connection, loopVars
  <2>2. x \in Requests /\ Key(x) = k /\ x.kind = kind BY A2aAssumption DEF Requests, Key
  <2> HIDE DEF x
  <2>3. B = Fresh(Append(requests, x), completed) BY <2>1
  <2>4. CASE ~(kind = "Dispatch" /\ completed[k] = NoRun)
    <3>1. Cardinality(B) <= Cardinality(A) BY <1>0, <2>2, <2>3, <2>4, FreshAppend
    <3> QED BY <1>0, <1>1, <1>2, <2>1, <3>1
  <2>5. CASE kind = "Dispatch" /\ completed[k] = NoRun
    <3> DEFINE D == {i \in DOMAIN requests : requests[i].kind = "Dispatch"}
    <3>1. created + Cardinality(D) < MaxRuns BY <1>4, <2>5 DEF RoomForRun
    <3>2. A \subseteq D /\ D \in SUBSET (1..Len(requests)) BY <1>0 DEF Fresh
    <3>3. IsFiniteSet(D) BY <1>0, <3>2, FS_Interval, FS_Subset
    <3>4. Cardinality(A) <= Cardinality(D) /\ Cardinality(D) \in Nat
      BY <3>2, <3>3, FS_Subset, FS_CardinalityType
    <3>5. Cardinality(B) <= Cardinality(A) + 1 BY <1>0, <2>2, <2>3, FreshAppend
    <3> HIDE DEF A, B, D
    <3> QED BY <1>0, <1>1, <1>2, <2>1, <3>1, <3>4, <3>5
  <2> QED BY <2>4, <2>5
<1>5. CASE process_pending
  <2> DEFINE q == Head(requests)
  <2>1. requests # <<>> /\ requests' = Tail(requests) BY <1>5 DEF process_pending
  <2>2. Key(q) \in Keys /\ q \in Requests BY <2>1, HeadRequest
  <2>3. ASSUME NEW r, r # NoRun, completed' = [completed EXCEPT ![Key(q)] = r]
        PROVE  \A k \in Keys : completed'[k] = NoRun => completed[k] = NoRun
    BY <2>2, <2>3 DEF TypeOK
  <2>4. \A i \in DOMAIN requests : Key(requests[i]) \in Keys BY DEF RequestsOK
  <2>5. CASE prepare_styrene_a2a_dispatch(q)
    <3>1. created' = created + 1 /\ completed' = [completed EXCEPT ![Key(q)] = created + 1]
          /\ q.kind = "Dispatch" /\ completed[Key(q)] = NoRun
      BY <2>5 DEF prepare_styrene_a2a_dispatch, Completes, Repeats
    <3>2. created + 1 # NoRun BY <1>0 DEF NoRun
    <3>3. \A k \in Keys : completed'[k] = NoRun => completed[k] = NoRun BY <2>3, <3>1, <3>2
    <3>4. Cardinality(B) + 1 <= Cardinality(A) BY <1>0, <2>1, <2>4, <3>1, <3>3, FreshTail
    <3> HIDE DEF A, B, q
    <3> QED BY <1>0, <1>1, <1>2, <3>1, <3>4
  <2>6. CASE prepare_styrene_a2a_cancel(q)
    <3>1. created' = created /\ completed' = [completed EXCEPT ![Key(q)] = q.run]
          /\ q.kind = "Cancel"
      BY <2>6 DEF prepare_styrene_a2a_cancel, Completes
    <3>2. q.run # NoRun BY <2>1, <3>1, HeadRequest DEF RunIds, NoRun
    <3>3. \A k \in Keys : completed'[k] = NoRun => completed[k] = NoRun BY <2>3, <3>1, <3>2
    <3>4. Cardinality(B) <= Cardinality(A) BY <1>0, <2>1, <2>4, <3>3, FreshTail
    <3> HIDE DEF A, B, q
    <3> QED BY <1>0, <1>1, <1>2, <3>1, <3>4
  <2>7. CASE AnswersDuplicate(q) \/ Refuses(q)
    <3>1. created' = created /\ completed' = completed BY <2>7 DEF AnswersDuplicate, Refuses
    <3>2. Cardinality(B) <= Cardinality(A) BY <1>0, <2>1, <3>1, FreshTail
    <3> HIDE DEF A, B, q
    <3> QED BY <1>0, <1>1, <1>2, <3>1, <3>2
  <2> QED BY <1>5, <2>5, <2>6, <2>7 DEF process_pending
<1> QED BY <1>3, <1>4, <1>5, OthersLeaveRequests DEF ClientSends

LEMMA ToldStep ==
    ASSUME A2aInv, Next
    PROVE  OneRunPerOperation'
<1> USE DEF A2aInv
<1>1. CASE UNCHANGED <<completed, told>> BY <1>1 DEF OneRunPerOperation
<1>2. CASE ClientSends BY <1>1, <1>2 DEF ClientSends, serve_connection, loopVars
<1>3. CASE process_pending
  <2> DEFINE q == Head(requests)
  <2>1. requests # <<>> BY <1>3 DEF process_pending
  <2>2. Key(q) \in Keys BY <2>1, HeadRequest
  <2>3. ASSUME NEW r, NEW action, Completes(q, r, action), ~Repeats(q)
        PROVE  OneRunPerOperation'
    <3>1. told[Key(q)] = {}
      <4>1. told[Key(q)] \subseteq {NoRun} /\ told[Key(q)] \subseteq RunIds
        BY <2>2, <2>3 DEF Repeats, OneRunPerOperation, TypeOK
      <4>2. NoRun \notin RunIds BY DEF NoRun, RunIds
      <4> QED BY <4>1, <4>2
    <3>2. \A k \in Keys : told'[k] \subseteq {completed'[k]}
      <4>1. told'[Key(q)] = {r} /\ completed'[Key(q)] = r
        BY <2>2, <2>3, <3>1 DEF Completes, TypeOK
      <4>2. \A k \in Keys : k # Key(q) => told'[k] = told[k] /\ completed'[k] = completed[k]
        BY <2>3 DEF Completes, TypeOK
      <4> HIDE DEF q
      <4> QED BY <4>1, <4>2 DEF OneRunPerOperation
    <3> QED BY <3>2 DEF OneRunPerOperation
  <2>4. CASE AnswersDuplicate(q)
    <3>1. \A k \in Keys : told'[k] \subseteq {completed'[k]}
      BY <2>2, <2>4 DEF AnswersDuplicate, OneRunPerOperation, TypeOK
    <3> QED BY <3>1 DEF OneRunPerOperation
  <2>5. CASE Refuses(q) BY <1>1, <2>5 DEF Refuses
  <2> QED BY <1>3, <2>3, <2>4, <2>5
         DEF process_pending, prepare_styrene_a2a_dispatch, prepare_styrene_a2a_cancel
<1> QED BY <1>1, <1>2, <1>3, OthersLeaveRequests

-----------------------------------------------------------------------------
(* The theorems. *)

LEMMA InitIsGood == Init => A2aInv
<1> SUFFICES ASSUME Init PROVE A2aInv OBVIOUS
<1>1. RequestsOK /\ MessagesOK BY DEF Init, RequestsOK, MessagesOK
<1>2. RoomOK
  <2>1. Fresh(requests, completed) = {} BY DEF Init, Fresh
  <2>2. Cardinality(Fresh(requests, completed)) = 0 BY <2>1, FS_EmptySet
  <2>3. created = 0 BY DEF Init
  <2> QED BY <2>2, <2>3, A2aAssumption DEF RoomOK
<1>3. RunsOK /\ OutcomesAreReal
  BY AbsentIsRecord DEF Init, RunsOK, OutcomesAreReal, Known, Real
<1>4. OneRunPerOperation BY DEF Init, OneRunPerOperation
<1> QED BY <1>1, <1>2, <1>3, <1>4, InitType DEF A2aInv

LEMMA NextIsGood ==
    ASSUME A2aInv, [Next]_vars
    PROVE  A2aInv'
<1>1. CASE Next
  <2>1. TypeOK' BY <1>1, ClientType, LoopType, OrchestratorType, WorldType DEF Next
  <2> QED BY <1>1, <2>1, RequestsStep, RoomStep, MessagesStep, RunsStep, RealStep, ToldStep
         DEF A2aInv
<1>2. CASE UNCHANGED vars
  BY <1>2 DEF vars, A2aInv, TypeOK, RequestsOK, RoomOK, Fresh, Key, MessagesOK, GoodCommands,
        GoodOutcomes, RunsOK, Asked, Known, OutcomesAreReal, OneRunPerOperation
<1> QED BY <1>1, <1>2

LEMMA InvHolds == Spec => []A2aInv
<1>1. A2aInv /\ [Next]_vars => A2aInv' BY NextIsGood
<1> QED BY <1>1, InitIsGood, PTL DEF Spec

\* An outcome the supervisor holds or the bridge reports is one the worker
\* reached, whatever the broker repeats, reorders or loses (apply_a2a_event,
\* sync_managed_agent_projection_snapshot).
THEOREM OutcomesStayReal == Spec => []OutcomesAreReal
<1>1. A2aInv => OutcomesAreReal BY DEF A2aInv
<1> QED BY <1>1, InvHolds, PTL

\* However often an operation is repeated, and whatever happens between the
\* repetitions, all answers name one run (completed_operations).
THEOREM OperationsAreIdempotent == Spec => []OneRunPerOperation
<1>1. A2aInv => OneRunPerOperation BY DEF A2aInv
<1> QED BY <1>1, InvHolds, PTL

\* A run is cancelled, at the supervisor or at the worker, only when the
\* session that dispatched it asked for that (the parent scope in apply).
THEOREM CancellationsAreAsked == Spec => []CancelledOnRequest
<1>1. A2aInv => CancelledOnRequest BY DEF A2aInv, RunsOK, Asked, CancelledOnRequest
<1> QED BY <1>1, InvHolds, PTL

\* A run that has ended stays as it ended while its controller lives, although
\* outcomes are repeated and reordered (is_terminal in managed_agents.rs).
THEOREM EndedRunsStay == Spec => TerminalIsFinal
<1> DEFINE Stays == \A r \in RunIds :
                       Known(r) /\ is_terminal(run[r]) /\ attach' = attach => run'[r] = run[r]
<1>1. A2aInv /\ [Next]_vars => [Stays]_vars
  <2> SUFFICES ASSUME A2aInv, Next PROVE Stays OBVIOUS
  <2> QED BY RunsMove
<1> QED BY <1>1, InvHolds, PTL DEF Spec, TerminalIsFinal
=============================================================================
