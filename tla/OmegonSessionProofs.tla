------------------------- MODULE OmegonSessionProofs -------------------------
(***************************************************************************)
(* The connection is a request channel, acknowledgements have a subject,   *)
(* and snapshots of one process never regress: for any number of prompts,  *)
(* cancellations and upsets, and any capacity of the queues.               *)
(*                                                                         *)
(* What has to be known about the connection is where a command can be.    *)
(* Until its task has queued it, it is nowhere; after that it is in the    *)
(* queue once, or with Omegon, or has run; and a response about it is on   *)
(* the wire only after it has run.  What has to be known for the session   *)
(* is the shape of every event and snapshot on its way to it; the two      *)
(* facts about the session then follow event by event, and for a batch by  *)
(* induction on its length.                                                *)
(***************************************************************************)
EXTENDS OmegonSession, WellFoundedInduction, TLAPS

Requests == Calls \cup Refreshes

\* A snapshot numbers its session and its state, or neither.
GoodSnapshots == {s \in Snapshots : s.gen # None => s.frontier # None}

Happenings == [ev : {"turn_started", "turn_ended", "reset", "changed"}, at : Nat \X Nat]
Reconciliations == [ev : {"reconciled"}, snap : GoodSnapshots]
Responses ==
    [ev : {"response"}, to : Calls, status : {"accepted", "refused"}] \cup
    [ev : {"response"}, to : Refreshes, status : GoodSnapshots]
Outcomes ==
    [ev : {"outcome"}, kind : {"prompt", "cancel"},
     status : {"accepted", "refused", "failed"}, target : Targets \cup {None}]
Frames == Happenings \cup Reconciliations \cup Responses
Notices == [ev : {"required", "changed"}]

\* What may be in the inbox, and what the loop may get out of it.
InboxEvents == Happenings \cup Reconciliations \cup Outcomes
LoopEvents == InboxEvents \cup Notices

Tasks ==
    [at : {"none", "sending", "waiting", "told", "done"},
     told : {"none", "accepted", "refused", "failed"}, target : Targets \cup {None}]

Sessions ==
    [pending : Prompts \cup {None}, ack : BOOLEAN, cancelAck : BOOLEAN,
     runActive : BOOLEAN, auth : GoodSnapshots \cup {None}, target : Targets]

Servers ==
    [inst : Nat, gen : Nat, frontier : Nat, turn : Prompts \cup {None, "other"},
     queue : Seq(Prompts \cup {"other"}), up : BOOLEAN, build : Builds]

\* The shape of what is on its way to the session.
ShapeInv ==
    /\ srv \in Servers
    /\ fetched \in GoodSnapshots \cup {None}
    /\ link = "fetched" => fetched # None
    /\ wire \in Seq(Frames)
    /\ inbox \in Seq(InboxEvents)
    /\ loop \in [at : {"idle", "sending", "waiting", "failed"}] \cup
                [at : {"answered"}, snap : GoodSnapshots]
    /\ ses \in Sessions

\* Where command c is, given its task t, how often it ran, what Omegon has been
\* sent and not handled, and the queue of requests.
Placed(c, t, ran, unhandled, queue) ==
    /\ t.at \in {"none", "sending"} =>
          ran = 0 /\ c \notin unhandled /\ \A i \in DOMAIN queue : queue[i] # c
    /\ t.at \in {"told", "done"} => t.told # "none"
    /\ c \in unhandled => ran = 0
    /\ \A i \in DOMAIN queue : queue[i] = c =>
          /\ ran = 0 /\ c \notin unhandled
          /\ \A j \in DOMAIN queue : queue[j] = c => i = j

\* A response on the wire is about a command that ran.
RanFirst(frames, ran) ==
    \A i \in DOMAIN frames :
        frames[i].ev = "response" /\ frames[i].to \in Calls => ran[frames[i].to] = 1

\* Where each command is, and what has been said of it.
CallInv ==
    /\ task \in [Calls -> Tasks]
    /\ runs \in [Calls -> {0, 1}]
    /\ reqq \in Seq(Requests)
    /\ sent \subseteq Requests
    /\ actor \in Requests \cup {None}
    /\ \A c \in Calls : Placed(c, task[c], runs[c], sent, reqq)
    /\ RanFirst(wire, runs)

SessionInv == ShapeInv /\ CallInv /\ AcknowledgementsHaveASubject

-----------------------------------------------------------------------------
(* Induction over the naturals, for sets: the form the provers can use. *)

LEMMA LeastNumber ==
    ASSUME NEW T, T \subseteq Nat, T # {}
    PROVE  \E x \in T : \A y \in T : x <= y
<1> DEFINE R == OpToRel(<, Nat)
<1>1. IsWellFoundedOn(R, Nat) BY NatLessThanWellFounded
<1>2. \A x, y \in Nat : x < y => <<x, y>> \in R BY DEF OpToRel
<1> HIDE DEF R
<1>3. PICK x \in T : \A y \in T : ~ (<<y, x>> \in R) BY <1>1, WFMin
<1>4. \A y \in T : x <= y
  <2> TAKE y \in T
  <2>1. x \in Nat /\ y \in Nat OBVIOUS
  <2>2. ~ (y < x) BY <1>2, <1>3, <2>1
  <2> QED BY <2>1, <2>2
<1> QED BY <1>4

LEMMA SetInduction ==
    ASSUME NEW P, 0 \in P, \A n \in Nat : n \in P => n + 1 \in P
    PROVE  Nat \subseteq P
<1> SUFFICES ASSUME Nat \ P # {} PROVE FALSE OBVIOUS
<1>1. PICK x \in Nat \ P : \A y \in Nat \ P : x <= y BY LeastNumber
<1>2. x - 1 \in Nat BY <1>1
<1>3. x - 1 \in P BY <1>1, <1>2
<1> QED BY <1>1, <1>2, <1>3

-----------------------------------------------------------------------------
(* One event. *)

Acked(s) == (s.ack => s.pending # None) /\ (s.cancelAck => s.runActive)

\* s may follow r in a session: of one process and not older, or of another.
Follows(r, s) ==
    \/ r.auth = None
    \/ s.auth # None /\ s.auth.inst = r.auth.inst /\ NotOlder(s.auth, r.auth)

\* refresh_from_ipc_state, the guard against stale snapshots included
LEMMA RefreshedIsGood ==
    ASSUME NEW s \in Sessions, NEW snap \in GoodSnapshots
    PROVE  /\ Refreshed(s, snap) \in Sessions
           /\ Acked(s) => Acked(Refreshed(s, snap))
           /\ s.auth # None /\ s.auth.inst = snap.inst => Follows(s, Refreshed(s, snap))
<1> DEFINE replaced == s.auth # None /\ (s.auth.inst # snap.inst \/ s.auth.gen # snap.gen)
           pending == IF replaced THEN None ELSE s.pending
           ack == s.ack /\ ~replaced
           cancelAck == s.cancelAck /\ ~replaced /\ snap.busy
           active == snap.busy \/ snap.queued
           fresh == [s EXCEPT !.pending = pending, !.ack = ack, !.cancelAck = cancelAck,
                              !.runActive = active, !.auth = snap]
<1>1. Refreshed(s, snap) = IF IsStale(s.auth, snap) THEN s ELSE fresh
  BY DEF Refreshed
<1>2. snap.busy \in BOOLEAN /\ snap.queued \in BOOLEAN BY DEF GoodSnapshots, Snapshots
<1>3. /\ fresh \in Sessions /\ fresh.auth = snap
      /\ fresh.pending = pending /\ fresh.ack = ack
      /\ fresh.cancelAck = cancelAck /\ fresh.runActive = active
  <2>1. pending \in Prompts \cup {None} BY DEF Sessions
  <2>2. ack \in BOOLEAN /\ cancelAck \in BOOLEAN /\ active \in BOOLEAN OBVIOUS
  <2> HIDE DEF pending, ack, cancelAck, active
  <2> QED BY <2>1, <2>2 DEF Sessions
<1>5. Acked(s) => Acked(fresh)
  <2> HIDE DEF fresh
  <2> QED BY <1>2, <1>3 DEF Acked
<1>6. ASSUME s.auth # None, s.auth.inst = snap.inst, ~IsStale(s.auth, snap)
      PROVE  NotOlder(snap, s.auth)
  <2>1. s.auth \in GoodSnapshots BY <1>6 DEF Sessions
  <2>2. ~Regresses(s.auth.gen, snap.gen) BY <1>6 DEF IsStale
  <2>3. s.auth.gen = snap.gen => ~Regresses(s.auth.frontier, snap.frontier) BY <1>6 DEF IsStale
  <2>4. CASE s.auth.gen = None BY <2>4 DEF NotOlder
  <2>5. CASE s.auth.gen # None
    <3>1. s.auth.gen \in Nat /\ s.auth.frontier \in Nat /\ snap.gen \in Nat
      BY <2>1, <2>2, <2>5 DEF GoodSnapshots, Snapshots, Regresses
    <3>2. s.auth.frontier # None BY <2>1, <2>5 DEF GoodSnapshots
    <3>3. snap.frontier # None /\ snap.frontier \in Nat
      BY <3>1, IpcAssumption DEF GoodSnapshots, Snapshots
    <3>4. snap.gen >= s.auth.gen BY <2>2, <2>5, <3>1 DEF Regresses
    <3>5. snap.gen = s.auth.gen => snap.frontier >= s.auth.frontier
      BY <2>3, <3>1, <3>2, <3>3 DEF Regresses
    <3> QED BY <3>1, <3>4, <3>5, IpcAssumption DEF NotOlder
  <2> QED BY <2>4, <2>5
<1>7. s.auth # None => NotOlder(s.auth, s.auth)
  BY DEF NotOlder, Sessions, GoodSnapshots, Snapshots
<1>8. snap # None BY SessionAssumption DEF GoodSnapshots
<1> HIDE DEF fresh, replaced
<1> QED BY <1>1, <1>3, <1>5, <1>6, <1>7, <1>8 DEF Follows

LEMMA EventShapes ==
    ASSUME NEW e \in LoopEvents
    PROVE  /\ e.ev \in {"turn_started", "turn_ended", "reset", "changed", "reconciled",
                        "outcome", "required"}
           /\ e.ev = "reconciled" => e.snap \in GoodSnapshots
           /\ e.ev = "outcome" => /\ e.kind \in {"prompt", "cancel"}
                                  /\ e.status \in {"accepted", "refused", "failed"}
BY DEF LoopEvents, InboxEvents, Happenings, Reconciliations, Outcomes, Notices

\* No event leaves an acknowledgement without its subject, and a snapshot of the
\* session's own process is not older than the one it replaces.
LEMMA AppliedIsGood ==
    ASSUME NEW s \in Sessions, NEW e \in LoopEvents
    PROVE  /\ Apply(s, e) \in Sessions
           /\ Acked(s) => Acked(Apply(s, e))
           /\ s.auth # None /\ (e.ev = "reconciled" => e.snap.inst = s.auth.inst)
                => Follows(s, Apply(s, e))
<1> DEFINE Same(r) == r \in Sessions /\ (Acked(s) => Acked(r)) /\ r.auth = s.auth
<1>1. s.auth # None => NotOlder(s.auth, s.auth)
  BY DEF NotOlder, Sessions, GoodSnapshots, Snapshots
<1>2. ASSUME NEW r, Same(r)
      PROVE  s.auth # None => Follows(s, r)
  BY <1>1, <1>2 DEF Follows
<1>3. CASE e.ev = "reconciled"
  <2>1. Apply(s, e) = Refreshed(s, e.snap) BY <1>3 DEF Apply
  <2> QED BY <2>1, <1>3, RefreshedIsGood, EventShapes
<1>4. CASE e.ev = "turn_started"
  <2>1. Apply(s, e) = TurnStarted(s) BY <1>4 DEF Apply
  <2>2. Same(TurnStarted(s)) BY DEF TurnStarted, Sessions, Acked
  <2> QED BY <1>2, <1>4, <2>1, <2>2
<1>5. CASE e.ev = "turn_ended"
  <2>1. Apply(s, e) = TurnEnded(s) BY <1>5 DEF Apply
  <2>2. Same(TurnEnded(s)) BY DEF TurnEnded, Sessions, Acked
  <2> QED BY <1>2, <1>5, <2>1, <2>2
<1>6. CASE e.ev = "reset"
  <2>1. Apply(s, e) = SessionReset(s) BY <1>6 DEF Apply
  <2>2. Same(SessionReset(s)) BY DEF SessionReset, Sessions, Acked
  <2> QED BY <1>2, <1>6, <2>1, <2>2
<1>7. CASE e.ev \in {"changed", "required"}
  <2>1. Apply(s, e) = s BY <1>7 DEF Apply
  <2> QED BY <1>2, <1>7, <2>1
<1>8. CASE e.ev = "outcome"
  <2> DEFINE r == OutcomeApplied(s, e.kind, e.status)
  <2>1. Apply(s, e) = IF e.target # s.target THEN s ELSE r BY <1>8 DEF Apply
  <2>2. e.kind \in {"prompt", "cancel"} BY <1>8, EventShapes
  <2>3. ASSUME e.kind = "prompt" /\ s.pending = None PROVE Same(r)
    <3>1. r = s BY <2>3 DEF OutcomeApplied
    <3> QED BY <3>1
  <2>4. ASSUME e.kind = "prompt" /\ s.pending # None /\ e.status = "accepted" PROVE Same(r)
    <3>1. r = [s EXCEPT !.ack = TRUE] BY <2>4 DEF OutcomeApplied
    <3> QED BY <2>4, <3>1 DEF Sessions, Acked
  <2>5. ASSUME e.kind = "prompt" /\ s.pending # None /\ e.status # "accepted" PROVE Same(r)
    <3>1. r = [s EXCEPT !.pending = None, !.ack = FALSE] BY <2>5 DEF OutcomeApplied
    <3> QED BY <2>5, <3>1 DEF Sessions, Acked
  <2>6. ASSUME e.kind = "cancel" PROVE Same(r)
    <3> DEFINE told == e.status = "accepted" /\ s.runActive
    <3>1. r = [s EXCEPT !.cancelAck = told] BY <2>6 DEF OutcomeApplied
    <3>2. told \in BOOLEAN /\ (told => s.runActive) OBVIOUS
    <3> HIDE DEF told
    <3> QED BY <2>6, <3>1, <3>2 DEF Sessions, Acked
  <2>7. Same(r) BY <2>2, <2>3, <2>4, <2>5, <2>6
  <2> HIDE DEF r
  <2> QED BY <1>2, <1>8, <2>1, <2>7
<1> QED BY <1>3, <1>4, <1>5, <1>6, <1>7, <1>8, EventShapes

-----------------------------------------------------------------------------
(* A batch of events: what ApplyAll computes, by induction on its length. *)

IsRun(f, n, s, events) ==
    f = [i \in 0..n |-> IF i = 0 THEN s ELSE Apply(f[i - 1], events[i])]

LEMMA RunExists ==
    ASSUME NEW s, NEW events
    PROVE  \A n \in Nat : \E f : IsRun(f, n, s, events)
<1> DEFINE P == {n \in Nat : \E f : IsRun(f, n, s, events)}
<1>1. 0 \in P
  <2>1. IsRun([i \in 0..0 |-> s], 0, s, events) BY DEF IsRun
  <2> QED BY <2>1
<1>2. ASSUME NEW n \in Nat, n \in P PROVE n + 1 \in P
  <2>1. PICK f : IsRun(f, n, s, events) BY <1>2
  <2> DEFINE g == [i \in 0..(n + 1) |->
                      IF i = n + 1 THEN Apply(f[n], events[n + 1]) ELSE f[i]]
             h == [i \in 0..(n + 1) |-> IF i = 0 THEN s ELSE Apply(g[i - 1], events[i])]
  <2>2. \A i \in 0..n : f[i] = IF i = 0 THEN s ELSE Apply(f[i - 1], events[i])
    BY <2>1 DEF IsRun
  <2>3. \A i \in 0..(n + 1) : g[i] = IF i = 0 THEN s ELSE Apply(g[i - 1], events[i])
    <3> TAKE i \in 0..(n + 1)
    <3>1. CASE i = n + 1
      <4>1. g[i] = Apply(f[n], events[n + 1]) /\ g[n] = f[n] BY <3>1
      <4>2. i # 0 /\ i - 1 = n BY <3>1
      <4> HIDE DEF g
      <4> QED BY <3>1, <4>1, <4>2
    <3>2. CASE i # n + 1
      <4>1. i \in 0..n /\ g[i] = f[i] BY <3>2
      <4>2. i # 0 => i - 1 \in 0..n /\ g[i - 1] = f[i - 1] BY <3>2
      <4> HIDE DEF g
      <4> QED BY <2>2, <4>1, <4>2
    <3> QED BY <3>1, <3>2
  <2>4. g = h
    <3>1. g = [i \in 0..(n + 1) |-> g[i]] /\ h = [i \in 0..(n + 1) |-> h[i]] OBVIOUS
    <3> HIDE DEF g
    <3> QED BY <2>3, <3>1
  <2> HIDE DEF g
  <2> QED BY <2>4 DEF IsRun
<1> HIDE DEF P
<1>3. Nat \subseteq P BY <1>1, <1>2, SetInduction
<1> QED BY <1>3 DEF P

LEMMA ApplyAllUnrolls ==
    ASSUME NEW s, NEW events \in Seq(LoopEvents)
    PROVE  \E f : IsRun(f, Len(events), s, events) /\ ApplyAll(s, events) = f[Len(events)]
<1> DEFINE F == CHOOSE f : IsRun(f, Len(events), s, events)
<1>1. IsRun(F, Len(events), s, events) BY RunExists
<1>2. ApplyAll(s, events) = F[Len(events)] BY DEF ApplyAll, IsRun
<1> QED BY <1>1, <1>2

\* Following is transitive within one process.
LEMMA FollowsTransitive ==
    ASSUME NEW r \in Sessions, NEW s \in Sessions, NEW u \in Sessions,
           r.auth # None, Follows(r, s), Follows(s, u)
    PROVE  Follows(r, u)
<1>1. s.auth # None /\ s.auth.inst = r.auth.inst /\ NotOlder(s.auth, r.auth) BY DEF Follows
<1>2. u.auth # None /\ u.auth.inst = s.auth.inst /\ NotOlder(u.auth, s.auth)
  BY <1>1 DEF Follows
<1>3. r.auth \in GoodSnapshots /\ s.auth \in GoodSnapshots /\ u.auth \in GoodSnapshots
  BY <1>1, <1>2 DEF Sessions
<1>4. NotOlder(u.auth, r.auth)
  <2>1. CASE r.auth.gen = None BY <2>1 DEF NotOlder
  <2>2. CASE r.auth.gen # None
    <3>1. r.auth.gen \in Nat /\ r.auth.frontier \in Nat
      BY <1>3, <2>2 DEF GoodSnapshots, Snapshots
    <3>2. s.auth.gen # None /\ s.auth.gen \in Nat /\ s.auth.frontier \in Nat
      BY <1>1, <1>3, <2>2 DEF GoodSnapshots, Snapshots, NotOlder
    <3>3. u.auth.gen # None /\ u.auth.gen \in Nat /\ u.auth.frontier \in Nat
      BY <1>2, <1>3, <3>2 DEF GoodSnapshots, Snapshots, NotOlder
    <3> QED BY <1>1, <1>2, <2>2, <3>1, <3>2, <3>3 DEF NotOlder
  <2> QED BY <2>1, <2>2
<1> QED BY <1>1, <1>2, <1>4 DEF Follows

LEMMA BatchIsGood ==
    ASSUME NEW s \in Sessions, NEW events \in Seq(LoopEvents)
    PROVE  /\ ApplyAll(s, events) \in Sessions
           /\ Acked(s) => Acked(ApplyAll(s, events))
           /\ /\ s.auth # None
              /\ \A i \in DOMAIN events :
                    events[i].ev = "reconciled" => events[i].snap.inst = s.auth.inst
              => Follows(s, ApplyAll(s, events))
<1>1. PICK f : IsRun(f, Len(events), s, events) /\ ApplyAll(s, events) = f[Len(events)]
  BY ApplyAllUnrolls
<1> DEFINE one == /\ s.auth # None
                  /\ \A i \in DOMAIN events :
                        events[i].ev = "reconciled" => events[i].snap.inst = s.auth.inst
           Good(r) == r \in Sessions /\ (Acked(s) => Acked(r)) /\ (one => Follows(s, r))
           P == {n \in Nat : n <= Len(events) => Good(f[n])}
<1>2. \A i \in 0..Len(events) : f[i] = IF i = 0 THEN s ELSE Apply(f[i - 1], events[i])
  BY <1>1 DEF IsRun
<1>3. 0 \in P
  <2>1. f[0] = s BY <1>2
  <2>2. s.auth # None => NotOlder(s.auth, s.auth)
    BY DEF NotOlder, Sessions, GoodSnapshots, Snapshots
  <2>3. Good(s) BY <2>2 DEF Follows
  <2> QED BY <2>1, <2>3
<1>4. ASSUME NEW n \in Nat, n \in P PROVE n + 1 \in P
  <2> SUFFICES ASSUME n + 1 <= Len(events) PROVE Good(f[n + 1]) OBVIOUS
  <2>1. Good(f[n]) BY <1>4
  <2>2. f[n + 1] = Apply(f[n], events[n + 1]) BY <1>2
  <2>3. n + 1 \in DOMAIN events /\ events[n + 1] \in LoopEvents OBVIOUS
  <2> DEFINE e == events[n + 1]
  <2>4. one => f[n].auth # None /\ (e.ev = "reconciled" => e.snap.inst = f[n].auth.inst)
    BY <2>1, <2>3 DEF Follows
  <2> HIDE DEF e
  <2>5. one => Follows(f[n], Apply(f[n], e)) BY <2>1, <2>3, <2>4, AppliedIsGood DEF e
  <2>6. Apply(f[n], e) \in Sessions /\ (Acked(s) => Acked(Apply(f[n], e)))
    BY <2>1, <2>3, AppliedIsGood DEF e
  <2> QED BY <2>1, <2>2, <2>5, <2>6, FollowsTransitive DEF e
<1> HIDE DEF P
<1>5. Nat \subseteq P BY <1>3, <1>4, SetInduction
<1>6. Good(f[Len(events)]) BY <1>5 DEF P
<1> QED BY <1>1, <1>6

-----------------------------------------------------------------------------
(* What is on its way to the session keeps its shape. *)

LEMMA SnapshotIsGood ==
    ASSUME srv \in Servers
    PROVE  Snapshot \in GoodSnapshots
BY IpcAssumption DEF Snapshot, Servers, GoodSnapshots, Snapshots

LEMMA PushKeepsShape ==
    ASSUME inbox \in Seq(InboxEvents), NEW e \in InboxEvents, PushInbox(e)
    PROVE  inbox' \in Seq(InboxEvents)
<1>1. CASE Len(inbox) = InboxCap
  <2>1. inbox # <<>> BY <1>1, IpcAssumption
  <2>2. inbox' = Append(Tail(inbox), e) BY <1>1 DEF PushInbox, Push
  <2> QED BY <2>1, <2>2
<1>2. CASE Len(inbox) # InboxCap
  <2>1. inbox' = Append(inbox, e) BY <1>2 DEF PushInbox, Push
  <2> QED BY <2>1
<1> QED BY <1>1, <1>2

LEMMA EmitKeepsShape ==
    ASSUME wire \in Seq(Frames), NEW frames \in Seq(Frames), Emit(frames)
    PROVE  wire' \in Seq(Frames)
BY DEF Emit

LEMMA EventIsFrame ==
    ASSUME srv \in Servers, NEW kind \in {"turn_started", "turn_ended", "reset", "changed"}
    PROVE  Event(kind) \in Happenings
BY DEF Event, Epoch, Happenings, Servers

LEMMA InitShape == Init => ShapeInv
<1> SUFFICES ASSUME Init PROVE ShapeInv OBVIOUS
<1>1. srv \in Servers
  <2>1. srv \in NewServer BY DEF Init, IpcInit
  <2>2. <<>> \in Seq(Prompts \cup {"other"}) OBVIOUS
  <2>3. PICK b \in Builds :
          srv = [inst |-> 1, gen |-> 1, frontier |-> 0, turn |-> None, queue |-> <<>>,
                 up |-> TRUE, build |-> b]
    BY <2>1 DEF NewServer
  <2> QED BY <2>2, <2>3 DEF Servers
<1>2. ses \in Sessions
  <2>1. Targets # {} BY SessionAssumption
  <2>2. (CHOOSE t \in Targets : TRUE) \in Targets BY <2>1
  <2> QED BY <2>2 DEF Init, Sessions
<1> QED BY <1>1, <1>2 DEF Init, IpcInit, ShapeInv, InboxEvents, Frames

LEMMA FailCallerShape ==
    ASSUME ShapeInv, NEW r, FailCaller(r)
    PROVE  loop' \in [at : {"idle", "sending", "waiting", "failed"}] \cup
                     [at : {"answered"}, snap : GoodSnapshots]
BY DEF FailCaller, ShapeInv

\* The callers: nothing moves but what they put into the inbox.
LEMMA CallersKeepShape ==
    ASSUME ShapeInv, CallInv, UNCHANGED ses,
           \/ \E c \in Calls : TaskStep(c)
           \/ SendRefresh \/ RefreshExpires
    PROVE  ShapeInv'
<1>1. ASSUME NEW c \in Calls, SendRequest(c) \/ RequestTimesOut(c) PROVE ShapeInv'
  BY <1>1 DEF SendRequest, RequestTimesOut, ShapeInv
<1>2. ASSUME NEW c \in Calls, PublishOutcome(c) PROVE ShapeInv'
  <2>1. task[c] \in Tasks BY DEF CallInv
  <2>2. task[c].told \in {"accepted", "refused", "failed"}
    BY <1>2, <2>1 DEF PublishOutcome, CallInv, Placed, Tasks
  <2>3. Outcome(c, task[c].told, task[c].target) \in InboxEvents
    BY <2>1, <2>2 DEF Outcome, Outcomes, InboxEvents, Tasks
  <2>4. inbox' \in Seq(InboxEvents)
    BY <1>2, <2>3, PushKeepsShape DEF PublishOutcome, ShapeInv
  <2> QED BY <1>2, <2>4 DEF PublishOutcome, ShapeInv
<1>3. CASE SendRefresh BY <1>3 DEF SendRefresh, ShapeInv
<1>4. CASE RefreshExpires BY <1>4 DEF RefreshExpires, ShapeInv
<1> QED BY <1>1, <1>2, <1>3, <1>4 DEF TaskStep

\* The actor.
LEMMA ActorKeepsShape ==
    ASSUME ShapeInv, CallInv, UNCHANGED ses, ActorStep \/ ActorTimesOut
    PROVE  ShapeInv'
<1>1. CASE Connect
  <2>1. Snapshot \in GoodSnapshots BY SnapshotIsGood DEF ShapeInv
  <2>2. Snapshot # None BY <2>1, SessionAssumption DEF GoodSnapshots
  <2> QED BY <1>1, <2>1, <2>2 DEF Connect, ShapeInv
<1>2. CASE Subscribe
  <2>1. fetched \in GoodSnapshots BY <1>2 DEF Subscribe, ShapeInv
  <2>2. Reconciled(fetched) \in InboxEvents
    BY <2>1 DEF Reconciled, Reconciliations, InboxEvents
  <2>3. inbox' \in Seq(InboxEvents) BY <1>2, <2>2, PushKeepsShape DEF Subscribe, ShapeInv
  <2> QED BY <1>2, <2>3 DEF Subscribe, ShapeInv
<1>3. CASE AttachFails BY <1>3 DEF AttachFails, ShapeInv
<1>4. CASE TakeUnsupported
  <2>1. FailCaller(Head(reqq)) BY <1>4 DEF TakeUnsupported
  <2> QED BY <1>4, <2>1, FailCallerShape DEF TakeUnsupported, ShapeInv
<1>5. CASE TakeRequest BY <1>5 DEF TakeRequest, ShapeInv
<1>6. CASE WriteFails
  <2>1. FailCaller(Head(reqq)) BY <1>6 DEF WriteFails
  <2> QED BY <1>6, <2>1, FailCallerShape DEF WriteFails, ShapeInv
<1>7. CASE ReadFrame
  <2> DEFINE f == Head(wire)
  <2>1. wire # <<>> /\ wire \in Seq(Frames) BY <1>7 DEF ReadFrame, ShapeInv
  <2>2. f \in Frames /\ wire' \in Seq(Frames) BY <1>7, <2>1 DEF ReadFrame
  <2> HIDE DEF f
  <2>3. ASSUME f.ev # "response", PushInbox(f), UNCHANGED loop
        PROVE  ShapeInv'
    <3>1. f \in InboxEvents BY <2>2, <2>3 DEF Frames, Responses, InboxEvents
    <3>2. inbox' \in Seq(InboxEvents) BY <2>3, <3>1, PushKeepsShape DEF ShapeInv
    <3> QED BY <1>7, <2>2, <2>3, <3>2 DEF ReadFrame, ShapeInv
  <2>4. ASSUME f.ev = "response", f.to = actor \/ {f.to, actor} = Refreshes,
               AnswerCaller(actor, f.status), UNCHANGED inbox
        PROVE  ShapeInv'
    <3>1. f \in Responses BY <2>2, <2>4 DEF Frames, Happenings, Reconciliations
    <3>2. ASSUME actor = "refresh" PROVE f.status \in GoodSnapshots
      <4>1. f.to \in Refreshes BY <2>4, <3>2 DEF Refreshes
      <4>2. f.to \notin Calls BY <4>1, IpcAssumption DEF Refreshes, Calls
      <4> QED BY <3>1, <4>2 DEF Responses
    <3>3. \/ loop' = loop
          \/ loop' = [at |-> "answered", snap |-> f.status] /\ f.status \in GoodSnapshots
      BY <2>4, <3>2 DEF AnswerCaller
    <3> QED BY <1>7, <2>2, <2>4, <3>3 DEF ReadFrame, ShapeInv
  <2> QED BY <1>7, <2>3, <2>4 DEF ReadFrame, f
<1>8. CASE ReadFails
  <2>1. FailCaller(actor) BY <1>8 DEF ReadFails, Disconnect
  <2> QED BY <1>8, <2>1, FailCallerShape DEF ReadFails, Disconnect, ShapeInv
<1>9. CASE ActorTimesOut
  <2>1. FailCaller(actor) BY <1>9 DEF ActorTimesOut, Disconnect
  <2> QED BY <1>9, <2>1, FailCallerShape DEF ActorTimesOut, Disconnect, ShapeInv
<1> QED BY <1>1, <1>2, <1>3, <1>4, <1>5, <1>6, <1>7, <1>8, <1>9 DEF ActorStep

LEMMA ToActorIsFrames ==
    ASSUME NEW c \in Calls, NEW status \in {"accepted", "refused"}
    PROVE  ToActor(c, status) \in Seq(Frames)
<1>1. Response(c, status) \in Frames BY DEF Response, Frames, Responses
<1> QED BY <1>1 DEF ToActor

\* Omegon and what happens to it.
LEMMA OmegonKeepsShape ==
    ASSUME ShapeInv, CallInv, UNCHANGED ses,
           HandleRequest \/ StartTurn \/ EndTurn \/ Environment
    PROVE  ShapeInv'
<1> USE DEF ShapeInv
<1>0. \A kind \in {"turn_started", "turn_ended", "reset", "changed"} :
         <<Event(kind)>> \in Seq(Frames)
  BY EventIsFrame DEF Frames
<1>1. ASSUME NEW p \in Prompts, HandlePrompt(p) PROVE ShapeInv'
  <2>0. p \in Calls BY DEF Calls
  <2>1. ASSUME srv' = [srv EXCEPT !.queue = Append(@, p), !.frontier = @ + 1],
               Emit(<<Event("changed")>> \o ToActor(p, "accepted"))
        PROVE  ShapeInv'
    <3>1. wire' \in Seq(Frames)
      <4>1. <<Event("changed")>> \o ToActor(p, "accepted") \in Seq(Frames)
        BY <1>0, <2>0, ToActorIsFrames
      <4> QED BY <2>1, <4>1, EmitKeepsShape
    <3>2. Append(srv.queue, p) \in Seq(Prompts \cup {"other"}) /\ srv.frontier + 1 \in Nat
      BY DEF Servers
    <3>3. srv' \in Servers BY <2>1, <3>2 DEF Servers
    <3> QED BY <1>1, <3>1, <3>3 DEF HandlePrompt
  <2>2. ASSUME UNCHANGED srv, Emit(ToActor(p, "refused")) PROVE ShapeInv'
    <3>1. wire' \in Seq(Frames) BY <2>0, <2>2, ToActorIsFrames, EmitKeepsShape
    <3> QED BY <1>1, <2>2, <3>1 DEF HandlePrompt
  <2> QED BY <1>1, <2>1, <2>2 DEF HandlePrompt
<1>2. ASSUME NEW c \in Cancels, HandleCancel(c) PROVE ShapeInv'
  <2> DEFINE status == IF srv.turn = None THEN "refused" ELSE "accepted"
  <2>1. c \in Calls /\ status \in {"accepted", "refused"} BY DEF Calls
  <2>2. Emit(ToActor(c, status)) BY <1>2 DEF HandleCancel
  <2>3. wire' \in Seq(Frames) BY <2>1, <2>2, ToActorIsFrames, EmitKeepsShape
  <2> QED BY <1>2, <2>3 DEF HandleCancel
<1>3. CASE HandleGetState
  <2>1. PICK r \in sent \cap Refreshes : Emit(<<Response(r, Snapshot)>>)
    BY <1>3 DEF HandleGetState
  <2>2. Response(r, Snapshot) \in Frames BY SnapshotIsGood DEF Response, Frames, Responses
  <2>3. wire' \in Seq(Frames)
    <3>1. <<Response(r, Snapshot)>> \in Seq(Frames) BY <2>2
    <3> QED BY <2>1, <3>1, EmitKeepsShape
  <2> QED BY <1>3, <2>3 DEF HandleGetState
<1>4. CASE StartTurn
  <2>1. wire' \in Seq(Frames) BY <1>0, <1>4, EmitKeepsShape DEF StartTurn
  <2>2. /\ Head(srv.queue) \in Prompts \cup {None, "other"}
        /\ Tail(srv.queue) \in Seq(Prompts \cup {"other"}) /\ srv.frontier + 1 \in Nat
    BY <1>4 DEF StartTurn, Servers
  <2>3. srv' \in Servers BY <1>4, <2>2 DEF StartTurn, Servers
  <2> QED BY <1>4, <2>1, <2>3 DEF StartTurn
<1>5. CASE EndTurn
  <2>1. wire' \in Seq(Frames) BY <1>0, <1>5, EmitKeepsShape DEF EndTurn
  <2>2. srv.frontier + 1 \in Nat BY DEF Servers
  <2>3. srv' \in Servers BY <1>5, <2>2 DEF EndTurn, Servers
  <2> QED BY <1>5, <2>1, <2>3 DEF EndTurn
<1>6. CASE OtherPrompt
  <2>1. wire' \in Seq(Frames) BY <1>0, <1>6, EmitKeepsShape DEF OtherPrompt
  <2>2. /\ Append(srv.queue, "other") \in Seq(Prompts \cup {"other"})
        /\ srv.frontier + 1 \in Nat
    BY DEF Servers
  <2>3. srv' \in Servers BY <1>6, <2>2 DEF OtherPrompt, Servers
  <2> QED BY <1>6, <2>1, <2>3 DEF OtherPrompt
<1>7. CASE ResetSession
  <2>1. wire' \in Seq(Frames) BY <1>0, <1>7, EmitKeepsShape DEF ResetSession
  <2>2. srv.gen + 1 \in Nat /\ <<>> \in Seq(Prompts \cup {"other"}) BY DEF Servers
  <2>3. srv' \in Servers BY <1>7, <2>2 DEF ResetSession, Servers
  <2> QED BY <1>7, <2>1, <2>3 DEF ResetSession
<1>8. CASE Lag
  <2>1. Reconciled(Snapshot) \in Frames
    BY SnapshotIsGood DEF Reconciled, Reconciliations, Frames
  <2>2. wire' \in Seq(Frames)
    <3>1. CASE wire' = <<Reconciled(Snapshot)>> BY <2>1, <3>1
    <3>2. ASSUME NEW i \in DOMAIN wire, wire' = <<wire[i], Reconciled(Snapshot)>>
          PROVE  wire' \in Seq(Frames)
      <4>1. wire[i] \in Frames OBVIOUS
      <4> QED BY <2>1, <3>2, <4>1
    <3> QED BY <1>8, <3>1, <3>2 DEF Lag
  <2> QED BY <1>8, <2>2 DEF Lag
<1>9. CASE CloseSocket BY <1>9 DEF CloseSocket
<1>10. CASE Crash
  <2>1. srv' \in Servers BY <1>10 DEF Crash, Servers
  <2> QED BY <1>10, <2>1 DEF Crash
<1>11. CASE Restart
  <2>1. srv.inst + 1 \in Nat /\ <<>> \in Seq(Prompts \cup {"other"}) BY DEF Servers
  <2>2. srv' \in Servers BY <1>11, <2>1 DEF Restart, Servers
  <2> QED BY <1>11, <2>2 DEF Restart
<1> QED BY <1>1, <1>2, <1>3, <1>4, <1>5, <1>6, <1>7, <1>8, <1>9, <1>10, <1>11
       DEF HandleRequest, Environment

\* The operator and the app loop: the session keeps its shape and its
\* acknowledgements their subjects.
LEMMA DrainedIsGood ==
    ASSUME ShapeInv
    PROVE  Drained \in Seq(LoopEvents)
<1>1. inbox \in Seq(LoopEvents)
  BY DEF ShapeInv, LoopEvents
<1>2. Notice("required") \in LoopEvents /\ Notice("changed") \in LoopEvents
  BY DEF Notice, Notices, LoopEvents
<1>3. <<Notice("required"), Notice("changed")>> \in Seq(LoopEvents) BY <1>2
<1>4. CASE saturated BY <1>1, <1>3, <1>4 DEF Drained
<1>5. CASE ~saturated
  <2>1. Drained = inbox \o <<>> BY <1>5 DEF Drained
  <2> QED BY <1>1, <2>1
<1> QED BY <1>4, <1>5

LEMMA SessionKeepsShape ==
    ASSUME ShapeInv, CallInv, Acked(ses),
           \/ LoopStep
           \/ \E p \in Prompts : Submit(p) \/ QueueAnyway(p)
           \/ \E c \in Cancels : Cancel(c)
           \/ \E t \in Targets : SelectRoute(t)
    PROVE  ShapeInv' /\ Acked(ses')
<1>1. CASE Drain
  <2>1. ses' = ApplyAll(ses, Drained) BY <1>1 DEF Drain
  <2>2. ses' \in Sessions /\ Acked(ses') BY <2>1, DrainedIsGood, BatchIsGood DEF ShapeInv
  <2>3. inbox' \in Seq(InboxEvents) BY <1>1 DEF Drain
  <2>4. loop' = loop \/ loop' = [at |-> SendStage] BY <1>1 DEF Drain
  <2>5. SendStage \in {"waiting", "sending"} BY DEF SendStage
  <2> QED BY <1>1, <2>2, <2>3, <2>4, <2>5 DEF Drain, ShapeInv
<1>2. CASE FinishRefresh
  <2>1. loop.at = "answered" => loop.snap \in GoodSnapshots BY DEF ShapeInv
  <2>2. ses' \in Sessions /\ Acked(ses')
    BY <1>2, <2>1, RefreshedIsGood DEF FinishRefresh, ShapeInv
  <2> QED BY <1>2, <2>2 DEF FinishRefresh, ShapeInv
<1>3. ASSUME NEW p \in Prompts, Submit(p) PROVE ShapeInv' /\ Acked(ses')
  <2>1. p # None BY IpcAssumption
  <2>2. ses' \in Sessions /\ Acked(ses')
    BY <1>3, <2>1 DEF Submit, ShapeInv, Sessions, Acked
  <2> QED BY <1>3, <2>2 DEF Submit, Dispatch, ShapeInv
<1>4. ASSUME NEW p \in Prompts, QueueAnyway(p) PROVE ShapeInv' /\ Acked(ses')
  BY <1>4 DEF QueueAnyway, Dispatch, ShapeInv
<1>5. ASSUME NEW c \in Cancels, Cancel(c) PROVE ShapeInv' /\ Acked(ses')
  BY <1>5 DEF Cancel, Dispatch, ShapeInv
<1>6. ASSUME NEW t \in Targets, SelectRoute(t) PROVE ShapeInv' /\ Acked(ses')
  <2>1. ses' \in Sessions /\ Acked(ses')
    BY <1>6 DEF SelectRoute, ShapeInv, Sessions, Acked
  <2> QED BY <1>6, <2>1 DEF SelectRoute, ShapeInv
<1> QED BY <1>1, <1>2, <1>3, <1>4, <1>5, <1>6 DEF LoopStep

-----------------------------------------------------------------------------
(* Where a command can be. *)

\* Another request joins the queue.
LEMMA PlacedAppendOther ==
    ASSUME NEW c \in Calls, NEW t, NEW n, NEW s, NEW q \in Seq(Requests),
           NEW r \in Requests, r # c, Placed(c, t, n, s, q)
    PROVE  Placed(c, t, n, s, Append(q, r))
<1>1. \A i \in DOMAIN Append(q, r) : Append(q, r)[i] = c => i \in DOMAIN q /\ q[i] = c
  OBVIOUS
<1> QED BY <1>1 DEF Placed

\* The command itself joins the queue.
LEMMA PlacedAppendSelf ==
    ASSUME NEW c \in Calls, NEW t, NEW u, NEW n, NEW s, NEW q \in Seq(Requests),
           t.at \in {"none", "sending"}, u.at = "waiting", Placed(c, t, n, s, q)
    PROVE  Placed(c, u, n, s, Append(q, c))
<1>1. \A i \in DOMAIN q : q[i] # c BY DEF Placed
<1>2. \A i \in DOMAIN Append(q, c) : Append(q, c)[i] = c => i = Len(q) + 1 BY <1>1
<1>3. n = 0 /\ c \notin s BY DEF Placed
<1> QED BY <1>2, <1>3 DEF Placed

\* The head of the queue leaves it.
LEMMA PlacedTail ==
    ASSUME NEW c \in Calls, NEW t, NEW n, NEW s, NEW q \in Seq(Requests), q # <<>>,
           Placed(c, t, n, s, q)
    PROVE  Placed(c, t, n, s, Tail(q))
<1>1. \A i \in DOMAIN Tail(q) : i + 1 \in DOMAIN q /\ Tail(q)[i] = q[i + 1] OBVIOUS
<1>2. \A i, j \in DOMAIN Tail(q) : i + 1 = j + 1 => i = j OBVIOUS
<1> QED BY <1>1, <1>2 DEF Placed

\* The head of the queue leaves it for Omegon.
LEMMA PlacedSent ==
    ASSUME NEW c \in Calls, NEW t, NEW n, NEW s, NEW q \in Seq(Requests), q # <<>>,
           Placed(c, t, n, s, q)
    PROVE  Placed(c, t, n, s \cup {Head(q)}, Tail(q))
<1>1. Placed(c, t, n, s, Tail(q)) BY PlacedTail
<1>2. CASE Head(q) # c BY <1>1, <1>2 DEF Placed
<1>3. CASE Head(q) = c
  <2>1. 1 \in DOMAIN q /\ q[1] = c BY <1>3
  <2>2. n = 0 /\ t.at \notin {"none", "sending"} BY <2>1 DEF Placed
  <2>3. \A i \in DOMAIN Tail(q) : Tail(q)[i] # c
    <3> SUFFICES ASSUME NEW i \in DOMAIN Tail(q), Tail(q)[i] = c PROVE FALSE OBVIOUS
    <3>1. i + 1 \in DOMAIN q /\ q[i + 1] = c /\ i \in Nat /\ i # 0 OBVIOUS
    <3>2. 1 = i + 1 BY <2>1, <3>1 DEF Placed
    <3> QED BY <3>1, <3>2
  <2> QED BY <1>1, <2>2, <2>3 DEF Placed
<1> QED BY <1>2, <1>3

\* The loop stops waiting: its own request is renamed, the commands are not.
LEMMA PlacedAbandon ==
    ASSUME NEW c \in Calls, NEW t, NEW n, NEW s, NEW q \in Seq(Requests),
           Placed(c, t, n, s, q)
    PROVE  Placed(c, t, n, s, Abandon(q)) /\ Abandon(q) \in Seq(Requests)
<1>1. "abandoned" \in Requests /\ c # "abandoned"
  BY IpcAssumption DEF Requests, Refreshes, Calls
<1>2. Abandon(q) \in Seq(Requests) BY <1>1 DEF Abandon
<1>3. DOMAIN Abandon(q) = DOMAIN q
       /\ \A i \in DOMAIN q : Abandon(q)[i] = c => q[i] = c
  BY <1>1 DEF Abandon
<1> QED BY <1>2, <1>3 DEF Placed

\* Whatever answer a caller gets, the command stays where it is.
LEMMA AnsweredIsPlaced ==
    ASSUME CallInv, NEW r, NEW status,
           r \in Calls => status \in {"accepted", "refused", "failed"}
    PROVE  /\ Answered(r, status) \in [Calls -> Tasks]
           /\ \A c \in Calls :
                 \/ Answered(r, status)[c] = task[c]
                 \/ /\ c = r /\ task[c].at \in {"sending", "waiting"}
                    /\ Answered(r, status)[c].at = "told"
                    /\ Answered(r, status)[c].told = status
           /\ \A c \in Calls : Placed(c, Answered(r, status)[c], runs[c], sent, reqq)
<1>1. CASE ~(r \in Calls /\ task[r].at \in {"sending", "waiting"})
  BY <1>1 DEF Answered, CallInv
<1>2. CASE r \in Calls /\ task[r].at \in {"sending", "waiting"}
  <2> DEFINE a == [task[r] EXCEPT !.at = "told", !.told = status]
  <2>1. task[r] \in Tasks BY <1>2 DEF CallInv
  <2>2. a \in Tasks /\ a.at = "told" /\ a.told = status BY <1>2, <2>1 DEF Tasks
  <2>3. Answered(r, status) = [task EXCEPT ![r] = a]
    BY <1>2, <2>1 DEF Answered, CallInv, Tasks
  <2> HIDE DEF a
  <2>4. /\ Answered(r, status) \in [Calls -> Tasks] /\ Answered(r, status)[r] = a
        /\ \A c \in Calls : c # r => Answered(r, status)[c] = task[c]
    BY <1>2, <2>2, <2>3 DEF CallInv
  <2>5. Placed(r, a, runs[r], sent, reqq) BY <1>2, <2>2 DEF CallInv, Placed
  <2> QED BY <1>2, <2>2, <2>4, <2>5 DEF CallInv
<1> QED BY <1>1, <1>2

LEMMA InitCalls == Init => CallInv
BY DEF Init, IpcInit, CallInv, Tasks, Requests, Placed, RanFirst

ChannelStep == [Channel!ChannelNext]_<<Said, runs>>

\* An answer is the end of a call, or is not heard.
LEMMA AnsweredIsChannel ==
    ASSUME CallInv, NEW r, NEW status, task' = Answered(r, status), UNCHANGED runs,
           r \in Calls => /\ status \in {"accepted", "refused", "failed"}
                          /\ status # "failed" => runs[r] = 1
    PROVE  ChannelStep
<1>1. CASE ~(r \in Calls /\ task[r].at \in {"sending", "waiting"})
  <2>1. task' = task BY <1>1 DEF Answered
  <2>2. Said' = Said BY <2>1 DEF Said
  <2> QED BY <2>2 DEF ChannelStep
<1>2. CASE r \in Calls /\ task[r].at \in {"sending", "waiting"}
  <2>1. \A c \in Calls :
           \/ task'[c] = task[c]
           \/ /\ c = r /\ task'[c].at = "told" /\ task'[c].told = status
    BY AnsweredIsPlaced
  <2>2. task'[r].at = "told" /\ task'[r].told = status
    BY <1>2 DEF Answered, CallInv, Tasks
  <2>3. Said[r] = "open" /\ Said'[r] = status BY <1>2, <2>2 DEF Said, Word
  <2>4. \A c \in Calls : c # r => Said'[c] = Said[c] BY <2>1 DEF Said
  <2>5. Said' = [Said EXCEPT ![r] = status] BY <1>2, <2>3, <2>4 DEF Said
  <2>6. Channel!AnswerCall(r) BY <1>2, <2>3, <2>5 DEF Channel!AnswerCall
  <2> QED BY <1>2, <2>6 DEF ChannelStep, Channel!ChannelNext
<1> QED BY <1>1, <1>2

\* A step that touches neither the tasks nor what ran.
LEMMA SilentIsChannel ==
    ASSUME UNCHANGED <<task, runs>>
    PROVE  ChannelStep
BY DEF ChannelStep, Said

\* The parts of CallInv a step of the callers has to show.
LEMMA CallsKept ==
    ASSUME CallInv, task' \in [Calls -> Tasks], reqq' \in Seq(Requests),
           UNCHANGED <<wire, runs, sent, actor>>,
           \A c \in Calls : Placed(c, task'[c], runs[c], sent, reqq')
    PROVE  CallInv'
BY DEF CallInv, RanFirst

\* dispatch_over_ipc: a call is opened and queued, or waits for room.
LEMMA DispatchKeepsCalls ==
    ASSUME CallInv, NEW c \in Calls, Dispatch(c), ses \in Sessions
    PROVE  CallInv' /\ ChannelStep
<1> DEFINE u == [task[c] EXCEPT !.at = SendStage, !.target = ses.target]
<1>1. task[c] \in Tasks /\ task[c].at = "none" BY DEF CallInv, Dispatch
<1>2. u \in Tasks /\ u.at = SendStage
  BY <1>1 DEF SendStage, Tasks, Sessions
<1>3. task' = [task EXCEPT ![c] = u] BY <1>1 DEF Dispatch, CallInv, Tasks
<1> HIDE DEF u
<1>4. /\ task' \in [Calls -> Tasks] /\ task'[c] = u
      /\ \A d \in Calls : d # c => task'[d] = task[d]
  BY <1>2, <1>3 DEF CallInv
<1>5. Placed(c, task[c], runs[c], sent, reqq) BY DEF CallInv
<1>6. ASSUME Len(reqq) < ReqCap PROVE CallInv'
  <2>1. u.at = "waiting" /\ reqq' = Append(reqq, c)
    BY <1>2, <1>6 DEF SendStage, Dispatch, Enqueued
  <2>2. Placed(c, u, runs[c], sent, reqq')
    BY <1>1, <1>5, <2>1, PlacedAppendSelf DEF CallInv
  <2>3. c \in Requests BY DEF Requests
  <2>4. \A d \in Calls : d # c => Placed(d, task[d], runs[d], sent, reqq')
    BY <2>1, <2>3, PlacedAppendOther DEF CallInv
  <2>5. \A d \in Calls : Placed(d, task'[d], runs[d], sent, reqq') BY <1>4, <2>2, <2>4
  <2>6. reqq' \in Seq(Requests) BY <2>1, <2>3 DEF CallInv
  <2> QED BY <1>4, <2>5, <2>6, CallsKept DEF Dispatch
<1>7. ASSUME ~(Len(reqq) < ReqCap) PROVE CallInv'
  <2>1. u.at = "sending" /\ reqq' = reqq
    BY <1>2, <1>7 DEF SendStage, Dispatch, Enqueued
  <2>2. Placed(c, u, runs[c], sent, reqq) BY <1>1, <1>5, <2>1 DEF Placed
  <2>3. \A d \in Calls : Placed(d, task'[d], runs[d], sent, reqq')
    BY <1>4, <2>1, <2>2 DEF CallInv
  <2> QED BY <1>4, <2>1, <2>3, CallsKept DEF CallInv, Dispatch
<1>8. ChannelStep
  <2>1. Said[c] = "none" BY <1>1 DEF Said, Word
  <2>2. Said'[c] = "open" BY <1>2, <1>4 DEF Said, Word, SendStage
  <2>3. \A d \in Calls : d # c => Said'[d] = Said[d] BY <1>4 DEF Said
  <2>4. Said' = [Said EXCEPT ![c] = "open"] BY <2>2, <2>3 DEF Said
  <2>5. Channel!OpenCall(c) BY <2>1, <2>4 DEF Channel!OpenCall, Dispatch
  <2> QED BY <2>5 DEF ChannelStep, Channel!ChannelNext
<1> QED BY <1>6, <1>7, <1>8

LEMMA CallersKeepCalls ==
    ASSUME CallInv,
           \/ \E c \in Calls : TaskStep(c)
           \/ SendRefresh \/ RefreshExpires
    PROVE  CallInv' /\ ChannelStep
<1>1. ASSUME NEW c \in Calls, SendRequest(c) PROVE CallInv' /\ ChannelStep
  <2> DEFINE u == [task[c] EXCEPT !.at = "waiting"]
  <2>1. task[c] \in Tasks /\ task[c].at = "sending" BY <1>1 DEF CallInv, SendRequest
  <2>2. u \in Tasks /\ u.at = "waiting" BY <2>1 DEF Tasks
  <2>3. task' = [task EXCEPT ![c] = u] BY <1>1, <2>1 DEF SendRequest, CallInv, Tasks
  <2> HIDE DEF u
  <2>4. /\ task' \in [Calls -> Tasks] /\ task'[c] = u
        /\ \A d \in Calls : d # c => task'[d] = task[d]
    BY <2>2, <2>3 DEF CallInv
  <2>5. reqq' = Append(reqq, c) /\ c \in Requests BY <1>1 DEF SendRequest, Requests
  <2>6. Placed(c, u, runs[c], sent, reqq')
    BY <2>1, <2>2, <2>5, PlacedAppendSelf DEF CallInv
  <2>7. \A d \in Calls : d # c => Placed(d, task[d], runs[d], sent, reqq')
    BY <2>5, PlacedAppendOther DEF CallInv
  <2>8. \A d \in Calls : Placed(d, task'[d], runs[d], sent, reqq') BY <2>4, <2>6, <2>7
  <2>9. reqq' \in Seq(Requests) BY <2>5 DEF CallInv
  <2>10. CallInv' BY <1>1, <2>4, <2>8, <2>9, CallsKept DEF SendRequest
  <2>11. \A d \in Calls : Word(task'[d]) = Word(task[d]) BY <2>1, <2>2, <2>4 DEF Word
  <2>12. Said' = Said BY <2>11 DEF Said
  <2> QED BY <1>1, <2>10, <2>12 DEF SendRequest, ChannelStep
<1>2. ASSUME NEW c \in Calls, RequestTimesOut(c) PROVE CallInv' /\ ChannelStep
  <2>1. task' = Answered(c, "failed") BY <1>2 DEF RequestTimesOut
  <2>2. CallInv'
    BY <1>2, <2>1, AnsweredIsPlaced, CallsKept DEF RequestTimesOut, CallInv
  <2>3. ChannelStep BY <1>2, <2>1, AnsweredIsChannel DEF RequestTimesOut
  <2> QED BY <2>2, <2>3
<1>3. ASSUME NEW c \in Calls, PublishOutcome(c) PROVE CallInv' /\ ChannelStep
  <2> DEFINE u == [task[c] EXCEPT !.at = "done", !.target = None]
  <2>1. task[c] \in Tasks /\ task[c].at = "told" BY <1>3 DEF CallInv, PublishOutcome
  <2>2. u \in Tasks /\ u.at = "done" /\ u.told = task[c].told BY <2>1 DEF Tasks
  <2>3. task' = [task EXCEPT ![c] = u] BY <1>3, <2>1 DEF PublishOutcome, CallInv, Tasks
  <2> HIDE DEF u
  <2>4. /\ task' \in [Calls -> Tasks] /\ task'[c] = u
        /\ \A d \in Calls : d # c => task'[d] = task[d]
    BY <2>2, <2>3 DEF CallInv
  <2>5. Placed(c, u, runs[c], sent, reqq) BY <2>1, <2>2 DEF CallInv, Placed
  <2>6. \A d \in Calls : Placed(d, task'[d], runs[d], sent, reqq)
    BY <2>4, <2>5 DEF CallInv
  <2>7. CallInv' BY <1>3, <2>4, <2>6, CallsKept DEF PublishOutcome, CallInv
  <2>8. \A d \in Calls : Word(task'[d]) = Word(task[d]) BY <2>1, <2>2, <2>4 DEF Word
  <2>9. Said' = Said BY <2>8 DEF Said
  <2> QED BY <1>3, <2>7, <2>9 DEF PublishOutcome, ChannelStep
<1>4. CASE SendRefresh
  <2>1. "refresh" \in Requests /\ "refresh" \notin Calls
    BY IpcAssumption DEF Requests, Refreshes, Calls
  <2>2. reqq' = Append(reqq, "refresh") BY <1>4 DEF SendRefresh
  <2>3. \A c \in Calls : Placed(c, task[c], runs[c], sent, reqq')
    BY <2>1, <2>2, PlacedAppendOther DEF CallInv
  <2>4. reqq' \in Seq(Requests) BY <2>1, <2>2 DEF CallInv
  <2>5. CallInv' BY <1>4, <2>3, <2>4, CallsKept DEF SendRefresh, CallInv
  <2> QED BY <1>4, <2>5, SilentIsChannel DEF SendRefresh
<1>5. CASE RefreshExpires
  <2>1. reqq' = Abandon(reqq) BY <1>5 DEF RefreshExpires
  <2>2. \A c \in Calls : Placed(c, task[c], runs[c], sent, reqq')
    BY <2>1, PlacedAbandon DEF CallInv
  <2>3. reqq' \in Seq(Requests)
    BY <2>1 DEF CallInv, Abandon, Requests, Refreshes
  <2>4. actor' \in Requests \cup {None} BY <1>5 DEF RefreshExpires, CallInv, Requests, Refreshes
  <2>5. CallInv' BY <1>5, <2>2, <2>3, <2>4 DEF RefreshExpires, CallInv, RanFirst
  <2> QED BY <1>5, <2>5, SilentIsChannel DEF RefreshExpires
<1> QED BY <1>1, <1>2, <1>3, <1>4, <1>5 DEF TaskStep

\* The actor's reply to a caller, with the frames it has not read yet.
LEMMA RepliedKeepsCalls ==
    ASSUME CallInv, NEW r, NEW status, task' = Answered(r, status), UNCHANGED runs,
           r \in Calls => /\ status \in {"accepted", "refused", "failed"}
                          /\ status # "failed" => runs[r] = 1,
           reqq' = reqq \/ (reqq # <<>> /\ reqq' = Tail(reqq)),
           sent' \subseteq sent, actor' \in Requests \cup {None}, RanFirst(wire', runs)
    PROVE  CallInv' /\ ChannelStep
<1>1. /\ task' \in [Calls -> Tasks]
      /\ \A c \in Calls : Placed(c, task'[c], runs[c], sent, reqq)
  BY AnsweredIsPlaced
<1>2. \A c \in Calls : Placed(c, task'[c], runs[c], sent, reqq')
  BY <1>1, PlacedTail DEF CallInv
<1>3. \A c \in Calls : Placed(c, task'[c], runs[c], sent', reqq') BY <1>2 DEF Placed
<1>4. reqq' \in Seq(Requests) /\ sent' \subseteq Requests BY DEF CallInv
<1>5. runs' \in [Calls -> {0, 1}] BY DEF CallInv
<1>6. CallInv' BY <1>1, <1>3, <1>4, <1>5 DEF CallInv
<1>7. ChannelStep BY AnsweredIsChannel
<1> QED BY <1>6, <1>7

LEMMA DisconnectKeepsCalls ==
    ASSUME CallInv, Disconnect
    PROVE  CallInv' /\ ChannelStep
<1>1. RanFirst(wire', runs) BY DEF Disconnect, RanFirst
<1>2. task' = Answered(actor, "failed") /\ sent' \subseteq sent /\ actor' \in Requests \cup {None}
  BY DEF Disconnect, FailCaller
<1> QED BY <1>1, <1>2, RepliedKeepsCalls DEF Disconnect

LEMMA ActorKeepsCalls ==
    ASSUME ShapeInv, CallInv, ActorStep \/ ActorTimesOut
    PROVE  CallInv' /\ ChannelStep
<1>1. CASE Connect \/ Subscribe \/ AttachFails
  <2>1. UNCHANGED <<wire, sent, actor, reqq, task, runs>>
    BY <1>1 DEF Connect, Subscribe, AttachFails
  <2> QED BY <2>1, SilentIsChannel DEF CallInv, RanFirst
<1>2. CASE TakeUnsupported
  <2>1. /\ task' = Answered(Head(reqq), "failed") /\ reqq # <<>> /\ reqq' = Tail(reqq)
        /\ UNCHANGED <<wire, runs, sent, actor>>
    BY <1>2 DEF TakeUnsupported, FailCaller
  <2>2. RanFirst(wire', runs) /\ actor' \in Requests \cup {None} BY <2>1 DEF CallInv, RanFirst
  <2> QED BY <2>1, <2>2, RepliedKeepsCalls
<1>3. CASE TakeRequest
  <2>1. /\ reqq # <<>> /\ reqq' = Tail(reqq) /\ actor' = Head(reqq)
        /\ sent' = sent \cup {Head(reqq)} /\ UNCHANGED <<wire, task, runs>>
    BY <1>3 DEF TakeRequest
  <2>2. Head(reqq) \in Requests /\ reqq' \in Seq(Requests) BY <2>1 DEF CallInv
  <2>3. \A c \in Calls : Placed(c, task[c], runs[c], sent', reqq')
    BY <2>1, PlacedSent DEF CallInv
  <2>4. CallInv' BY <2>1, <2>2, <2>3 DEF CallInv, RanFirst
  <2> QED BY <2>1, <2>4, SilentIsChannel
<1>4. CASE WriteFails
  <2>1. /\ task' = Answered(Head(reqq), "failed") /\ reqq # <<>> /\ reqq' = Tail(reqq)
        /\ wire' = <<>> /\ UNCHANGED <<runs, sent, actor>>
    BY <1>4 DEF WriteFails, FailCaller
  <2>2. RanFirst(wire', runs) /\ actor' \in Requests \cup {None} BY <2>1 DEF CallInv, RanFirst
  <2> QED BY <2>1, <2>2, RepliedKeepsCalls
<1>5. CASE ReadFrame
  <2> DEFINE f == Head(wire)
  <2>1. wire # <<>> /\ wire \in Seq(Frames) /\ wire' = Tail(wire)
    BY <1>5 DEF ReadFrame, ShapeInv
  <2>2. RanFirst(wire', runs)
    <3>1. \A i \in DOMAIN wire' : i + 1 \in DOMAIN wire /\ wire'[i] = wire[i + 1] BY <2>1
    <3> QED BY <3>1 DEF CallInv, RanFirst
  <2>3. f \in Frames /\ f = wire[1] /\ 1 \in DOMAIN wire BY <2>1
  <2> HIDE DEF f
  <2>4. ASSUME UNCHANGED <<actor, task>> PROVE CallInv' /\ ChannelStep
    <3>1. UNCHANGED <<sent, reqq, runs>> BY <1>5 DEF ReadFrame
    <3> QED BY <2>2, <2>4, <3>1, SilentIsChannel DEF CallInv
  <2>5. ASSUME f.ev = "response", actor # None, f.to = actor \/ {f.to, actor} = Refreshes,
               AnswerCaller(actor, f.status), actor' = None
        PROVE  CallInv' /\ ChannelStep
    <3>1. f \in Responses BY <2>3, <2>5 DEF Frames, Happenings, Reconciliations
    <3>2. ASSUME actor \in Calls
          PROVE  f.status \in {"accepted", "refused", "failed"} /\ runs[actor] = 1
      <4>1. actor \notin Refreshes BY <3>2, IpcAssumption DEF Refreshes, Calls
      <4>2. f.to = actor BY <2>5, <4>1
      <4>3. f.status \in {"accepted", "refused"} BY <3>1, <3>2, <4>1, <4>2 DEF Responses
      <4>4. runs[f.to] = 1 BY <2>3, <2>5, <3>2, <4>2 DEF CallInv, RanFirst
      <4> QED BY <4>2, <4>3, <4>4
    <3>3. task' = Answered(actor, f.status) BY <2>5 DEF AnswerCaller
    <3>4. UNCHANGED <<sent, reqq, runs>> BY <1>5 DEF ReadFrame
    <3> QED BY <2>2, <2>5, <3>2, <3>3, <3>4, RepliedKeepsCalls
  <2> QED BY <1>5, <2>4, <2>5 DEF ReadFrame, f
<1>6. CASE ReadFails BY <1>6, DisconnectKeepsCalls DEF ReadFails
<1>7. CASE ActorTimesOut BY <1>7, DisconnectKeepsCalls DEF ActorTimesOut
<1> QED BY <1>1, <1>2, <1>3, <1>4, <1>5, <1>6, <1>7 DEF ActorStep

\* Omegon runs a command it has been sent, and answers the actor if it still waits.
LEMMA RunKeepsCalls ==
    ASSUME ShapeInv, CallInv, NEW c \in Calls, c \in sent, sent' = sent \ {c},
           runs' = [runs EXCEPT ![c] = @ + 1], UNCHANGED <<task, reqq, actor>>,
           NEW frames \in Seq(Frames), Emit(frames),
           \A i \in DOMAIN frames :
              frames[i].ev = "response" /\ frames[i].to \in Calls => frames[i].to = c
    PROVE  CallInv' /\ ChannelStep
<1>1. Placed(c, task[c], runs[c], sent, reqq) BY DEF CallInv
<1>2. runs[c] = 0 /\ task[c].at \notin {"none", "sending"}
      /\ \A i \in DOMAIN reqq : reqq[i] # c
  BY <1>1 DEF Placed
<1>3. runs' = [runs EXCEPT ![c] = 1] BY <1>2 DEF CallInv
<1>4. /\ runs' \in [Calls -> {0, 1}] /\ runs'[c] = 1
      /\ \A d \in Calls : d # c => runs'[d] = runs[d]
  BY <1>3 DEF CallInv
<1>5. \A d \in Calls : Placed(d, task[d], runs'[d], sent', reqq)
  <2>1. Placed(c, task[c], runs'[c], sent', reqq) BY <1>1, <1>2 DEF Placed
  <2>2. \A d \in Calls : d # c => Placed(d, task[d], runs[d], sent', reqq)
    BY DEF CallInv, Placed
  <2> QED BY <1>4, <2>1, <2>2
<1>6. RanFirst(wire', runs')
  <2> SUFFICES ASSUME NEW i \in DOMAIN wire', wire'[i].ev = "response", wire'[i].to \in Calls
               PROVE  runs'[wire'[i].to] = 1
    BY DEF RanFirst
  <2>1. wire' = wire \/ wire' = wire \o frames BY DEF Emit
  <2>2. CASE i \in DOMAIN wire /\ wire'[i] = wire[i]
    BY <1>4, <2>2 DEF CallInv, RanFirst
  <2>3. CASE \E j \in DOMAIN frames : wire'[i] = frames[j] BY <1>4, <2>3
  <2>4. \/ i \in DOMAIN wire /\ wire'[i] = wire[i]
        \/ \E j \in DOMAIN frames : wire'[i] = frames[j]
    <3>1. CASE wire' = wire BY <3>1
    <3>2. CASE wire' = wire \o frames
      <4>1. wire \in Seq(Frames) BY DEF ShapeInv
      <4>2. CASE i <= Len(wire) BY <3>2, <4>1, <4>2
      <4>3. CASE ~(i <= Len(wire))
        <5>1. i - Len(wire) \in DOMAIN frames /\ wire'[i] = frames[i - Len(wire)]
          BY <3>2, <4>1, <4>3
        <5> QED BY <5>1
      <4> QED BY <4>2, <4>3
    <3> QED BY <2>1, <3>1, <3>2
  <2> QED BY <2>2, <2>3, <2>4
<1>7. CallInv' BY <1>4, <1>5, <1>6 DEF CallInv
<1>8. ChannelStep
  <2>1. task[c] \in Tasks BY DEF CallInv
  <2>2. Word(task[c]) # "none" BY <1>1, <1>2, <2>1 DEF Word, Placed, Tasks
  <2>3. Said[c] # "none" /\ Said' = Said BY <2>2 DEF Said
  <2>4. Channel!RunCall(c) BY <1>2, <1>3, <2>3 DEF Channel!RunCall
  <2> QED BY <2>4 DEF ChannelStep, Channel!ChannelNext
<1> QED BY <1>7, <1>8

\* Frames that answer nobody's command.
LEMMA QuietKeepsCalls ==
    ASSUME ShapeInv, CallInv, UNCHANGED <<task, runs, reqq, actor>>, sent' \subseteq sent,
           NEW frames \in Seq(Frames), wire' = wire \/ wire' = wire \o frames,
           \A i \in DOMAIN frames : frames[i].ev = "response" => frames[i].to \notin Calls
    PROVE  CallInv' /\ ChannelStep
<1>1. \A c \in Calls : Placed(c, task[c], runs[c], sent', reqq) BY DEF CallInv, Placed
<1>2. RanFirst(wire', runs)
  <2>1. CASE wire' = wire BY <2>1 DEF CallInv
  <2>2. CASE wire' = wire \o frames
    <3>1. wire \in Seq(Frames) BY DEF ShapeInv
    <3> SUFFICES ASSUME NEW i \in DOMAIN wire', wire'[i].ev = "response", wire'[i].to \in Calls
                 PROVE  runs[wire'[i].to] = 1
      BY DEF RanFirst
    <3>2. CASE i <= Len(wire)
      <4>1. i \in DOMAIN wire /\ wire'[i] = wire[i] BY <2>2, <3>1, <3>2
      <4> QED BY <4>1 DEF CallInv, RanFirst
    <3>3. CASE ~(i <= Len(wire))
      <4>1. i - Len(wire) \in DOMAIN frames /\ wire'[i] = frames[i - Len(wire)]
        BY <2>2, <3>1, <3>3
      <4> QED BY <4>1
    <3> QED BY <3>2, <3>3
  <2> QED BY <2>1, <2>2
<1>3. CallInv' BY <1>1, <1>2 DEF CallInv
<1> QED BY <1>3, SilentIsChannel

LEMMA OneEventIsQuiet ==
    ASSUME srv \in Servers, NEW kind \in {"turn_started", "turn_ended", "reset", "changed"}
    PROVE  /\ <<Event(kind)>> \in Seq(Frames)
           /\ \A i \in DOMAIN <<Event(kind)>> : <<Event(kind)>>[i].ev # "response"
<1>1. Event(kind) \in Frames BY EventIsFrame DEF Frames
<1>2. Event(kind).ev # "response" BY DEF Event
<1> HIDE DEF Frames
<1> QED BY <1>1, <1>2

LEMMA ConcatElements ==
    ASSUME NEW one \in Seq(Frames), NEW two \in Seq(Frames)
    PROVE  /\ one \o two \in Seq(Frames)
           /\ \A i \in DOMAIN (one \o two) :
                 \/ \E j \in DOMAIN one : (one \o two)[i] = one[j]
                 \/ \E j \in DOMAIN two : (one \o two)[i] = two[j]
<1>1. one \o two \in Seq(Frames) OBVIOUS
<1>2. ASSUME NEW i \in DOMAIN (one \o two)
      PROVE  \/ \E j \in DOMAIN one : (one \o two)[i] = one[j]
             \/ \E j \in DOMAIN two : (one \o two)[i] = two[j]
  <2>1. CASE i <= Len(one) BY <2>1
  <2>2. CASE ~(i <= Len(one))
    <3>1. i - Len(one) \in DOMAIN two /\ (one \o two)[i] = two[i - Len(one)] BY <2>2
    <3> QED BY <3>1
  <2> QED BY <2>1, <2>2
<1> QED BY <1>1, <1>2

LEMMA OmegonKeepsCalls ==
    ASSUME ShapeInv, CallInv, HandleRequest \/ StartTurn \/ EndTurn \/ Environment
    PROVE  CallInv' /\ ChannelStep
<1>0. srv \in Servers BY DEF ShapeInv
<1>1. ASSUME NEW c \in Calls, NEW status \in {"accepted", "refused"}
      PROVE  /\ ToActor(c, status) \in Seq(Frames)
             /\ Len(ToActor(c, status)) <= 1
             /\ \A i \in DOMAIN ToActor(c, status) : ToActor(c, status)[i].to = c
  <2>1. Response(c, status).to = c BY DEF Response
  <2> QED BY <2>1, ToActorIsFrames DEF ToActor
<1>2. ASSUME NEW p \in Prompts, HandlePrompt(p) PROVE CallInv' /\ ChannelStep
  <2>0. p \in Calls BY DEF Calls
  <2>1. ASSUME Emit(<<Event("changed")>> \o ToActor(p, "accepted"))
        PROVE  CallInv' /\ ChannelStep
    <3> DEFINE one == <<Event("changed")>>
               two == ToActor(p, "accepted")
    <3>1. /\ one \in Seq(Frames) /\ Len(one) = 1
          /\ \A i \in DOMAIN one : one[i].ev # "response"
      BY <1>0, OneEventIsQuiet
    <3>2. two \in Seq(Frames) /\ \A i \in DOMAIN two : two[i].to = p BY <1>1, <2>0
    <3>3. Emit(one \o two) BY <2>1
    <3> HIDE DEF one, two
    <3>4. /\ one \o two \in Seq(Frames)
          /\ \A i \in DOMAIN (one \o two) : (one \o two)[i].ev = "response" =>
                (one \o two)[i].to = p
      BY <3>1, <3>2, ConcatElements
    <3> DEFINE all == one \o two
    <3>5. all \in Seq(Frames) /\ Emit(all)
          /\ \A i \in DOMAIN all : all[i].ev = "response" => all[i].to = p
      BY <3>3, <3>4
    <3> HIDE DEF all
    <3> QED BY <1>2, <2>0, <3>5, RunKeepsCalls DEF HandlePrompt
  <2>2. ASSUME Emit(ToActor(p, "refused")) PROVE CallInv' /\ ChannelStep
    BY <1>1, <1>2, <2>0, <2>2, RunKeepsCalls DEF HandlePrompt
  <2> QED BY <1>2, <2>1, <2>2 DEF HandlePrompt
<1>3. ASSUME NEW c \in Cancels, HandleCancel(c) PROVE CallInv' /\ ChannelStep
  <2> DEFINE status == IF srv.turn = None THEN "refused" ELSE "accepted"
  <2>1. c \in Calls /\ status \in {"accepted", "refused"} BY DEF Calls
  <2>2. Emit(ToActor(c, status)) BY <1>3 DEF HandleCancel
  <2>3. /\ c \in sent /\ sent' = sent \ {c} /\ runs' = [runs EXCEPT ![c] = @ + 1]
        /\ UNCHANGED <<task, reqq, actor>>
    BY <1>3 DEF HandleCancel
  <2> HIDE DEF status
  <2> PICK frames : frames = ToActor(c, status) OBVIOUS
  <2>4. /\ frames \in Seq(Frames) /\ Emit(frames)
        /\ \A i \in DOMAIN frames : frames[i].ev = "response" /\ frames[i].to \in Calls => frames[i].to = c
    BY <1>1, <2>1, <2>2
  <2> QED BY <2>1, <2>3, <2>4, RunKeepsCalls
<1>4. CASE HandleGetState
  <2>1. PICK r \in sent \cap Refreshes :
            sent' = sent \ Refreshes /\ Emit(<<Response(r, Snapshot)>>)
    BY <1>4 DEF HandleGetState
  <2> DEFINE f == <<Response(r, Snapshot)>>
  <2>2. r \notin Calls BY <2>1, IpcAssumption DEF Refreshes, Calls
  <2>3. Response(r, Snapshot).to = r BY DEF Response
  <2>4. Response(r, Snapshot) \in Frames
    BY <1>0, SnapshotIsGood DEF Response, Frames, Responses
  <2>5. f \in Seq(Frames) /\ \A i \in DOMAIN f : f[i].to \notin Calls BY <2>2, <2>3, <2>4
  <2>6. wire' = wire \/ wire' = wire \o f BY <2>1 DEF Emit
  <2> HIDE DEF f
  <2> QED BY <1>4, <2>1, <2>5, <2>6, QuietKeepsCalls DEF HandleGetState
<1>5. ASSUME NEW kind \in {"turn_started", "turn_ended", "reset", "changed"},
             Emit(<<Event(kind)>>), UNCHANGED <<task, runs, reqq, actor, sent>>
      PROVE  CallInv' /\ ChannelStep
  <2> DEFINE f == <<Event(kind)>>
  <2>1. f \in Seq(Frames) /\ \A i \in DOMAIN f : f[i].ev # "response"
    BY <1>0, OneEventIsQuiet
  <2>2. wire' = wire \/ wire' = wire \o f BY <1>5 DEF Emit
  <2> HIDE DEF f
  <2> QED BY <1>5, <2>1, <2>2, QuietKeepsCalls
<1>6. CASE StartTurn BY <1>5, <1>6 DEF StartTurn
<1>7. CASE EndTurn BY <1>5, <1>7 DEF EndTurn
<1>8. CASE ResetSession BY <1>5, <1>8 DEF ResetSession
<1>9. CASE OtherPrompt BY <1>5, <1>9 DEF OtherPrompt
<1>10. CASE Lag
  <2>1. UNCHANGED <<task, runs, reqq, actor, sent>> BY <1>10 DEF Lag
  <2>2. Reconciled(Snapshot).ev # "response" BY DEF Reconciled
  <2>3. RanFirst(wire', runs)
    <3>1. CASE wire' = <<Reconciled(Snapshot)>> BY <2>2, <3>1 DEF RanFirst
    <3>2. ASSUME NEW i \in DOMAIN wire, wire' = <<wire[i], Reconciled(Snapshot)>>
          PROVE  RanFirst(wire', runs)
      <4>1. wire[i].ev = "response" /\ wire[i].to \in Calls => runs[wire[i].to] = 1
        BY DEF CallInv, RanFirst
      <4> QED BY <2>2, <3>2, <4>1 DEF RanFirst
    <3> QED BY <1>10, <3>1, <3>2 DEF Lag
  <2>4. CallInv' BY <2>1, <2>3 DEF CallInv
  <2> QED BY <2>1, <2>4, SilentIsChannel
<1>11. CASE CloseSocket \/ Crash \/ Restart
  <2>1. UNCHANGED <<task, runs, reqq, actor, wire>> /\ sent' \subseteq sent
    BY <1>11 DEF CloseSocket, Crash, Restart
  <2>2. <<>> \in Seq(Frames) /\ DOMAIN <<>> = {} OBVIOUS
  <2> QED BY <2>1, <2>2, QuietKeepsCalls
<1> QED BY <1>2, <1>3, <1>4, <1>6, <1>7, <1>8, <1>9, <1>10, <1>11
       DEF HandleRequest, Environment

LEMMA SessionKeepsCalls ==
    ASSUME ShapeInv, CallInv,
           \/ LoopStep
           \/ \E p \in Prompts : Submit(p) \/ QueueAnyway(p)
           \/ \E c \in Cancels : Cancel(c)
           \/ \E t \in Targets : SelectRoute(t)
    PROVE  CallInv' /\ ChannelStep
<1>1. CASE Drain
  <2>1. "refresh" \in Requests /\ "refresh" \notin Calls
    BY IpcAssumption DEF Requests, Refreshes, Calls
  <2>2. reqq' = reqq \/ reqq' = Append(reqq, "refresh") BY <1>1 DEF Drain, Enqueued
  <2>3. \A c \in Calls : Placed(c, task[c], runs[c], sent, reqq')
    <3>1. CASE reqq' = reqq BY <3>1 DEF CallInv
    <3>2. CASE reqq' = Append(reqq, "refresh")
      BY <2>1, <3>2, PlacedAppendOther DEF CallInv
    <3> QED BY <2>2, <3>1, <3>2
  <2>4. reqq' \in Seq(Requests) BY <2>1, <2>2 DEF CallInv
  <2>5. CallInv' BY <1>1, <2>3, <2>4, CallsKept DEF Drain, CallInv
  <2> QED BY <1>1, <2>5, SilentIsChannel DEF Drain
<1>2. CASE FinishRefresh
  <2>1. UNCHANGED <<task, runs, reqq, actor, sent, wire>> BY <1>2 DEF FinishRefresh
  <2> QED BY <2>1, SilentIsChannel DEF CallInv, RanFirst
<1>3. ASSUME NEW c \in Calls, Dispatch(c) PROVE CallInv' /\ ChannelStep
  BY <1>3, DispatchKeepsCalls DEF ShapeInv
<1>4. ASSUME NEW t \in Targets, SelectRoute(t) PROVE CallInv' /\ ChannelStep
  <2>1. UNCHANGED <<task, runs, reqq, actor, sent, wire>> BY <1>4 DEF SelectRoute
  <2> QED BY <2>1, SilentIsChannel DEF CallInv, RanFirst
<1> QED BY <1>1, <1>2, <1>3, <1>4 DEF LoopStep, Submit, QueueAnyway, Cancel, Calls

-----------------------------------------------------------------------------
(* The theorems. *)

LEMMA InitIsGood == Init => SessionInv
<1> SUFFICES ASSUME Init PROVE SessionInv OBVIOUS
<1>1. AcknowledgementsHaveASubject BY DEF Init, AcknowledgementsHaveASubject
<1> QED BY <1>1, InitShape, InitCalls DEF SessionInv

LEMMA NextIsGood ==
    ASSUME SessionInv, [Next]_vars
    PROVE  SessionInv' /\ ChannelStep
<1>0. ShapeInv /\ CallInv /\ Acked(ses)
  BY DEF SessionInv, AcknowledgementsHaveASubject, Acked
<1>1. CASE \/ LoopStep
           \/ \E p \in Prompts : Submit(p) \/ QueueAnyway(p)
           \/ \E c \in Cancels : Cancel(c)
           \/ \E t \in Targets : SelectRoute(t)
  <2>1. ShapeInv' /\ Acked(ses') BY <1>0, <1>1, SessionKeepsShape
  <2>2. CallInv' /\ ChannelStep BY <1>0, <1>1, SessionKeepsCalls
  <2> QED BY <2>1, <2>2 DEF SessionInv, AcknowledgementsHaveASubject, Acked
<1>2. ASSUME UNCHANGED ses,
             \/ \E c \in Calls : TaskStep(c)
             \/ SendRefresh \/ RefreshExpires \/ ActorStep \/ ActorTimesOut
             \/ HandleRequest \/ StartTurn \/ EndTurn \/ Environment
      PROVE  SessionInv' /\ ChannelStep
  <2>1. ShapeInv'
    BY <1>0, <1>2, CallersKeepShape, ActorKeepsShape, OmegonKeepsShape
  <2>2. CallInv' /\ ChannelStep
    BY <1>0, <1>2, CallersKeepCalls, ActorKeepsCalls, OmegonKeepsCalls
  <2> QED BY <1>2, <2>1, <2>2 DEF SessionInv, AcknowledgementsHaveASubject
<1>3. CASE UNCHANGED vars
  <2>1. UNCHANGED <<srv, link, fetched, wire, sent, actor, reqq, task, runs, inbox, loop, ses>>
    BY <1>3 DEF vars, ipcVars
  <2>2. ShapeInv' /\ CallInv' BY <1>0, <2>1 DEF ShapeInv, CallInv, RanFirst
  <2> QED BY <2>1, <2>2, SilentIsChannel DEF SessionInv, AcknowledgementsHaveASubject
<1> QED BY <1>1, <1>2, <1>3 DEF Next

LEMMA InvHolds == Spec => []SessionInv
<1>1. SessionInv /\ [Next]_vars => SessionInv' BY NextIsGood
<1> QED BY <1>1, InitIsGood, PTL DEF Spec

\* An acknowledged prompt is still pending, and an acknowledged cancellation
\* still has a turn to cancel, whatever events arrive in whatever order
\* (apply_session_event, apply_ipc_command_outcome, refresh_from_ipc_state).
THEOREM AcknowledgementsHold == Spec => []AcknowledgementsHaveASubject
<1>1. SessionInv => AcknowledgementsHaveASubject BY DEF SessionInv
<1> QED BY <1>1, InvHolds, PTL

\* Of one Omegon process the session never falls back to an older snapshot
\* (ipc_snapshot_is_stale), for batches and inboxes of any length.
THEOREM SnapshotsAdvance == Spec => SnapshotsNeverRegress
<1> DEFINE Advances == \/ ses.auth = None
                       \/ ses'.auth.inst # ses.auth.inst
                       \/ SpansRestart
                       \/ NotOlder(ses'.auth, ses.auth)
<1>1. ASSUME SessionInv, [Next]_vars PROVE Advances \/ UNCHANGED vars
  <2> SUFFICES ASSUME ses.auth # None, ~SpansRestart, ses'.auth.inst = ses.auth.inst
               PROVE  NotOlder(ses'.auth, ses.auth)
    OBVIOUS
  <2>0. ShapeInv /\ ses \in Sessions BY <1>1 DEF SessionInv, ShapeInv
  <2>1. ses.auth \in GoodSnapshots BY <2>0 DEF Sessions
  <2>2. NotOlder(ses.auth, ses.auth)
    BY <2>1, IpcAssumption DEF NotOlder, GoodSnapshots, Snapshots
  <2>3. CASE Drain
    <3>1. ses' = ApplyAll(ses, Drained) BY <2>3 DEF Drain
    <3>2. \A i \in DOMAIN Drained :
             Drained[i].ev = "reconciled" => Drained[i].snap.inst = ses.auth.inst
      <4> SUFFICES ASSUME NEW i \in DOMAIN Drained, Drained[i].ev = "reconciled"
                   PROVE  Drained[i].snap.inst = ses.auth.inst
        OBVIOUS
      <4>1. inbox \in Seq(InboxEvents) BY <2>0 DEF ShapeInv
      <4>2. Notice("required").ev = "required" /\ Notice("changed").ev = "changed"
        BY DEF Notice
      <4>3. i \in DOMAIN inbox /\ Drained[i] = inbox[i]
        BY <4>1, <4>2 DEF Drained
      <4> QED BY <4>3 DEF SpansRestart
    <3>3. Follows(ses, ses') BY <2>0, <3>1, <3>2, DrainedIsGood, BatchIsGood
    <3> QED BY <3>3 DEF Follows
  <2>4. CASE FinishRefresh
    <3>1. CASE loop.at = "failed" BY <2>2, <2>4, <3>1 DEF FinishRefresh
    <3>2. CASE loop.at = "answered"
      <4>1. ses' = Refreshed(ses, loop.snap) /\ loop.snap \in GoodSnapshots
        BY <2>0, <2>4, <3>2 DEF FinishRefresh, ShapeInv
      <4>2. CASE ses.auth.inst = loop.snap.inst
        <5>1. Follows(ses, ses') BY <2>0, <4>1, <4>2, RefreshedIsGood
        <5> QED BY <5>1 DEF Follows
      <4>3. CASE ses.auth.inst # loop.snap.inst
        <5>1. ~IsStale(ses.auth, loop.snap) BY <4>3 DEF IsStale
        <5>2. ses'.auth = loop.snap
          BY <2>0, <4>1, <5>1 DEF Refreshed, Sessions
        <5> QED BY <4>3, <5>2
      <4> QED BY <4>2, <4>3
    <3> QED BY <2>4, <3>1, <3>2 DEF FinishRefresh
  <2>5. ASSUME NEW p \in Prompts, Submit(p) PROVE NotOlder(ses'.auth, ses.auth)
    <3>1. ses'.auth = ses.auth BY <2>0, <2>5 DEF Submit, Sessions
    <3> QED BY <2>2, <3>1
  <2>6. ASSUME NEW t \in Targets, SelectRoute(t) PROVE NotOlder(ses'.auth, ses.auth)
    <3>1. ses'.auth = ses.auth BY <2>0, <2>6 DEF SelectRoute, Sessions
    <3> QED BY <2>2, <3>1
  <2>7. CASE UNCHANGED ses BY <2>2, <2>7
  <2> QED BY <1>1, <2>3, <2>4, <2>5, <2>6, <2>7
         DEF Next, LoopStep, QueueAnyway, Cancel, vars
<1>2. SessionInv /\ [Next]_vars => [Advances]_vars BY <1>1
<1> QED BY <1>2, InvHolds, PTL DEF Spec, SnapshotsNeverRegress

\* The connection implements a request channel, for any number of commands, any
\* capacities and any upsets: a command runs at most once, gets one answer, and
\* is called accepted or refused only after it ran (request, run_ipc_connection).
THEOREM ImplementsRequestChannel == Spec => Channel!ChannelSafety
<1>1. Init => Channel!ChannelInit
  <2> SUFFICES ASSUME Init PROVE Channel!ChannelInit OBVIOUS
  <2>1. \A c \in Calls : Word(task[c]) = "none" BY DEF Init, IpcInit, Word
  <2> QED BY <2>1 DEF Channel!ChannelInit, Said, Init, IpcInit
<1>2. SessionInv /\ [Next]_vars => [Channel!ChannelNext]_<<Said, runs>>
  BY NextIsGood DEF ChannelStep
<1> QED BY <1>1, <1>2, InvHolds, PTL DEF Spec, Channel!ChannelSafety
=============================================================================
