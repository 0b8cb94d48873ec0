--------------------------- MODULE SurfacesProofs ---------------------------
(***************************************************************************)
(* Proofs about what an operator looks at and speaks through: the web      *)
(* proxy, the console of the primary agent, the browser page, the common   *)
(* operating picture, the Omegon that Auspex starts for itself, the        *)
(* status of the session, the workflow builder, the discovery of runtimes  *)
(* on the machine, and the transcript of the conversation with its ledger. *)
(***************************************************************************)
EXTENDS WebProxy, AssistantConsole, WebShell, CopSurface, OwnedOmegon, SessionStatus,
        WorkflowEditor, LocalDiscovery, SessionTranscript, FiniteSetTheorems, WellFoundedInduction, TLAPS

----------------------------------------------------------------------------
(* The web proxy. *)

CallSteps == {"idle", "token", "startup", "store", "send", "unauthorized", "bridged", "done"}
CallAnswers == {"none", "unreachable", "aborted", "lenient", "strict", "502", "200", "401", "refused", "closed"}
CallRecords ==
    [st : CallSteps, kind : CallKinds, token : Nat, retried : BOOLEAN, ran : {0, 1},
     disturbed : BOOLEAN, answer : CallAnswers]
Authorities == [up : BOOLEAN, token : Nat, demands : BOOLEAN]

\* The call takes the token of the daemon that answers now: it is a socket, or was refused once.
AsksAgain(k) == (k.retried \/ k.kind = "ws") /\ ~k.disturbed

\* What has not ended was not carried out, and a call that asks again finds the slot empty and
\* is then not refused.
GoodCall(k, slot, daemon) ==
    /\ k.st = "idle" => ~k.retried
    /\ k.st # "done" => k.ran = 0 /\ k.answer = "none"
    /\ k.answer \in {"401", "refused"} => k.disturbed
    /\ AsksAgain(k) /\ k.retried /\ k.st = "token" => slot = 0
    /\ AsksAgain(k) /\ k.st \in {"store", "send"} /\ daemon.demands => k.token = daemon.token
    /\ AsksAgain(k) => k.st # "unauthorized"

\* The inductive invariant.
ProxyInv ==
    /\ authority \in Authorities
    /\ tokenSlot \in Nat
    /\ call \in [Calls -> CallRecords]
    /\ \A c \in Calls : GoodCall(call[c], tokenSlot, authority)

LEMMA ProxyInitially == WpInit => ProxyInv
<1> SUFFICES ASSUME WpInit PROVE ProxyInv
  OBVIOUS
<1>1. NoCall \in CallRecords /\ \A s, a : GoodCall(NoCall, s, a)
  BY DEF NoCall, CallRecords, CallSteps, CallKinds, CallAnswers, GoodCall, AsksAgain
<1>2. authority \in Authorities
  <2>1. PICK d \in BOOLEAN : authority = [up |-> TRUE, token |-> 1, demands |-> d]
    BY DEF WpInit
  <2>2. 1 \in Nat /\ TRUE \in BOOLEAN
    OBVIOUS
  <2> QED  BY <2>1, <2>2, Zenon DEF Authorities
<1> QED
  BY <1>1, <1>2 DEF WpInit, ProxyInv

\* One call goes on; the slot stays or is emptied.
LEMMA OneCallGoesOn ==
    ASSUME ProxyInv, NEW c \in Calls, NEW k \in CallRecords,
           call' = [call EXCEPT ![c] = k], UNCHANGED authority,
           tokenSlot' \in {0, tokenSlot}, GoodCall(k, tokenSlot', authority)
    PROVE  ProxyInv'
<1>1. call' \in [Calls -> CallRecords] /\ tokenSlot' \in Nat
  BY DEF ProxyInv
<1>2. ASSUME NEW d \in Calls PROVE GoodCall(call'[d], tokenSlot', authority)
  <2>1. CASE d = c
    BY <2>1 DEF ProxyInv
  <2>2. CASE d # c
    <3>1. call'[d] = call[d] /\ GoodCall(call[d], tokenSlot, authority)
      BY <2>2 DEF ProxyInv
    <3> QED  BY <3>1 DEF GoodCall
  <2> QED  BY <2>1, <2>2
<1> QED
  BY <1>1, <1>2 DEF ProxyInv

LEMMA DisturbedIsGood ==
    ASSUME NEW k \in CallRecords, NEW slot, NEW a, GoodCall(k, slot, a),
           NEW otherSlot, NEW b
    PROVE  LET j == [k EXCEPT !.disturbed = TRUE]
           IN  j \in CallRecords /\ GoodCall(j, otherSlot, b)
  BY DEF CallRecords, GoodCall, AsksAgain

LEMMA EndedIsGood ==
    ASSUME NEW k \in CallRecords, NEW slot, NEW a, GoodCall(k, slot, a),
           NEW answer \in CallAnswers, answer \in {"401", "refused"} => k.disturbed
    PROVE  LET j == [k EXCEPT !.st = "done", !.answer = answer]
           IN  j \in CallRecords /\ \A s, b : GoodCall(j, s, b)
  BY DEF CallRecords, CallSteps, GoodCall, AsksAgain

LEMMA CallEnds ==
    ASSUME ProxyInv, NEW c \in Calls, NEW answer \in CallAnswers, Ends(c, answer),
           answer \in {"401", "refused"} => call[c].disturbed,
           UNCHANGED <<authority, tokenSlot>>
    PROVE  ProxyInv'
<1> PICK k \in CallRecords : k = call[c] /\ GoodCall(k, tokenSlot, authority)
  BY DEF ProxyInv
<1> PICK j \in CallRecords : j = [k EXCEPT !.st = "done", !.answer = answer] /\ GoodCall(j, tokenSlot, authority)
  BY EndedIsGood
<1>1. call' = [call EXCEPT ![c] = j]
  BY DEF Ends, ProxyInv
<1> QED
  BY <1>1, OneCallGoesOn

LEMMA ProxyStep == ProxyInv /\ [WpNext]_wpVars => ProxyInv'
<1> SUFFICES ASSUME ProxyInv, [WpNext]_wpVars PROVE ProxyInv'
  OBVIOUS
<1>1. ASSUME UNCHANGED <<authority, call>>, tokenSlot' \in {0, tokenSlot} PROVE ProxyInv'
  BY <1>1 DEF ProxyInv, GoodCall
<1>2. ASSUME NEW h \in Helpers, HelperEnds(h) PROVE ProxyInv'
  <2>1. UNCHANGED <<authority, tokenSlot>>
    BY <1>2 DEF HelperEnds
  <2>2. CASE call' = call
    BY <1>1, <2>1, <2>2 DEF ProxyInv
  <2>3. CASE call' = [c \in Calls |-> IF c \in ActiveCalls
                                     THEN [call[c] EXCEPT !.st = "done", !.answer = "aborted"] ELSE call[c]]
    <3>1. ASSUME NEW c \in Calls PROVE call'[c] \in CallRecords /\ GoodCall(call'[c], tokenSlot, authority)
      <4> PICK k \in CallRecords : k = call[c] /\ GoodCall(k, tokenSlot, authority)
        BY DEF ProxyInv
      <4>1. "aborted" \in CallAnswers
        BY DEF CallAnswers
      <4>2. LET j == [k EXCEPT !.st = "done", !.answer = "aborted"]
            IN  j \in CallRecords /\ GoodCall(j, tokenSlot, authority)
        BY <4>1, EndedIsGood
      <4> QED  BY <4>2, <2>3
    <3> QED  BY <2>1, <2>3, <3>1 DEF ProxyInv
  <2> QED  BY <1>2, <2>2, <2>3 DEF HelperEnds
<1>3. ASSUME DaemonRestarts PROVE ProxyInv'
  <2>1. authority' \in Authorities /\ UNCHANGED tokenSlot
    <3>1. PICK up \in BOOLEAN : authority' = [authority EXCEPT !.token = @ + 1, !.up = up]
      BY <1>3 DEF DaemonRestarts
    <3>2. authority.token + 1 \in Nat
      BY DEF ProxyInv, Authorities
    <3> QED  BY <1>3, <3>1, <3>2 DEF DaemonRestarts, ProxyInv, Authorities
  <2>2. ASSUME NEW c \in Calls PROVE call'[c] \in CallRecords /\ GoodCall(call'[c], tokenSlot, authority')
    <3> PICK k \in CallRecords : k = call[c] /\ GoodCall(k, tokenSlot, authority)
      BY DEF ProxyInv
    <3>1. CASE c \in ActiveCalls
      BY <1>3, <3>1, DisturbedIsGood DEF DaemonRestarts
    <3>2. CASE c \notin ActiveCalls
      <4>1. call'[c] = k /\ k.st \in {"idle", "done"}
        BY <1>3, <3>2 DEF DaemonRestarts, ActiveCalls
      <4> QED  BY <4>1 DEF GoodCall, AsksAgain
    <3> QED  BY <3>1, <3>2
  <2> QED  BY <1>3, <2>1, <2>2 DEF DaemonRestarts, ProxyInv
<1>4. ASSUME DaemonReturns PROVE ProxyInv'
  <2>1. authority' \in Authorities /\ authority'.demands = authority.demands /\ authority'.token = authority.token
    BY <1>4 DEF DaemonReturns, ProxyInv, Authorities
  <2> QED  BY <1>4, <2>1 DEF DaemonReturns, ProxyInv, GoodCall
<1>5. ASSUME NEW c \in Calls,
             proxy_api(c) \/ proxy_ui(c) \/ proxy_websocket(c) \/ proxy_status(c) PROVE ProxyInv'
  <2> PICK k \in CallRecords : k = call[c] /\ GoodCall(k, tokenSlot, authority)
    BY DEF ProxyInv
  <2>1. PICK kind \in CallKinds, st \in {"token", "send", "done"} :
           Begins(c, kind, st) /\ (st = "send" => kind = "ui")
    BY <1>5 DEF proxy_api, proxy_ui, proxy_websocket, proxy_status, CallKinds
  <2> PICK disturbed \in BOOLEAN : disturbed = ~authority.up
    OBVIOUS
  <2> PICK answer \in {"unreachable", "none"} : answer = IF st = "done" THEN "unreachable" ELSE "none"
    OBVIOUS
  <2>2. PICK j : j = [k EXCEPT !.kind = kind, !.disturbed = disturbed, !.st = st, !.answer = answer]
    OBVIOUS
  <2>3. k.st = "idle" /\ call' = [call EXCEPT ![c] = j] /\ UNCHANGED <<authority, tokenSlot>>
    BY <2>1, <2>2 DEF Begins, ProxyInv
  <2>4. st \in CallSteps /\ answer \in CallAnswers
    BY DEF CallSteps, CallAnswers
  <2>5. j \in CallRecords
    BY <2>2, <2>4 DEF CallRecords
  <2>6. /\ j.kind = kind /\ j.st = st /\ j.retried = k.retried /\ j.ran = k.ran
        /\ j.answer = IF st = "done" THEN "unreachable" ELSE "none"
    BY <2>2 DEF CallRecords
  <2>7. ~k.retried /\ k.ran = 0
    BY <2>3 DEF GoodCall
  <2>8. GoodCall(j, tokenSlot, authority)
    BY <2>1, <2>6, <2>7 DEF GoodCall, AsksAgain
  <2> QED  BY <2>3, <2>5, <2>8, OneCallGoesOn
<1>6. ASSUME NEW c \in Calls, current_token(c) PROVE ProxyInv'
  <2> PICK k \in CallRecords : k = call[c] /\ GoodCall(k, tokenSlot, authority)
    BY DEF ProxyInv
  <2>1. CASE tokenSlot # 0 /\ k.kind # "ws"
    <3>1. PICK j : j = [k EXCEPT !.token = tokenSlot, !.st = "send"]
      OBVIOUS
    <3>2. k.st = "token" /\ call' = [call EXCEPT ![c] = j] /\ UNCHANGED <<authority, tokenSlot>>
      BY <1>6, <2>1, <3>1 DEF current_token, ProxyInv
    <3>3. j \in CallRecords
      BY <3>1 DEF CallRecords, CallSteps, ProxyInv
    <3>4. GoodCall(j, tokenSlot, authority)
      BY <3>1, <3>2, <2>1 DEF GoodCall, AsksAgain, CallRecords
    <3> QED  BY <3>2, <3>3, <3>4, OneCallGoesOn
  <2>2. CASE ~(tokenSlot # 0 /\ k.kind # "ws")
    <3>1. PICK j : j = [k EXCEPT !.st = "startup"]
      OBVIOUS
    <3>2. k.st = "token" /\ call' = [call EXCEPT ![c] = j] /\ UNCHANGED <<authority, tokenSlot>>
      BY <1>6, <2>2, <3>1 DEF current_token, ProxyInv
    <3>3. j \in CallRecords
      BY <3>1 DEF CallRecords, CallSteps
    <3>4. GoodCall(j, tokenSlot, authority)
      BY <3>1, <3>2 DEF GoodCall, AsksAgain, CallRecords
    <3> QED  BY <3>2, <3>3, <3>4, OneCallGoesOn
  <2> QED  BY <2>1, <2>2
<1>7. ASSUME NEW c \in Calls, AskStartup(c) PROVE ProxyInv'
  <2> PICK k \in CallRecords : k = call[c] /\ GoodCall(k, tokenSlot, authority)
    BY DEF ProxyInv
  <2>1. CASE authority.up
    <3>1. PICK j : j = [k EXCEPT !.token = IF authority.demands THEN authority.token ELSE 0, !.st = "store"]
      OBVIOUS
    <3>2. k.st = "startup" /\ call' = [call EXCEPT ![c] = j] /\ UNCHANGED <<authority, tokenSlot>>
      BY <1>7, <2>1, <3>1 DEF AskStartup, ProxyInv
    <3>3. j \in CallRecords
      BY <3>1 DEF CallRecords, CallSteps, ProxyInv, Authorities
    <3>4. GoodCall(j, tokenSlot, authority)
      BY <3>1, <3>2 DEF GoodCall, AsksAgain, CallRecords
    <3> QED  BY <3>2, <3>3, <3>4, OneCallGoesOn
  <2>2. CASE ~authority.up
    <3>1. PICK answer \in {"lenient", "502"} : Ends(c, answer)
      BY <1>7, <2>2 DEF AskStartup
    <3> QED  BY <1>7, <3>1, CallEnds DEF AskStartup, CallAnswers
  <2> QED  BY <2>1, <2>2
<1>8. ASSUME NEW c \in Calls, StoreToken(c) PROVE ProxyInv'
  <2> PICK k \in CallRecords : k = call[c] /\ GoodCall(k, tokenSlot, authority)
    BY DEF ProxyInv
  <2>1. k.st = "store" /\ tokenSlot' = k.token /\ tokenSlot' \in Nat /\ UNCHANGED authority
    BY <1>8 DEF StoreToken, CallRecords
  <2>2. call'[c] \in CallRecords /\ GoodCall(call'[c], tokenSlot', authority)
    <3>1. CASE call'[c] = [k EXCEPT !.st = "send"]
      BY <2>1, <3>1 DEF GoodCall, AsksAgain, CallRecords, CallSteps
    <3>2. CASE \E answer \in {"502", "lenient"} : call'[c] = [k EXCEPT !.st = "done", !.answer = answer]
      <4>1. PICK answer \in {"502", "lenient"} : call'[c] = [k EXCEPT !.st = "done", !.answer = answer]
        BY <3>2
      <4>2. answer \in CallAnswers
        BY DEF CallAnswers
      <4>3. answer \notin {"401", "refused"}
        BY <4>1
      <4>4. LET j == [k EXCEPT !.st = "done", !.answer = answer]
            IN  j \in CallRecords /\ \A s, b : GoodCall(j, s, b)
        BY <4>2, <4>3, EndedIsGood
      <4> QED  BY <4>1, <4>4
    <3>3. call'[c] = CASE k.token # 0 -> [k EXCEPT !.st = "send"]
                       [] k.kind = "ws" -> [k EXCEPT !.st = "done", !.answer = "502"]
                       [] k.kind = "status" -> [k EXCEPT !.st = "done", !.answer = "lenient"]
                       [] OTHER -> [k EXCEPT !.st = "send"]
      BY <1>8 DEF StoreToken
    <3> QED  BY <3>1, <3>2, <3>3
  <2>3. ASSUME NEW d \in Calls, d # c PROVE call'[d] \in CallRecords /\ GoodCall(call'[d], tokenSlot', authority)
    <3> PICK m \in CallRecords : m = call[d] /\ GoodCall(m, tokenSlot, authority)
      BY DEF ProxyInv
    <3>1. CASE d \in ActiveCalls
      BY <1>8, <2>3, <3>1, DisturbedIsGood DEF StoreToken
    <3>2. CASE d \notin ActiveCalls
      <4>1. call'[d] = m /\ m.st \in {"idle", "done"}
        BY <1>8, <2>3, <3>2 DEF StoreToken, ActiveCalls
      <4> QED  BY <4>1 DEF GoodCall, AsksAgain
    <3> QED  BY <3>1, <3>2
  <2> QED  BY <1>8, <2>1, <2>2, <2>3 DEF StoreToken, ProxyInv
<1>9. ASSUME NEW c \in Calls, NEW lost \in BOOLEAN, forward_once(c, lost) PROVE ProxyInv'
  <2> PICK k \in CallRecords : k = call[c] /\ GoodCall(k, tokenSlot, authority)
    BY DEF ProxyInv
  <2>1. CASE k.kind = "ui" \/ (authority.up /\ Accepts(c))
    <3> PICK answer \in {"502", "200"} : answer = IF lost THEN "502" ELSE "200"
      OBVIOUS
    <3>1. PICK j : j = [k EXCEPT !.ran = @ + 1, !.st = "done", !.answer = answer]
      OBVIOUS
    <3>2. k.st = "send" /\ call' = [call EXCEPT ![c] = j] /\ UNCHANGED <<authority, tokenSlot>>
      BY <1>9, <2>1, <3>1 DEF forward_once, ProxyInv
    <3>3. k.ran = 0
      BY <3>2 DEF GoodCall
    <3>4. j \in CallRecords
      <4>1. k.ran + 1 = 1
        BY <3>3
      <4>2. j = [k EXCEPT !.ran = 1, !.st = "done", !.answer = answer]
        BY <3>1, <4>1
      <4> QED  BY <4>2 DEF CallRecords, CallSteps, CallAnswers
    <3>5. j.st = "done" /\ j.answer = answer
      BY <3>1 DEF CallRecords
    <3>6. GoodCall(j, tokenSlot, authority)
      BY <3>5 DEF GoodCall, AsksAgain
    <3> QED  BY <3>2, <3>4, <3>6, OneCallGoesOn
  <2>2. CASE ~(k.kind = "ui" \/ (authority.up /\ Accepts(c))) /\ authority.up
    <3>1. PICK j : j = [k EXCEPT !.st = "unauthorized"]
      OBVIOUS
    <3>2. k.st = "send" /\ call' = [call EXCEPT ![c] = j] /\ UNCHANGED <<authority, tokenSlot>>
      BY <1>9, <2>2, <3>1 DEF forward_once, ProxyInv
    <3>3. authority.demands /\ k.token # authority.token
      BY <2>2 DEF Accepts
    <3>4. j \in CallRecords
      BY <3>1 DEF CallRecords, CallSteps
    <3>5. ~AsksAgain(k) /\ k.ran = 0 /\ k.answer = "none"
      BY <3>2, <3>3 DEF GoodCall
    <3>6. GoodCall(j, tokenSlot, authority)
      BY <3>1, <3>5 DEF GoodCall, AsksAgain, CallRecords
    <3> QED  BY <3>2, <3>4, <3>6, OneCallGoesOn
  <2>3. CASE ~(k.kind = "ui" \/ (authority.up /\ Accepts(c))) /\ ~authority.up
    <3>1. Ends(c, "502") /\ UNCHANGED <<authority, tokenSlot>>
      BY <1>9, <2>3 DEF forward_once
    <3> QED  BY <3>1, CallEnds DEF CallAnswers
  <2> QED  BY <2>1, <2>2, <2>3
<1>10. ASSUME NEW c \in Calls, bridge_websocket(c) PROVE ProxyInv'
  <2> PICK k \in CallRecords : k = call[c] /\ GoodCall(k, tokenSlot, authority)
    BY DEF ProxyInv
  <2>1. k.st = "send" /\ k.kind = "ws" /\ UNCHANGED <<authority, tokenSlot>>
    BY <1>10 DEF bridge_websocket
  <2>2. CASE authority.up /\ Accepts(c)
    <3>1. PICK j : j = [k EXCEPT !.st = "bridged"]
      OBVIOUS
    <3>2. call' = [call EXCEPT ![c] = j]
      BY <1>10, <2>2, <3>1 DEF bridge_websocket, ProxyInv
    <3>3. j \in CallRecords /\ GoodCall(j, tokenSlot, authority)
      BY <2>1, <3>1 DEF CallRecords, CallSteps, GoodCall, AsksAgain
    <3> QED  BY <2>1, <3>2, <3>3, OneCallGoesOn
  <2>3. CASE authority.up /\ ~Accepts(c)
    <3>1. Ends(c, "refused")
      BY <1>10, <2>3 DEF bridge_websocket
    <3>2. k.disturbed
      BY <2>1, <2>3 DEF Accepts, GoodCall, AsksAgain
    <3> QED  BY <2>1, <3>1, <3>2, CallEnds DEF CallAnswers
  <2>4. CASE ~authority.up
    <3>1. Ends(c, "aborted")
      BY <1>10, <2>4 DEF bridge_websocket
    <3> QED  BY <2>1, <3>1, CallEnds DEF CallAnswers
  <2> QED  BY <2>2, <2>3, <2>4
<1>11. ASSUME NEW c \in Calls, BridgeEnds(c) PROVE ProxyInv'
  BY <1>11, CallEnds DEF BridgeEnds, CallAnswers
<1>12. ASSUME NEW c \in Calls, daemon_requires_proxy_identity(c) PROVE ProxyInv'
  <2>1. PICK answer \in {"strict", "lenient"} : Ends(c, answer)
    BY <1>12 DEF daemon_requires_proxy_identity
  <2> QED  BY <1>12, <2>1, CallEnds DEF daemon_requires_proxy_identity, CallAnswers
<1>13. ASSUME NEW c \in Calls, RetryUnauthorized(c) PROVE ProxyInv'
  <2> PICK k \in CallRecords : k = call[c] /\ GoodCall(k, tokenSlot, authority)
    BY DEF ProxyInv
  <2>1. k.st = "unauthorized" /\ UNCHANGED authority
    BY <1>13 DEF RetryUnauthorized
  <2>2. CASE k.retried
    <3>1. Ends(c, "401") /\ UNCHANGED tokenSlot
      BY <1>13, <2>2 DEF RetryUnauthorized
    <3>2. k.disturbed
      BY <2>1, <2>2 DEF GoodCall, AsksAgain
    <3> QED  BY <2>1, <3>1, <3>2, CallEnds DEF CallAnswers
  <2>3. CASE ~k.retried
    <3>1. PICK j : j = [k EXCEPT !.retried = TRUE, !.st = "token"]
      OBVIOUS
    <3>2. call' = [call EXCEPT ![c] = j] /\ tokenSlot' = 0
      BY <1>13, <2>3, <3>1 DEF RetryUnauthorized, ProxyInv
    <3>3. j \in CallRecords /\ GoodCall(j, 0, authority)
      BY <2>1, <3>1 DEF CallRecords, CallSteps, GoodCall, AsksAgain
    <3> QED  BY <2>1, <3>2, <3>3, OneCallGoesOn
  <2> QED  BY <2>2, <2>3
<1>14. ASSUME NEW h \in Helpers,
              (\E insecure \in BOOLEAN : StartHelper(h, insecure)) \/ WriteCertificate(h) \/ WriteKey(h) \/ BindPort(h)
       PROVE  ProxyInv'
  <2>1. UNCHANGED <<authority, call>> /\ tokenSlot' \in {0, tokenSlot}
    BY <1>14 DEF StartHelper, WriteCertificate, WriteKey, BindPort
  <2> QED  BY <1>1, <2>1
<1>15. ASSUME UNCHANGED wpVars PROVE ProxyInv'
  BY <1>1, <1>15 DEF wpVars
<1> QED
  BY <1>2, <1>3, <1>4, <1>5, <1>6, <1>7, <1>8, <1>9, <1>10, <1>11, <1>12, <1>13, <1>14, <1>15
  DEF WpNext

\* However calls, restarts of the daemon and of the proxy and the one token slot interleave, a
\* call is carried out at most once, and is refused in the end only if the daemon restarted or
\* another call filled the slot meanwhile (proxy_api, current_token, bridge_websocket).
THEOREM BrowserCallsHold == WpSpec => []CallsAreForwarded
<1>1. ProxyInv => CallsAreForwarded
  BY DEF ProxyInv, GoodCall, CallRecords, CallsAreForwarded, CarriedOutOnce, StaleTokenIsReplaced
<1> QED
  BY <1>1, ProxyInitially, ProxyStep, PTL DEF WpSpec

----------------------------------------------------------------------------
(* The console of the primary agent. *)

Profiles ==
    [model : Models \cup {Unset}, limits : {Unset, "valid", "invalid"}, slim : BOOLEAN, ver : Nat]
Settings ==
    ({"model"} \X Models) \cup ({"limits"} \X {"valid", "invalid"}) \cup ({"slim"} \X BOOLEAN)
Vias == {"none", "stream", "ipc", "focus"}
Messages == [by : SendIds, what : Settings \cup ({"prompt"} \X Nat), via : Vias]
SendTasks ==
    [at : {"none", "spawned", "waiting", "done"}, kind : {"none", "apply", "send"},
     profile : Profiles, options : ModelOptions \cup {{}}, via : Vias, clicked : Nat]
Desks ==
    [loading : BOOLEAN, loaded : Endpoints \cup {Nowhere}, applying : BOOLEAN, profile : Profiles,
     draft : Nat, texts : Nat]

\* What task t has handed over in the first n messages of q.
SentBy(q, n, t) == {j \in 1..n : q[j].by = t}
Handed(q, n, t) == {q[j].what : j \in SentBy(q, n, t)}

\* The first n messages of q hold the settings of task t, whose record is s, complete and of
\* one acceptable state of the controls after the click.
HasEnvelope(q, n, t, s) ==
    /\ Acceptable(s.profile, s.options)
    /\ s.profile.ver >= s.clicked
    /\ Handed(q, n, t) = Range(profile_control_commands(s.profile))

\* A task has handed over nothing before it runs; one that waits to send its prompt has handed
\* over its settings and no prompt.  ver counts the changes of the settings so far.
TaskOK(t, s, q, ver) ==
    /\ s.at \in {"none", "spawned"} => SentBy(q, Len(q), t) = {}
    /\ s.at = "spawned" /\ s.kind = "send" => s.clicked <= ver
    /\ s.at = "waiting" /\ s.kind = "send" => HasEnvelope(q, Len(q), t, s)

\* A prompt ends its task, and the settings are before it.
PromptOK(i, q, s) == s.at = "done" /\ HasEnvelope(q, i - 1, q[i].by, s)

SendsOK(q, tasks, ver) ==
    /\ q \in Seq(Messages)
    /\ tasks \in [SendIds -> SendTasks]
    /\ \A t \in SendIds : TaskOK(t, tasks[t], q, ver)
    /\ \A i \in 1..Len(q) : IsPrompt(q[i]) => PromptOK(i, q, tasks[q[i].by])

\* The inductive invariant.
ConsoleInv ==
    /\ reported \in [endpoint : Endpoints \cup {Nowhere}, options : ModelOptions, idle : BOOLEAN]
    /\ attached \in [via : {"none", "stream", "ipc"}, focus : BOOLEAN]
    /\ desk \in Desks
    /\ loadTask \in [LoadIds -> [at : {"none", "spawned", "loading"}, of : Endpoints \cup {Nowhere}]]
    /\ SendsOK(outgoing, sendTask, desk.profile.ver)
    /\ FlagsHaveATask

\* Messages of task t are added to q.
Extends(q, r, t) ==
    /\ r \in Seq(Messages) /\ Len(q) <= Len(r)
    /\ \A i \in 1..Len(q) : r[i] = q[i]
    /\ \A i \in 1..Len(r) : i > Len(q) => r[i].by = t

LEMMA SameBeginning ==
    ASSUME NEW q \in Seq(Messages), NEW t \in SendIds, NEW r, Extends(q, r, t),
           NEW n \in Nat, n <= Len(q), NEW u
    PROVE  SentBy(r, n, u) = SentBy(q, n, u) /\ Handed(r, n, u) = Handed(q, n, u)
<1>1. \A j \in 1..n : r[j] = q[j]
  BY DEF Extends
<1>2. SentBy(r, n, u) = SentBy(q, n, u)
  BY <1>1 DEF SentBy
<1>3. \A j \in SentBy(q, n, u) : r[j].what = q[j].what
  BY <1>1 DEF SentBy
<1> QED
  BY <1>2, <1>3 DEF Handed

LEMMA OthersSendNothing ==
    ASSUME NEW q \in Seq(Messages), NEW t \in SendIds, NEW r, Extends(q, r, t), NEW u, u # t
    PROVE  SentBy(r, Len(r), u) = SentBy(q, Len(q), u) /\ Handed(r, Len(r), u) = Handed(q, Len(q), u)
<1>1. SentBy(r, Len(r), u) = SentBy(r, Len(q), u)
  BY DEF SentBy, Extends
<1>2. SentBy(r, Len(q), u) = SentBy(q, Len(q), u) /\ Handed(r, Len(q), u) = Handed(q, Len(q), u)
  BY SameBeginning
<1> QED
  BY <1>1, <1>2 DEF Handed

\* A task that has not ended goes on, and adds messages.
LEMMA OneTaskGoesOn ==
    ASSUME NEW q, NEW tasks, NEW ver, SendsOK(q, tasks, ver),
           NEW t \in SendIds, tasks[t].at # "done", NEW s \in SendTasks,
           NEW r, Extends(q, r, t), TaskOK(t, s, r, ver),
           \A i \in 1..Len(r) : i > Len(q) /\ IsPrompt(r[i]) => PromptOK(i, r, s)
    PROVE  SendsOK(r, [tasks EXCEPT ![t] = s], ver)
<1> PICK after : after = [tasks EXCEPT ![t] = s]
  OBVIOUS
<1>1. q \in Seq(Messages) /\ r \in Seq(Messages) /\ tasks \in [SendIds -> SendTasks]
  BY DEF SendsOK, Extends
<1>2. after \in [SendIds -> SendTasks]
  BY <1>1
<1>3. ASSUME NEW u \in SendIds PROVE TaskOK(u, after[u], r, ver)
  <2>1. CASE u = t
    BY <1>1, <2>1
  <2>2. CASE u # t
    <3>1. after[u] = tasks[u] /\ TaskOK(u, tasks[u], q, ver)
      BY <1>1, <2>2 DEF SendsOK
    <3>2. /\ SentBy(r, Len(r), u) = SentBy(q, Len(q), u)
          /\ Handed(r, Len(r), u) = Handed(q, Len(q), u)
      BY <1>1, <2>2, OthersSendNothing
    <3> QED  BY <3>1, <3>2 DEF TaskOK, HasEnvelope
  <2> QED  BY <2>1, <2>2
<1>4. ASSUME NEW i \in 1..Len(r), IsPrompt(r[i]) PROVE PromptOK(i, r, after[r[i].by])
  <2>1. CASE i > Len(q)
    <3>1. r[i].by = t /\ after[t] = s
      BY <1>1, <2>1 DEF Extends
    <3> QED  BY <1>4, <2>1, <3>1
  <2>2. CASE i <= Len(q)
    <3>1. i \in 1..Len(q) /\ r[i] = q[i]
      BY <1>1, <2>2 DEF Extends
    <3>2. q[i] \in Messages
      BY <1>1, <3>1
    <3>3. PICK u \in SendIds : u = q[i].by
      BY <3>2 DEF Messages
    <3>4. PromptOK(i, q, tasks[u])
      BY <1>4, <3>1, <3>3 DEF SendsOK
    <3>5. u # t
      BY <3>4 DEF PromptOK
    <3>6. after[u] = tasks[u]
      BY <1>1, <3>5
    <3>7. Handed(r, i - 1, u) = Handed(q, i - 1, u)
      BY <1>1, <3>1, SameBeginning
    <3> QED  BY <3>1, <3>3, <3>4, <3>6, <3>7 DEF PromptOK, HasEnvelope
  <2> QED  BY <1>1, <2>1, <2>2
<1>5. SendsOK(r, after, ver)
  BY <1>1, <1>2, <1>3, <1>4 DEF SendsOK
<1> QED
  BY <1>5

----------------------------------------------------------------------------
(* Sequences. *)

LEMMA OneIsASequence ==
    ASSUME NEW S, NEW x \in S
    PROVE  <<x>> \in Seq(S)
  OBVIOUS

LEMMA JoinFacts ==
    ASSUME NEW S, NEW a \in Seq(S), NEW b \in Seq(S)
    PROVE  /\ a \o b \in Seq(S)
           /\ Len(a \o b) = Len(a) + Len(b)
           /\ \A i \in 1..Len(a) : (a \o b)[i] = a[i]
           /\ \A i \in 1..Len(b) : Len(a) + i \in 1..Len(a \o b) /\ (a \o b)[Len(a) + i] = b[i]
           /\ \A i \in 1..Len(a \o b) : i > Len(a) => i - Len(a) \in 1..Len(b) /\ (a \o b)[i] = b[i - Len(a)]
  OBVIOUS

LEMMA AppendFacts ==
    ASSUME NEW S, NEW a \in Seq(S), NEW x \in S
    PROVE  /\ Append(a, x) \in Seq(S)
           /\ Len(Append(a, x)) = Len(a) + 1
           /\ Append(a, x)[Len(a) + 1] = x
           /\ \A i \in 1..Len(a) : Append(a, x)[i] = a[i]
  OBVIOUS

----------------------------------------------------------------------------
(* What the console sends. *)

\* The settings make one to three messages, none of them a prompt.
LEMMA CommandsAreSettings ==
    ASSUME NEW p \in Profiles, p.limits # "invalid"
    PROVE  profile_control_commands(p) \in Seq(Settings)
<1> PICK slim \in BOOLEAN : slim = p.slim
  BY DEF Profiles
<1>1. <<"slim", slim>> \in Settings
  BY DEF Settings
<1>2. p.model # Unset => <<"model", p.model>> \in Settings
  BY DEF Settings, Profiles
<1>3. p.limits # Unset => <<"limits", p.limits>> \in Settings
  BY DEF Settings, Profiles
<1> DEFINE a == IF p.model = Unset THEN <<>> ELSE <<<<"model", p.model>>>>
           b == IF p.limits = Unset THEN <<>> ELSE <<<<"limits", p.limits>>>>
           c == <<<<"slim", p.slim>>>>
<1>0. <<>> \in Seq(Settings)
  OBVIOUS
<1>4. a \in Seq(Settings)
  BY <1>0, <1>2, OneIsASequence
<1>5. b \in Seq(Settings)
  BY <1>0, <1>3, OneIsASequence
<1>6. c \in Seq(Settings)
  BY <1>1, OneIsASequence
<1>7. profile_control_commands(p) = a \o b \o c
  BY DEF profile_control_commands
<1> HIDE DEF a, b, c
<1>8. a \o b \in Seq(Settings)
  BY <1>4, <1>5, JoinFacts
<1> QED
  BY <1>6, <1>7, <1>8, JoinFacts

LEMMA SettingsAreNoPrompts ==
    ASSUME NEW m \in Messages, m.what \in Settings
    PROVE  ~IsPrompt(m)
<1>1. m.what[1] \in {"model", "limits", "slim"}
  BY DEF Settings
<1> QED
  BY <1>1 DEF IsPrompt

\* Sending the settings of task t, which has sent nothing before.
LEMMA EnvelopeIsSent ==
    ASSUME NEW q \in Seq(Messages), NEW t \in SendIds, NEW p \in Profiles, p.limits # "invalid",
           NEW via \in Vias, SentBy(q, Len(q), t) = {}
    PROVE  LET r == q \o Envelope(t, p, via)
           IN  /\ Extends(q, r, t)
               /\ \A i \in 1..Len(r) : i > Len(q) => ~IsPrompt(r[i])
               /\ Handed(r, Len(r), t) = Range(profile_control_commands(p))
<1> PICK c \in Seq(Settings) : c = profile_control_commands(p)
  BY CommandsAreSettings
<1> PICK n \in Nat : n = Len(c) /\ DOMAIN c = 1..n
  OBVIOUS
<1> PICK l \in Nat : l = Len(q) /\ DOMAIN q = 1..l
  OBVIOUS
<1> PICK e : e = Envelope(t, p, via)
  OBVIOUS
<1>1. e = [i \in 1..n |-> [by |-> t, what |-> c[i], via |-> via]]
  BY DEF Envelope
<1>2. \A i \in 1..n : c[i] \in Settings
  OBVIOUS
<1>3. \A i \in 1..n : e[i] \in Messages /\ e[i].by = t /\ e[i].what = c[i] /\ e[i].what \in Settings
  BY <1>1, <1>2 DEF Messages
<1>4. e \in Seq(Messages) /\ Len(e) = n
  BY <1>1, <1>3
<1> PICK r : r = q \o e
  OBVIOUS
<1>5. /\ r \in Seq(Messages)
      /\ Len(r) = l + n
      /\ \A i \in 1..l : r[i] = q[i]
      /\ \A i \in 1..Len(r) : i > l => i - l \in 1..n /\ r[i] = e[i - l]
  <2>1. /\ r \in Seq(Messages)
        /\ Len(r) = Len(q) + Len(e)
        /\ \A i \in 1..Len(q) : r[i] = q[i]
    <3>1. r \in Seq(Messages)
      BY <1>4, JoinFacts
    <3>2. Len(r) = Len(q) + Len(e)
      <4>1. q \in Seq(Messages) /\ e \in Seq(Messages)
        BY <1>4
      <4> HIDE <1>4
      <4>2. Len(q \o e) = Len(q) + Len(e)
        BY <4>1
      <4> QED  BY <4>2
    <3>3. \A i \in 1..Len(q) : r[i] = q[i]
      BY <1>4, JoinFacts
    <3> QED  BY <3>1, <3>2, <3>3
  <2>2. \A i \in 1..Len(r) : i > Len(q) => i - Len(q) \in 1..Len(e) /\ r[i] = e[i - Len(q)]
    BY <1>4, JoinFacts
  <2> QED  BY <1>4, <2>1, <2>2
<1>6. \A i \in 1..n : l + i \in 1..Len(r) /\ r[l + i] = e[i]
  BY <1>4, JoinFacts
<1>7. Extends(q, r, t)
  BY <1>3, <1>5 DEF Extends
<1>8. ASSUME NEW i \in 1..Len(r), i > l PROVE ~IsPrompt(r[i])
  BY <1>3, <1>5, <1>8, SettingsAreNoPrompts
<1>9. SentBy(r, Len(r), t) = {j \in 1..Len(r) : j > l}
  <2>1. \A j \in 1..l : q[j].by # t
    BY DEF SentBy
  <2>2. \A j \in 1..Len(r) : j > l => r[j].by = t
    BY <1>7 DEF Extends
  <2>3. \A j \in 1..Len(r) : ~(j > l) => r[j].by # t
    BY <1>5, <2>1
  <2> QED  BY <2>2, <2>3 DEF SentBy
<1>10. Handed(r, Len(r), t) = Range(c)
  <2>1. ASSUME NEW w \in Handed(r, Len(r), t) PROVE w \in Range(c)
    <3>1. PICK j \in 1..Len(r) : j > l /\ w = r[j].what
      BY <1>9, <2>1 DEF Handed
    <3>2. j - l \in 1..n /\ w = c[j - l]
      BY <1>3, <1>5, <3>1
    <3> QED  BY <3>2 DEF Range
  <2>2. ASSUME NEW w \in Range(c) PROVE w \in Handed(r, Len(r), t)
    <3>1. PICK i \in 1..n : w = c[i]
      BY <2>2 DEF Range
    <3>2. l + i \in 1..Len(r) /\ l + i > l /\ r[l + i].what = w
      BY <1>3, <1>6, <3>1
    <3> QED  BY <1>9, <3>2 DEF Handed
  <2> QED  BY <2>1, <2>2
<1> QED
  BY <1>7, <1>8, <1>10

\* Sending the prompt of task t after its settings.
LEMMA PromptIsSent ==
    ASSUME NEW q \in Seq(Messages), NEW t \in SendIds, NEW b \in Seq(Messages), Extends(q, b, t),
           \A i \in 1..Len(b) : i > Len(q) => ~IsPrompt(b[i]),
           NEW m \in Messages, m.by = t, NEW s, s.at = "done", HasEnvelope(b, Len(b), t, s)
    PROVE  LET r == Append(b, m)
           IN  /\ Extends(q, r, t)
               /\ \A i \in 1..Len(r) : i > Len(q) /\ IsPrompt(r[i]) => PromptOK(i, r, s)
<1> PICK l \in Nat : l = Len(b)
  OBVIOUS
<1> PICK r : r = Append(b, m)
  OBVIOUS
<1>1. r \in Seq(Messages) /\ Len(r) = l + 1 /\ r[l + 1] = m /\ \A i \in 1..l : r[i] = b[i]
  BY AppendFacts
<1>2. Extends(b, r, t)
  BY <1>1 DEF Extends
<1>3. Extends(q, r, t)
  BY <1>1 DEF Extends
<1>4. ASSUME NEW i \in 1..Len(r), i > Len(q), IsPrompt(r[i]) PROVE PromptOK(i, r, s)
  <2>1. i = l + 1
    BY <1>1, <1>4
  <2>2. Handed(r, l, t) = Handed(b, l, t)
    BY <1>2, SameBeginning
  <2>3. i - 1 = l /\ r[i].by = t
    BY <1>1, <2>1
  <2> QED  BY <2>2, <2>3 DEF PromptOK, HasEnvelope
<1> QED
  BY <1>3, <1>4

LEMMA LaterSettings ==
    ASSUME NEW q, NEW tasks, NEW v \in Nat, NEW w \in Nat, v <= w, SendsOK(q, tasks, v)
    PROVE  SendsOK(q, tasks, w)
<1>1. ASSUME NEW t \in SendIds PROVE TaskOK(t, tasks[t], q, w)
  <2>1. TaskOK(t, tasks[t], q, v) /\ tasks[t].clicked \in Nat
    BY DEF SendsOK, SendTasks
  <2> QED  BY <2>1 DEF TaskOK
<1> QED
  BY <1>1 DEF SendsOK

LEMMA ConsoleInitially == AcInit => ConsoleInv
<1> SUFFICES ASSUME AcInit PROVE ConsoleInv
  OBVIOUS
<1>1. NoProfile \in Profiles
  BY DEF NoProfile, Profiles
<1>2. Idle \in SendTasks /\ Idle.at = "none"
  BY <1>1 DEF Idle, SendTasks, Vias
<1>3. desk \in Desks /\ ~desk.loading /\ ~desk.applying
  BY <1>1 DEF AcInit, Desks
<1>4. outgoing \in Seq(Messages) /\ Len(outgoing) = 0
  BY DEF AcInit
<1>5. ASSUME NEW t \in SendIds PROVE TaskOK(t, Idle, outgoing, desk.profile.ver)
  BY <1>2, <1>4 DEF TaskOK, SentBy
<1>6. SendsOK(outgoing, sendTask, desk.profile.ver)
  BY <1>2, <1>4, <1>5 DEF AcInit, SendsOK
<1>7. FlagsHaveATask
  BY <1>3 DEF FlagsHaveATask
<1>8. reported \in [endpoint : Endpoints \cup {Nowhere}, options : ModelOptions, idle : BOOLEAN]
  BY DEF AcInit
<1>9. attached \in [via : {"none", "stream", "ipc"}, focus : BOOLEAN]
  BY DEF AcInit
<1>10. loadTask \in [LoadIds -> [at : {"none", "spawned", "loading"}, of : Endpoints \cup {Nowhere}]]
  BY DEF AcInit
<1> QED
  BY <1>3, <1>6, <1>7, <1>8, <1>9, <1>10 DEF ConsoleInv

LEMMA LoadsKeepConsole ==
    ASSUME ConsoleInv, NEW l \in LoadIds,
           SpawnLoad(l) \/ LoadStarts(l) \/ \E ok \in BOOLEAN : LoadEnds(l, ok)
    PROVE  ConsoleInv'
<1>1. CASE SpawnLoad(l)
  BY <1>1 DEF SpawnLoad, ConsoleInv, FlagsHaveATask, SendsOK
<1>2. CASE LoadStarts(l)
  <2>1. desk' \in Desks /\ desk'.applying = desk.applying /\ desk'.profile = desk.profile
    BY <1>2 DEF LoadStarts, ConsoleInv, Desks
  <2>2. loadTask'[l].at = "loading"
    BY <1>2 DEF LoadStarts, ConsoleInv
  <2> QED  BY <1>2, <2>1, <2>2 DEF LoadStarts, ConsoleInv, FlagsHaveATask
<1>3. CASE \E ok \in BOOLEAN : LoadEnds(l, ok)
  <2>1. PICK ok \in BOOLEAN : LoadEnds(l, ok)
    BY <1>3
  <2>2. /\ desk' \in Desks /\ ~desk'.loading /\ desk'.applying = desk.applying
        /\ desk'.profile = desk.profile
    BY <2>1 DEF LoadEnds, ConsoleInv, Desks
  <2> QED  BY <2>1, <2>2 DEF LoadEnds, ConsoleInv, FlagsHaveATask
<1> QED
  BY <1>1, <1>2, <1>3

LEMMA StagingKeepsConsole ==
    ASSUME ConsoleInv, NEW p \in Profiles, Stage(p)
    PROVE  ConsoleInv'
<1>1. desk.profile.ver \in Nat /\ desk.profile.ver + 1 \in Nat
  BY DEF ConsoleInv, Desks, Profiles
<1>2. PICK r : r = [p EXCEPT !.ver = desk.profile.ver + 1]
  OBVIOUS
<1>3. r \in Profiles /\ r.ver = desk.profile.ver + 1
  BY <1>1, <1>2 DEF Profiles
<1>4. desk' = [desk EXCEPT !.profile = r]
  BY <1>2 DEF Stage
<1>5. /\ desk' \in Desks /\ desk'.loading = desk.loading /\ desk'.applying = desk.applying
      /\ desk'.profile = r
  BY <1>3, <1>4 DEF ConsoleInv, Desks
<1>6. SendsOK(outgoing, sendTask, desk'.profile.ver)
  BY <1>1, <1>3, <1>5, LaterSettings DEF ConsoleInv
<1> QED
  BY <1>5, <1>6 DEF Stage, ConsoleInv, FlagsHaveATask

LEMMA OutsideKeepsConsole ==
    ASSUME ConsoleInv, TypeText \/ Shift \/ \E i \in DOMAIN outgoing : Arrive(i)
    PROVE  ConsoleInv'
<1>1. CASE TypeText
  <2>1. desk' = [desk EXCEPT !.texts = @ + 1, !.draft = desk.texts + 1]
    BY <1>1 DEF TypeText
  <2>2. desk.texts + 1 \in Nat
    BY DEF ConsoleInv, Desks
  <2>3. /\ desk' \in Desks /\ desk'.loading = desk.loading /\ desk'.applying = desk.applying
        /\ desk'.profile = desk.profile
    BY <2>1, <2>2 DEF ConsoleInv, Desks
  <2> QED  BY <1>1, <2>3 DEF TypeText, ConsoleInv, FlagsHaveATask
<1>2. CASE Shift
  <2>1. reported' \in [endpoint : Endpoints \cup {Nowhere}, options : ModelOptions, idle : BOOLEAN]
    BY <1>2 DEF Shift, ConsoleInv
  <2>2. attached' \in [via : {"none", "stream", "ipc"}, focus : BOOLEAN]
    BY <1>2 DEF Shift, ConsoleInv
  <2> QED  BY <1>2, <2>1, <2>2 DEF Shift, ConsoleInv, FlagsHaveATask
<1>3. CASE \E i \in DOMAIN outgoing : Arrive(i)
  BY <1>3 DEF Arrive, ConsoleInv, FlagsHaveATask
<1> QED
  BY <1>1, <1>2, <1>3

LEMMA SameQueue ==
    ASSUME NEW q \in Seq(Messages), NEW t \in SendIds
    PROVE  Extends(q, q, t)
  BY DEF Extends

\* Task t goes on as s while nothing is handed over.
LEMMA QuietTask ==
    ASSUME ConsoleInv, NEW t \in SendIds, sendTask[t].at # "done", NEW s \in SendTasks,
           sendTask' = [sendTask EXCEPT ![t] = s], UNCHANGED <<attached, loadTask, outgoing>>,
           TaskOK(t, s, outgoing, desk.profile.ver),
           reported' \in [endpoint : Endpoints \cup {Nowhere}, options : ModelOptions, idle : BOOLEAN],
           desk' \in Desks, desk'.profile = desk.profile, desk'.loading = desk.loading,
           FlagsHaveATask'
    PROVE  ConsoleInv'
<1>1. PICK q \in Seq(Messages) : q = outgoing
  BY DEF ConsoleInv, SendsOK
<1>2. Extends(q, q, t)
  BY SameQueue
<1>3. ~\E i \in 1..Len(q) : i > Len(q)
  OBVIOUS
<1>4. SendsOK(outgoing, [sendTask EXCEPT ![t] = s], desk.profile.ver)
  <2>1. SendsOK(q, sendTask, desk.profile.ver) /\ TaskOK(t, s, q, desk.profile.ver)
    BY <1>1 DEF ConsoleInv
  <2>2. \A i \in 1..Len(q) : i > Len(q) /\ IsPrompt(q[i]) => PromptOK(i, q, s)
    BY <1>3
  <2> QED  BY <1>1, <1>2, <2>1, <2>2, OneTaskGoesOn
<1> QED
  BY <1>4 DEF ConsoleInv

LEMMA ClicksKeepConsole ==
    ASSUME ConsoleInv, NEW t \in SendIds, ClickApply(t) \/ ClickSend(t)
    PROVE  ConsoleInv'
<1>1. NoProfile \in Profiles /\ desk.profile \in Profiles /\ desk.profile.ver \in Nat
  BY DEF ConsoleInv, Desks, NoProfile, Profiles
<1>2. reported.options \in ModelOptions /\ attached.via \in Vias
  BY DEF ConsoleInv, Vias
<1>3. sendTask[t].at = "none" /\ sendTask[t].at # "done" /\ SentBy(outgoing, Len(outgoing), t) = {}
  BY DEF ClickApply, ClickSend, IsNextClick, ConsoleInv, SendsOK, TaskOK
<1>4. PICK s \in SendTasks : /\ sendTask' = [sendTask EXCEPT ![t] = s]
                             /\ s.at = "spawned"
                             /\ s.kind = "send" => s.clicked = desk.profile.ver
  <2>1. CASE ClickApply(t)
    <3>1. PICK s : s = [Idle EXCEPT !.at = "spawned", !.kind = "apply", !.profile = desk.profile,
                                    !.options = reported.options, !.via = attached.via]
      OBVIOUS
    <3>2. s = [at |-> "spawned", kind |-> "apply", profile |-> desk.profile, options |-> reported.options,
               via |-> attached.via, clicked |-> 0]
      BY <3>1 DEF Idle
    <3>3. s \in SendTasks /\ s.at = "spawned" /\ s.kind = "apply"
      BY <1>1, <1>2, <3>2 DEF SendTasks
    <3> QED  BY <2>1, <3>1, <3>3 DEF ClickApply
  <2>2. CASE ClickSend(t)
    <3>1. PICK s : s = [Idle EXCEPT !.at = "spawned", !.kind = "send", !.options = reported.options,
                                    !.clicked = desk.profile.ver]
      OBVIOUS
    <3>2. s = [at |-> "spawned", kind |-> "send", profile |-> NoProfile, options |-> reported.options,
               via |-> "none", clicked |-> desk.profile.ver]
      BY <3>1 DEF Idle
    <3>3. s \in SendTasks /\ s.at = "spawned" /\ s.clicked = desk.profile.ver
      BY <1>1, <1>2, <3>2 DEF SendTasks, Vias
    <3> QED  BY <2>2, <3>1, <3>3 DEF ClickSend
  <2> QED  BY <2>1, <2>2
<1>5. UNCHANGED <<reported, attached, desk, loadTask, outgoing>>
  BY DEF ClickApply, ClickSend
<1>6. TaskOK(t, s, outgoing, desk.profile.ver)
  BY <1>1, <1>3, <1>4 DEF TaskOK
<1>7. FlagsHaveATask'
  <2>1. \A u \in SendIds : sendTask[u].at = "waiting" => sendTask'[u] = sendTask[u]
    BY <1>3, <1>4 DEF ConsoleInv, SendsOK
  <2> QED  BY <1>5, <2>1 DEF ConsoleInv, FlagsHaveATask
<1>8. sendTask' = [sendTask EXCEPT ![t] = s]
  BY <1>4
<1> QED
  BY <1>3, <1>5, <1>6, <1>7, <1>8, QuietTask DEF ConsoleInv

\* Task t goes on as s and hands over what makes r of the messages.
LEMMA TaskSends ==
    ASSUME ConsoleInv, NEW t \in SendIds, sendTask[t].at # "done", NEW s \in SendTasks,
           sendTask' = [sendTask EXCEPT ![t] = s], UNCHANGED <<attached, loadTask>>,
           NEW r, outgoing' = r, Extends(outgoing, r, t), TaskOK(t, s, r, desk.profile.ver),
           \A i \in 1..Len(r) : i > Len(outgoing) /\ IsPrompt(r[i]) => PromptOK(i, r, s),
           reported' \in [endpoint : Endpoints \cup {Nowhere}, options : ModelOptions, idle : BOOLEAN],
           desk' \in Desks, desk'.profile = desk.profile, desk'.loading = desk.loading,
           FlagsHaveATask'
    PROVE  ConsoleInv'
<1>1. PICK q \in Seq(Messages) : q = outgoing
  BY DEF ConsoleInv, SendsOK
<1>2. SendsOK(q, sendTask, desk.profile.ver) /\ Extends(q, r, t)
  BY <1>1 DEF ConsoleInv
<1>3. \A i \in 1..Len(r) : i > Len(q) /\ IsPrompt(r[i]) => PromptOK(i, r, s)
  BY <1>1
<1>4. SendsOK(r, [sendTask EXCEPT ![t] = s], desk.profile.ver)
  BY <1>2, <1>3, OneTaskGoesOn
<1> QED
  BY <1>4 DEF ConsoleInv

LEMMA RunApplyKeepsConsole ==
    ASSUME ConsoleInv, NEW t \in SendIds, RunApply(t)
    PROVE  ConsoleInv'
<1> PICK k \in SendTasks : k = sendTask[t] /\ k.at = "spawned" /\ k.kind = "apply" /\ k.at # "done"
  BY DEF RunApply, ConsoleInv, SendsOK
<1> PICK q \in Seq(Messages) : q = outgoing /\ SentBy(q, Len(q), t) = {}
  BY DEF ConsoleInv, SendsOK, TaskOK
<1> DEFINE sends == Acceptable(k.profile, k.options) /\ k.via # "none"
           waits == sends /\ k.via = "ipc"
<1>1. PICK at \in {"waiting", "done"} : at = IF waits THEN "waiting" ELSE "done"
  OBVIOUS
<1>2. PICK s : s = [k EXCEPT !.at = at]
  OBVIOUS
<1>3. s \in SendTasks /\ s.at = at /\ s.kind = "apply"
  BY <1>2 DEF SendTasks
<1>4. sendTask' = [sendTask EXCEPT ![t] = s] /\ UNCHANGED <<reported, attached, loadTask>>
  BY <1>1, <1>2 DEF RunApply, ConsoleInv, SendsOK
<1>5. PICK r : outgoing' = r /\ Extends(q, r, t) /\ \A i \in 1..Len(r) : i > Len(q) => ~IsPrompt(r[i])
  <2>1. CASE sends
    <3>1. outgoing' = q \o Envelope(t, k.profile, k.via)
      BY <2>1 DEF RunApply
    <3>2. k.profile \in Profiles /\ k.via \in Vias /\ k.profile.limits # "invalid"
      BY <2>1 DEF SendTasks, Acceptable
    <3> QED  BY <3>1, <3>2, EnvelopeIsSent
  <2>2. CASE ~sends
    <3>1. outgoing' = q
      BY <2>2 DEF RunApply
    <3>2. \A i \in 1..Len(q) : ~(i > Len(q))
      OBVIOUS
    <3> QED  BY <3>1, <3>2, SameQueue
  <2> QED  BY <2>1, <2>2
<1>6. TaskOK(t, s, r, desk.profile.ver)
  BY <1>3 DEF TaskOK
<1>7. /\ desk' \in Desks /\ desk'.profile = desk.profile /\ desk'.loading = desk.loading
      /\ (desk'.applying => waits \/ desk' = desk)
  <2>1. CASE desk' = [desk EXCEPT !.applying = TRUE] /\ waits
    BY <2>1 DEF ConsoleInv, Desks
  <2>2. CASE desk' = [desk EXCEPT !.applying = FALSE]
    BY <2>2 DEF ConsoleInv, Desks
  <2>3. CASE desk' = desk
    BY <2>3 DEF ConsoleInv
  <2> QED  BY <2>1, <2>2, <2>3 DEF RunApply
<1>8. FlagsHaveATask'
  <2>1. \A u \in SendIds : sendTask[u].at = "waiting" => sendTask'[u] = sendTask[u]
    BY <1>4 DEF ConsoleInv, SendsOK
  <2>2. sendTask'[t] = s
    BY <1>4 DEF ConsoleInv, SendsOK
  <2>3. waits => s.at = "waiting"
    BY <1>1, <1>3
  <2> QED  BY <1>3, <1>4, <1>7, <2>1, <2>2, <2>3 DEF ConsoleInv, FlagsHaveATask
<1> HIDE DEF sends, waits
<1>9. reported' \in [endpoint : Endpoints \cup {Nowhere}, options : ModelOptions, idle : BOOLEAN]
  BY <1>4 DEF ConsoleInv
<1>10. Extends(outgoing, r, t) /\ \A i \in 1..Len(r) : i > Len(outgoing) => ~IsPrompt(r[i])
  BY <1>5
<1>11. \A i \in 1..Len(r) : i > Len(outgoing) /\ IsPrompt(r[i]) => PromptOK(i, r, s)
  BY <1>10
<1> QED
  BY <1>3, <1>4, <1>5, <1>6, <1>7, <1>8, <1>9, <1>10, <1>11, TaskSends

LEMMA FinishApplyKeepsConsole ==
    ASSUME ConsoleInv, NEW t \in SendIds, NEW answer, FinishApply(t, answer)
    PROVE  ConsoleInv'
<1> PICK k \in SendTasks : k = sendTask[t] /\ k.at = "waiting" /\ k.kind = "apply" /\ k.at # "done"
  BY DEF FinishApply, ConsoleInv, SendsOK
<1>1. PICK s : s = [k EXCEPT !.at = "done"]
  OBVIOUS
<1>2. s \in SendTasks /\ s.at = "done"
  BY <1>1 DEF SendTasks
<1>3. sendTask' = [sendTask EXCEPT ![t] = s] /\ UNCHANGED <<attached, loadTask, outgoing>>
  BY <1>1 DEF FinishApply, ConsoleInv, SendsOK
<1>4. TaskOK(t, s, outgoing, desk.profile.ver)
  BY <1>2 DEF TaskOK
<1>5. reported' \in [endpoint : Endpoints \cup {Nowhere}, options : ModelOptions, idle : BOOLEAN]
  BY DEF FinishApply, Answers, ConsoleInv
<1>6. desk' = [desk EXCEPT !.applying = FALSE]
  BY DEF FinishApply
<1>7. /\ desk' \in Desks /\ desk'.profile = desk.profile /\ desk'.loading = desk.loading
      /\ ~desk'.applying
  BY <1>6 DEF ConsoleInv, Desks
<1>8. FlagsHaveATask'
  BY <1>3, <1>7 DEF ConsoleInv, FlagsHaveATask
<1> QED
  BY <1>2, <1>3, <1>4, <1>5, <1>7, <1>8, QuietTask

\* The end of a send: b are the messages with the settings, and s is the task as it ends.
LEMMA PromptKeepsConsole ==
    ASSUME ConsoleInv, NEW t \in SendIds, sendTask[t].at # "done", NEW s \in SendTasks,
           s.at = "done", NEW b \in Seq(Messages), Extends(outgoing, b, t),
           \A i \in 1..Len(b) : i > Len(outgoing) => ~IsPrompt(b[i]),
           HasEnvelope(b, Len(b), t, s),
           NEW idle, NEW via \in {"stream", "ipc", "none", "focus"}, SendsPrompt(t, b, idle, via)
    PROVE  /\ Extends(outgoing, outgoing', t)
           /\ \A i \in 1..Len(outgoing') : i > Len(outgoing) /\ IsPrompt(outgoing'[i]) => PromptOK(i, outgoing', s)
           /\ desk' \in Desks /\ desk'.profile = desk.profile /\ desk'.loading = desk.loading
           /\ desk'.applying = desk.applying
<1> PICK q \in Seq(Messages) : q = outgoing
  BY DEF ConsoleInv, SendsOK
<1>1. CASE desk.draft = 0
  <2>1. outgoing' = b /\ desk' = desk
    BY <1>1 DEF SendsPrompt
  <2> QED  BY <2>1 DEF ConsoleInv
<1>2. CASE desk.draft # 0
  <2>1. PICK to \in Vias : to = IF attached.focus THEN "focus" ELSE via
    BY DEF Vias
  <2>2. PICK m : m = [by |-> t, what |-> <<"prompt", desk.draft>>, via |-> to]
    OBVIOUS
  <2>3. m \in Messages /\ m.by = t
    BY <2>2 DEF Messages, ConsoleInv, Desks
  <2>4. PICK r : r = Append(b, m)
    OBVIOUS
  <2>5. outgoing' = r
    BY <1>2, <2>1, <2>2, <2>4 DEF SendsPrompt
  <2>6. Extends(q, b, t) /\ \A i \in 1..Len(b) : i > Len(q) => ~IsPrompt(b[i])
    OBVIOUS
  <2>7. /\ Extends(q, r, t)
        /\ \A i \in 1..Len(r) : i > Len(q) /\ IsPrompt(r[i]) => PromptOK(i, r, s)
    BY <2>3, <2>4, <2>6, PromptIsSent
  <2>8. PICK d \in Nat : desk' = [desk EXCEPT !.draft = d]
    <3>1. desk' = [desk EXCEPT !.draft = IF idle THEN 0 ELSE desk.draft]
      BY <1>2 DEF SendsPrompt
    <3>2. (IF idle THEN 0 ELSE desk.draft) \in Nat
      BY DEF ConsoleInv, Desks
    <3> QED  BY <3>1, <3>2
  <2>9. /\ desk' \in Desks /\ desk'.profile = desk.profile /\ desk'.loading = desk.loading
        /\ desk'.applying = desk.applying
    BY <2>8 DEF ConsoleInv, Desks
  <2> QED  BY <2>5, <2>7, <2>9
<1> QED  BY <1>1, <1>2

\* The tasks that a flag stands for are not disturbed by a task that only sends.
LEMMA FlagsStay ==
    ASSUME ConsoleInv, NEW t \in SendIds, sendTask[t].kind = "send",
           NEW s, sendTask' = [sendTask EXCEPT ![t] = s], UNCHANGED loadTask,
           desk'.loading = desk.loading, desk'.applying = desk.applying
    PROVE  FlagsHaveATask'
<1>1. \A u \in SendIds : sendTask[u].kind = "apply" => sendTask'[u] = sendTask[u]
  BY DEF ConsoleInv, SendsOK
<1> QED
  BY <1>1 DEF ConsoleInv, FlagsHaveATask

LEMMA RunSendKeepsConsole ==
    ASSUME ConsoleInv, NEW t \in SendIds, RunSend(t)
    PROVE  ConsoleInv'
<1> PICK k \in SendTasks : k = sendTask[t] /\ k.at = "spawned" /\ k.kind = "send" /\ k.at # "done"
  BY DEF RunSend, ConsoleInv, SendsOK
<1> PICK q \in Seq(Messages) : q = outgoing /\ SentBy(q, Len(q), t) = {}
  BY DEF ConsoleInv, SendsOK, TaskOK
<1> PICK p \in Profiles : p = desk.profile
  BY DEF ConsoleInv, Desks
<1> PICK via \in {"none", "stream", "ipc"} : via = attached.via
  BY DEF ConsoleInv
<1> DEFINE sends == Acceptable(p, k.options) /\ via # "none"
<1>1. PICK at \in {"waiting", "done"} : at = IF sends /\ via = "ipc" THEN "waiting" ELSE "done"
  OBVIOUS
<1>2. PICK s : s = [k EXCEPT !.profile = p, !.via = via, !.at = at]
  OBVIOUS
<1>3. /\ s \in SendTasks /\ s.at = at /\ s.kind = "send" /\ s.profile = p
      /\ s.options = k.options /\ s.clicked = k.clicked
  BY <1>2 DEF SendTasks, Vias
<1>4. sendTask' = [sendTask EXCEPT ![t] = s] /\ UNCHANGED <<attached, loadTask>>
  BY <1>1, <1>2 DEF RunSend, ConsoleInv, SendsOK
<1>5. p.ver >= k.clicked
  <2>1. TaskOK(t, k, q, p.ver)
    BY DEF ConsoleInv, SendsOK
  <2> QED  BY <2>1 DEF TaskOK, SendTasks, Profiles
<1>6. CASE ~sends
  <2>1. UNCHANGED <<outgoing, desk, reported>>
    BY <1>6 DEF RunSend
  <2>2. s.at = "done"
    BY <1>1, <1>3, <1>6
  <2>3. TaskOK(t, s, outgoing, desk.profile.ver)
    BY <2>2 DEF TaskOK
  <2>4. FlagsHaveATask'
    BY <1>4, <2>1, FlagsStay
  <2> HIDE DEF sends
  <2> QED  BY <1>3, <1>4, <2>1, <2>3, <2>4, QuietTask DEF ConsoleInv
<1>7. CASE sends
  <2>1. PICK b : b = q \o Envelope(t, p, via)
    OBVIOUS
  <2>2. p.limits # "invalid" /\ via \in Vias
    BY <1>7 DEF Acceptable, Vias
  <2>3. /\ Extends(q, b, t)
        /\ \A i \in 1..Len(b) : i > Len(q) => ~IsPrompt(b[i])
        /\ Handed(b, Len(b), t) = Range(profile_control_commands(p))
    BY <2>1, <2>2, EnvelopeIsSent
  <2>4. b \in Seq(Messages)
    BY <2>3 DEF Extends
  <2>5. HasEnvelope(b, Len(b), t, s)
    BY <1>3, <1>5, <1>7, <2>3 DEF HasEnvelope
  <2>6. CASE via = "ipc"
    <3>1. outgoing' = b /\ UNCHANGED <<desk, reported>>
      BY <1>7, <2>1, <2>6 DEF RunSend
    <3>2. s.at = "waiting"
      BY <1>1, <1>3, <1>7, <2>6
    <3>3. TaskOK(t, s, b, desk.profile.ver)
      BY <3>2, <2>5 DEF TaskOK
    <3>4. FlagsHaveATask'
      BY <1>4, <3>1, FlagsStay
    <3>5. Extends(outgoing, b, t) /\ \A i \in 1..Len(b) : i > Len(outgoing) /\ IsPrompt(b[i]) => PromptOK(i, b, s)
      BY <2>3
    <3> HIDE DEF sends
    <3> QED  BY <1>3, <1>4, <3>1, <3>3, <3>4, <3>5, TaskSends DEF ConsoleInv
  <2>7. CASE via = "stream"
    <3>1. /\ SendsPrompt(t, b, reported.idle, "stream")
          /\ reported' = [reported EXCEPT !.idle = @ /\ desk.draft = 0]
      BY <1>7, <2>1, <2>7 DEF RunSend
    <3>2. s.at = "done"
      BY <1>1, <1>3, <2>7
    <3>3. TaskOK(t, s, outgoing', desk.profile.ver)
      BY <3>2 DEF TaskOK
    <3>4. Extends(outgoing, b, t) /\ \A i \in 1..Len(b) : i > Len(outgoing) => ~IsPrompt(b[i])
      BY <2>3
    <3> HIDE DEF sends
    <3>5. /\ Extends(outgoing, outgoing', t)
          /\ \A i \in 1..Len(outgoing') : i > Len(outgoing) /\ IsPrompt(outgoing'[i]) => PromptOK(i, outgoing', s)
          /\ desk' \in Desks /\ desk'.profile = desk.profile /\ desk'.loading = desk.loading
          /\ desk'.applying = desk.applying
      BY <1>3, <2>4, <2>5, <3>1, <3>2, <3>4, PromptKeepsConsole
    <3>6. FlagsHaveATask'
      BY <1>4, <3>5, FlagsStay
    <3>7. reported' \in [endpoint : Endpoints \cup {Nowhere}, options : ModelOptions, idle : BOOLEAN]
      BY <3>1 DEF ConsoleInv
    <3>8. PICK r : r = outgoing'
      OBVIOUS
    <3> QED  BY <1>3, <1>4, <3>3, <3>5, <3>6, <3>7, <3>8, TaskSends
  <2> QED  BY <1>7, <2>6, <2>7
<1> QED
  BY <1>6, <1>7

LEMMA FinishSendKeepsConsole ==
    ASSUME ConsoleInv, NEW t \in SendIds, NEW answer, FinishSend(t, answer)
    PROVE  ConsoleInv'
<1> PICK k \in SendTasks : k = sendTask[t] /\ k.at = "waiting" /\ k.kind = "send" /\ k.at # "done"
  BY DEF FinishSend, ConsoleInv, SendsOK
<1> PICK q \in Seq(Messages) : q = outgoing
  BY DEF ConsoleInv, SendsOK
<1>1. PICK s : s = [k EXCEPT !.at = "done"]
  OBVIOUS
<1>2. /\ s \in SendTasks /\ s.at = "done" /\ s.profile = k.profile /\ s.options = k.options
      /\ s.clicked = k.clicked
  BY <1>1 DEF SendTasks
<1>3. sendTask' = [sendTask EXCEPT ![t] = s] /\ UNCHANGED <<attached, loadTask>>
  BY <1>1 DEF FinishSend, ConsoleInv, SendsOK
<1>4. HasEnvelope(q, Len(q), t, s)
  <2>1. TaskOK(t, k, q, desk.profile.ver)
    BY DEF ConsoleInv, SendsOK
  <2> QED  BY <1>2, <2>1 DEF TaskOK, HasEnvelope
<1>5. PICK idle \in BOOLEAN : /\ SendsPrompt(t, q, idle, k.via)
                             /\ reported' = [reported EXCEPT !.idle = idle /\ desk.draft = 0]
  <2>1. CASE answer = "failed"
    <3>1. /\ SendsPrompt(t, q, reported.idle, k.via)
          /\ reported' = [reported EXCEPT !.idle = reported.idle /\ desk.draft = 0]
      BY <2>1 DEF FinishSend
    <3>2. reported.idle \in BOOLEAN
      BY DEF ConsoleInv
    <3> QED  BY <3>1, <3>2
  <2>2. CASE answer = "idle"
    <3>1. /\ SendsPrompt(t, q, TRUE, k.via)
          /\ reported' = [reported EXCEPT !.idle = TRUE /\ desk.draft = 0]
      BY <2>2 DEF FinishSend, SendsPrompt
    <3>2. TRUE \in BOOLEAN
      OBVIOUS
    <3> QED  BY <3>1, <3>2
  <2>3. CASE answer \notin {"failed", "idle"}
    <3>1. /\ SendsPrompt(t, q, FALSE, k.via)
          /\ reported' = [reported EXCEPT !.idle = FALSE /\ desk.draft = 0]
      BY <2>3 DEF FinishSend, SendsPrompt
    <3>2. FALSE \in BOOLEAN
      OBVIOUS
    <3> QED  BY <3>1, <3>2
  <2> QED  BY <2>1, <2>2, <2>3
<1>6. Extends(outgoing, q, t) /\ \A i \in 1..Len(q) : i > Len(outgoing) => ~IsPrompt(q[i])
  BY SameQueue
<1>7. k.via \in {"stream", "ipc", "none", "focus"}
  BY DEF SendTasks, Vias
<1>8. /\ Extends(outgoing, outgoing', t)
      /\ \A i \in 1..Len(outgoing') : i > Len(outgoing) /\ IsPrompt(outgoing'[i]) => PromptOK(i, outgoing', s)
      /\ desk' \in Desks /\ desk'.profile = desk.profile /\ desk'.loading = desk.loading
      /\ desk'.applying = desk.applying
  BY <1>2, <1>4, <1>5, <1>6, <1>7, PromptKeepsConsole
<1>9. FlagsHaveATask'
  BY <1>3, <1>8, FlagsStay
<1>10. reported' \in [endpoint : Endpoints \cup {Nowhere}, options : ModelOptions, idle : BOOLEAN]
  <2>1. (idle /\ desk.draft = 0) \in BOOLEAN
    OBVIOUS
  <2> QED  BY <1>5, <2>1 DEF ConsoleInv
<1>11. TaskOK(t, s, outgoing', desk.profile.ver)
  BY <1>2 DEF TaskOK
<1>12. PICK r : r = outgoing'
  OBVIOUS
<1> QED
  BY <1>2, <1>3, <1>8, <1>9, <1>10, <1>11, <1>12, TaskSends

LEMMA ConsoleStep == ConsoleInv /\ [AcNext]_acVars => ConsoleInv'
<1> SUFFICES ASSUME ConsoleInv, [AcNext]_acVars PROVE ConsoleInv'
  OBVIOUS
<1>1. ASSUME NEW l \in LoadIds, AutoLoad(l) \/ Refresh(l) \/ LoadStarts(l) \/ \E ok \in BOOLEAN : LoadEnds(l, ok)
      PROVE  ConsoleInv'
  BY <1>1, LoadsKeepConsole DEF AutoLoad, Refresh
<1>2. ASSUME NEW t \in SendIds, ClickApply(t) \/ ClickSend(t) PROVE ConsoleInv'
  BY <1>2, ClicksKeepConsole
<1>3. ASSUME NEW t \in SendIds, RunApply(t) PROVE ConsoleInv'
  BY <1>3, RunApplyKeepsConsole
<1>4. ASSUME NEW t \in SendIds, RunSend(t) PROVE ConsoleInv'
  BY <1>4, RunSendKeepsConsole
<1>5. ASSUME NEW t \in SendIds, NEW answer, FinishApply(t, answer) PROVE ConsoleInv'
  BY <1>5, FinishApplyKeepsConsole
<1>6. ASSUME NEW t \in SendIds, NEW answer, FinishSend(t, answer) PROVE ConsoleInv'
  BY <1>6, FinishSendKeepsConsole
<1>7. CASE StageSomething
  <2> PICK k \in Profiles : k = desk.profile
    BY DEF ConsoleInv, Desks
  <2>1. ASSUME NEW m \in Models, Stage([desk.profile EXCEPT !.model = m]) PROVE ConsoleInv'
    <3>1. PICK p \in Profiles : p = [k EXCEPT !.model = m]
      BY DEF Profiles
    <3>2. Stage(p)
      BY <2>1, <3>1
    <3> QED  BY <3>2, StagingKeepsConsole
  <2>2. ASSUME NEW v \in {"valid", "invalid"}, Stage([desk.profile EXCEPT !.limits = v]) PROVE ConsoleInv'
    <3>1. PICK p \in Profiles : p = [k EXCEPT !.limits = v]
      BY DEF Profiles
    <3>2. Stage(p)
      BY <2>2, <3>1
    <3> QED  BY <3>2, StagingKeepsConsole
  <2>3. ASSUME Stage([desk.profile EXCEPT !.slim = ~@]) PROVE ConsoleInv'
    <3>1. (~k.slim) \in BOOLEAN
      OBVIOUS
    <3>2. PICK p : p = [k EXCEPT !.slim = ~@]
      OBVIOUS
    <3>3. p \in Profiles
      BY <3>1, <3>2 DEF Profiles
    <3>4. Stage(p)
      BY <2>3, <3>2
    <3> QED  BY <3>3, <3>4, StagingKeepsConsole
  <2> QED  BY <1>7, <2>1, <2>2, <2>3 DEF StageSomething
<1>8. CASE TypeText \/ Shift \/ \E i \in DOMAIN outgoing : Arrive(i)
  BY <1>8, OutsideKeepsConsole
<1>9. CASE UNCHANGED acVars
  BY <1>9 DEF acVars, ConsoleInv, FlagsHaveATask, SendsOK
<1> QED
  BY <1>1, <1>2, <1>3, <1>4, <1>5, <1>6, <1>7, <1>8, <1>9 DEF AcNext

\* However clicks, loads, answers and changes of the session interleave, the console does not
\* lock itself, and behind every prompt stand all the settings of one acceptable state of the
\* controls that is no older than the click (refresh_assistant_workspace,
\* profile_control_commands, the onsubmit handler).
THEOREM PromptsHaveTheirSettings == AcSpec => []ConsoleIsConsistent
<1>1. ConsoleInv => ConsoleIsConsistent
  <2> SUFFICES ASSUME ConsoleInv, NEW i \in DOMAIN outgoing, IsPrompt(outgoing[i])
               PROVE  LET s == sendTask[outgoing[i].by]
                      IN  /\ Acceptable(s.profile, s.options) /\ s.profile.ver >= s.clicked
                          /\ {outgoing[j].what : j \in Before(i, outgoing[i].by)}
                                = Range(profile_control_commands(s.profile))
    BY DEF ConsoleInv, ConsoleIsConsistent, PromptsFollowTheirEnvelope
  <2>1. i \in 1..Len(outgoing)
    BY DEF ConsoleInv, SendsOK
  <2>2. PromptOK(i, outgoing, sendTask[outgoing[i].by])
    BY <2>1 DEF ConsoleInv, SendsOK
  <2> QED
    BY <2>2 DEF PromptOK, HasEnvelope, Handed, SentBy, Before
<1> QED
  BY <1>1, ConsoleInitially, ConsoleStep, PTL DEF AcSpec

----------------------------------------------------------------------------
(* The browser page of a daemon. *)

PageFields == {"load", "loaded", "set", "override", "stream", "streamOf", "sent", "draft", "typed"}
TaskFields == {"st", "what", "of", "text", "id", "rev", "acted"}
SurfaceFields == {"rev", "taken", "permission"}

\* What a task has acted on has happened, and a snapshot it was answered with includes it.
GoodTask(k, rev) ==
    /\ k = [f \in TaskFields |-> k[f]]
    /\ k.rev \in Nat /\ k.acted \in Nat
    /\ k.acted <= rev
    /\ k.st = "snapshot" => k.acted <= k.rev

\* The inductive invariant.
ShellInv ==
    /\ surfaces = [f \in SurfaceFields |-> surfaces[f]] /\ surfaces.rev \in Nat
    /\ page = [f \in PageFields |-> page[f]]
    /\ task = [t \in Tasks |-> task[t]]
    /\ \A t \in Tasks : GoodTask(task[t], surfaces.rev)

LEMMA NoTaskIsGood == \A rev \in Nat : GoodTask(NoTask, rev)
  BY DEF GoodTask, NoTask, TaskFields

\* A task that begins.
LEMMA BegunIsGood ==
    ASSUME NEW rev \in Nat, NEW k, NEW st \in {"refresh", "post"}, NEW what, NEW of, NEW text, NEW id,
           k = [st |-> st, what |-> what, of |-> of, text |-> text, id |-> id, rev |-> 0, acted |-> 0]
    PROVE  GoodTask(k, rev)
  BY DEF GoodTask, TaskFields

LEMMA ShellInitially == WsInit => ShellInv
<1> SUFFICES ASSUME WsInit PROVE ShellInv
  OBVIOUS
<1>1. surfaces = [f \in SurfaceFields |-> surfaces[f]] /\ surfaces.rev \in Nat
  BY DEF WsInit, SurfaceFields
<1>2. page = [f \in PageFields |-> page[f]]
  BY DEF WsInit, PageFields
<1> QED
  BY <1>1, <1>2, NoTaskIsGood DEF WsInit, ShellInv

\* One task goes on, and the daemon's revision is as before or the next one.
LEMMA OneShellTask ==
    ASSUME ShellInv, NEW t \in Tasks, NEW k, task' = [task EXCEPT ![t] = k],
           NEW rev \in Nat, surfaces.rev <= rev, GoodTask(k, rev)
    PROVE  /\ task' = [u \in Tasks |-> task'[u]]
           /\ \A u \in Tasks : GoodTask(task'[u], rev)
<1>1. task' = [u \in Tasks |-> task'[u]] /\ \A u \in Tasks : task'[u] = IF u = t THEN k ELSE task[u]
  BY DEF ShellInv
<1>2. \A u \in Tasks : GoodTask(task[u], rev)
  BY DEF ShellInv, GoodTask
<1> QED
  BY <1>1, <1>2

LEMMA ShellStep == ShellInv /\ [WsNext]_wsVars => ShellInv'
<1> SUFFICES ASSUME ShellInv, [WsNext]_wsVars PROVE ShellInv'
  OBVIOUS
<1> PICK rev \in Nat : rev = surfaces.rev
  BY DEF ShellInv
<1>1. ASSUME NEW t \in Tasks, NEW k, task' = [task EXCEPT ![t] = k], GoodTask(k, rev), UNCHANGED surfaces,
             page' = [f \in PageFields |-> page'[f]]
      PROVE  ShellInv'
  <2>1. rev \in Nat /\ surfaces.rev <= rev
    OBVIOUS
  <2>2. task' = [u \in Tasks |-> task'[u]] /\ \A u \in Tasks : GoodTask(task'[u], rev)
    BY <1>1, <2>1, OneShellTask
  <2> QED  BY <1>1, <2>2 DEF ShellInv
<1>2. ASSUME page' = [f \in PageFields |-> page'[f]], UNCHANGED <<surfaces, task>> PROVE ShellInv'
  BY <1>2 DEF ShellInv
<1>p. UNCHANGED page => page' = [f \in PageFields |-> page'[f]]
  BY DEF ShellInv
<1>3. ASSUME NEW kind \in {"snapshot", "delta"}, NEW asks \in BOOLEAN, SurfacesChange(kind, asks) PROVE ShellInv'
  <2>1. /\ surfaces' = [f \in SurfaceFields |-> surfaces'[f]] /\ surfaces'.rev = rev + 1
        /\ UNCHANGED <<page, task>>
    BY <1>3 DEF SurfacesChange, ShellInv, SurfaceFields
  <2>2. \A t \in Tasks : GoodTask(task[t], rev + 1)
    BY DEF ShellInv, GoodTask
  <2> QED  BY <2>1, <2>2 DEF ShellInv
<1>4. ASSUME NEW b \in BOOLEAN, LoadSession(b) \/ StartStream(b) \/ StreamCloses \/ TypeDraft PROVE ShellInv'
  <2>1. UNCHANGED <<surfaces, task>>
    BY <1>4 DEF LoadSession, StartStream, StreamCloses, TypeDraft
  <2>2. page' = [f \in PageFields |-> page'[f]]
    BY <1>4 DEF LoadSession, StartStream, StreamCloses, TypeDraft, ShellInv, PageFields
  <2> QED  BY <1>2, <2>1, <2>2
<1>5. ASSUME NEW b \in BOOLEAN, OnMessage(b) PROVE ShellInv'
  <2>1. CASE UNCHANGED <<page, task>>
    BY <1>2, <1>5, <1>p, <2>1 DEF OnMessage
  <2>2. CASE page' = [page EXCEPT !.set = TRUE, !.override = PageRefreshed(page.streamOf, Head(frames).rev)]
             /\ UNCHANGED task
    <3>1. page' = [f \in PageFields |-> page'[f]]
      BY <2>2 DEF ShellInv, PageFields
    <3> QED  BY <1>2, <1>5, <2>2, <3>1 DEF OnMessage
  <2>3. CASE \E t \in Tasks :
               /\ task' = [task EXCEPT ![t] = [NoTask EXCEPT !.st = "refresh", !.of = page.streamOf]]
               /\ UNCHANGED page
    <3>1. PICK t \in Tasks :
               /\ task' = [task EXCEPT ![t] = [NoTask EXCEPT !.st = "refresh", !.of = page.streamOf]]
               /\ UNCHANGED page
      BY <2>3
    <3> PICK of : of = page.streamOf
      OBVIOUS
    <3>2. PICK k : k = [NoTask EXCEPT !.st = "refresh", !.of = of]
      OBVIOUS
    <3>a. k = [st |-> "refresh", what |-> "delta", of |-> of, text |-> 0, id |-> 0, rev |-> 0, acted |-> 0]
      BY <3>2 DEF NoTask
    <3>3. GoodTask(k, rev)
      BY <3>a, BegunIsGood
    <3>4. task' = [task EXCEPT ![t] = k] /\ UNCHANGED surfaces
      BY <1>5, <3>1, <3>2 DEF OnMessage
    <3> QED  BY <1>1, <1>p, <3>1, <3>3, <3>4
  <2> QED  BY <1>5, <2>1, <2>2, <2>3 DEF OnMessage
<1>6. ASSUME NEW t \in Tasks, SendPrompt(t) \/ RespondPermission(t) PROVE ShellInv'
  <2> PICK of, text, id : of = Shown.of /\ text = page.draft /\ id = page.sent + 1
    OBVIOUS
  <2>1. CASE SendPrompt(t)
    <3>1. PICK k : k = [NoTask EXCEPT !.st = "post", !.what = "prompt", !.text = text, !.id = id, !.of = of]
      OBVIOUS
    <3>2. k = [st |-> "post", what |-> "prompt", of |-> of, text |-> text, id |-> id, rev |-> 0, acted |-> 0]
      BY <3>1 DEF NoTask
    <3>3. GoodTask(k, rev)
      BY <3>2, BegunIsGood
    <3>4. task' = [task EXCEPT ![t] = k] /\ UNCHANGED <<surfaces, page>>
      BY <2>1, <3>1 DEF SendPrompt
    <3> QED  BY <1>1, <1>p, <3>3, <3>4
  <2>2. CASE RespondPermission(t)
    <3>1. PICK k : k = [NoTask EXCEPT !.st = "post", !.what = "permission", !.of = of]
      OBVIOUS
    <3>2. k = [st |-> "post", what |-> "permission", of |-> of, text |-> 0, id |-> 0, rev |-> 0, acted |-> 0]
      BY <3>1 DEF NoTask
    <3>3. GoodTask(k, rev)
      BY <3>2, BegunIsGood
    <3>4. task' = [task EXCEPT ![t] = k] /\ UNCHANGED <<surfaces, page>>
      BY <2>2, <3>1 DEF RespondPermission
    <3> QED  BY <1>1, <1>p, <3>3, <3>4
  <2> QED  BY <1>6, <2>1, <2>2
<1>7. ASSUME NEW t \in Tasks, DaemonTakes(t) PROVE ShellInv'
  <2> PICK j : j = task[t] /\ GoodTask(j, rev)
    BY DEF ShellInv
  <2> PICK n \in Nat : n = rev + 1
    OBVIOUS
  <2>1. PICK k : k = [j EXCEPT !.st = "taken", !.acted = n]
    OBVIOUS
  <2>a. /\ k = [f \in TaskFields |-> k[f]] /\ k.st = "taken" /\ k.acted = n /\ k.rev = j.rev
    BY <2>1 DEF GoodTask, TaskFields
  <2>2. GoodTask(k, rev + 1)
    BY <2>a DEF GoodTask
  <2>3. task' = [task EXCEPT ![t] = k] /\ UNCHANGED page
    BY <1>7, <2>1 DEF DaemonTakes, ShellInv
  <2>4. surfaces' = [f \in SurfaceFields |-> surfaces'[f]] /\ surfaces'.rev = rev + 1
    BY <1>7 DEF DaemonTakes, ShellInv, SurfaceFields
  <2>5. rev + 1 \in Nat /\ surfaces.rev <= rev + 1
    OBVIOUS
  <2>6. task' = [u \in Tasks |-> task'[u]] /\ \A u \in Tasks : GoodTask(task'[u], rev + 1)
    BY <2>2, <2>3, <2>5, OneShellTask
  <2> QED  BY <1>p, <2>3, <2>4, <2>5, <2>6 DEF ShellInv
<1>8. ASSUME NEW t \in Tasks, PromptOutcome(t) PROVE ShellInv'
  <2> PICK j : j = task[t] /\ GoodTask(j, rev)
    BY DEF ShellInv
  <2>1. CASE j.st = "taken"
    <3>1. PICK k : k = [j EXCEPT !.st = "refresh"]
      OBVIOUS
    <3>2. GoodTask(k, rev)
      BY <3>1 DEF GoodTask, TaskFields
    <3>3. task' = [task EXCEPT ![t] = k] /\ UNCHANGED surfaces
      BY <1>8, <2>1, <3>1 DEF PromptOutcome, ShellInv
    <3>4. page' = [f \in PageFields |-> page'[f]]
      BY <1>8, <2>1 DEF PromptOutcome, ShellInv, PageFields
    <3> QED  BY <1>1, <3>2, <3>3, <3>4
  <2>2. CASE j.st # "taken"
    BY <1>1, <1>8, <1>p, <2>2, NoTaskIsGood DEF PromptOutcome
  <2> QED  BY <2>1, <2>2
<1>9. ASSUME NEW t \in Tasks, PermissionOutcome(t) \/ DaemonRefuses(t) PROVE ShellInv'
  <2> PICK j : j = task[t] /\ GoodTask(j, rev)
    BY DEF ShellInv
  <2>1. ASSUME NEW st \in {"refresh", "refused"}, task' = [task EXCEPT ![t] = [j EXCEPT !.st = st]]
        PROVE  ShellInv'
    <3>1. PICK k : k = [j EXCEPT !.st = st]
      OBVIOUS
    <3>2. GoodTask(k, rev)
      BY <3>1 DEF GoodTask, TaskFields
    <3> QED  BY <1>1, <1>9, <1>p, <2>1, <3>1, <3>2 DEF PermissionOutcome, DaemonRefuses
  <2>2. CASE task' = [task EXCEPT ![t] = NoTask]
    BY <1>1, <1>9, <1>p, <2>2, NoTaskIsGood DEF PermissionOutcome, DaemonRefuses
  <2>3. CASE DaemonRefuses(t)
    <3>1. task' = [task EXCEPT ![t] = [j EXCEPT !.st = "refused"]]
      BY <2>3 DEF DaemonRefuses, ShellInv
    <3> QED  BY <2>1, <3>1
  <2>4. CASE PermissionOutcome(t)
    <3>1. task' = [task EXCEPT ![t] = [j EXCEPT !.st = "refresh"]] \/ task' = [task EXCEPT ![t] = NoTask]
      BY <2>4 DEF PermissionOutcome, ShellInv
    <3> QED  BY <2>1, <2>2, <3>1
  <2> QED  BY <1>9, <2>3, <2>4
<1>10. ASSUME NEW t \in Tasks, CallFails(t) PROVE ShellInv'
  BY <1>1, <1>10, <1>p, NoTaskIsGood DEF CallFails
<1>11. ASSUME NEW t \in Tasks, SnapshotTaken(t) PROVE ShellInv'
  <2> PICK j : j = task[t] /\ GoodTask(j, rev)
    BY DEF ShellInv
  <2>1. PICK k : k = [j EXCEPT !.st = "snapshot", !.rev = rev]
    OBVIOUS
  <2>2. GoodTask(k, rev)
    BY <2>1 DEF GoodTask, TaskFields
  <2>3. task' = [task EXCEPT ![t] = k] /\ UNCHANGED <<surfaces, page>>
    BY <1>11, <2>1 DEF SnapshotTaken, ShellInv
  <2> QED  BY <1>1, <1>p, <2>2, <2>3
<1>12. ASSUME NEW t \in Tasks, SnapshotArrives(t) PROVE ShellInv'
  <2>1. page' = [f \in PageFields |-> page'[f]]
    BY <1>12 DEF SnapshotArrives, ShellInv, PageFields
  <2> QED  BY <1>1, <1>12, <2>1, NoTaskIsGood DEF SnapshotArrives
<1>13. CASE UNCHANGED wsVars
  BY <1>13 DEF wsVars, ShellInv
<1> QED
  BY <1>3, <1>4, <1>5, <1>6, <1>7, <1>8, <1>9, <1>10, <1>11, <1>12, <1>13 DEF WsNext

\* For any number of tasks under way, the refresh that follows an accepted prompt or permission
\* answer shows what was accepted (Composer, submit_permission_response,
\* refresh_surfaces_snapshot).
THEOREM AcceptedIsShown == WsSpec => ReadsItsWrites
<1>1. ShellInv /\ [WsNext]_wsVars =>
        [\A t \in Tasks :
            task[t].st = "snapshot" /\ task'[t].st = "free" /\ page' # page => Shown'.rev >= task[t].acted]_wsVars
  <2> SUFFICES ASSUME ShellInv, WsNext, NEW t \in Tasks, task[t].st = "snapshot", task'[t].st = "free", page' # page
               PROVE  Shown'.rev >= task[t].acted
    BY DEF wsVars
  <2>1. task' # task /\ task' = [u \in Tasks |-> task'[u]]
    BY ShellStep DEF ShellInv
  <2>2. \/ \E u \in Tasks : PromptOutcome(u) \/ SnapshotArrives(u)
    BY <2>1
    DEF WsNext, SurfacesChange, LoadSession, StartStream, OnMessage, StreamCloses, TypeDraft, SendPrompt,
        RespondPermission, DaemonTakes, DaemonRefuses, PermissionOutcome, CallFails, SnapshotTaken
  <2>3. ASSUME NEW u \in Tasks, PromptOutcome(u) PROVE FALSE
    <3>1. u # t
      BY <2>3 DEF PromptOutcome
    <3>2. task'[t] = task[t]
      BY <2>3, <3>1 DEF PromptOutcome, ShellInv
    <3> QED  BY <3>2
  <2>4. PICK u \in Tasks : SnapshotArrives(u)
    BY <2>2, <2>3
  <2>5. u = t
    BY <2>4 DEF SnapshotArrives, ShellInv
  <2>6. page'.set /\ page'.override = PageRefreshed(task[t].of, task[t].rev)
    BY <2>4, <2>5 DEF SnapshotArrives, ShellInv, PageFields
  <2>7. Shown'.rev = task[t].rev
    BY <2>6 DEF Shown, PageRefreshed, Normalized
  <2>8. task[t].rev \in Nat /\ task[t].acted \in Nat /\ task[t].acted <= task[t].rev
    BY DEF ShellInv, GoodTask
  <2> QED  BY <2>7, <2>8
<1> QED
  BY <1>1, ShellInitially, ShellStep, PTL DEF WsSpec, ReadsItsWrites

----------------------------------------------------------------------------
(* The common operating picture. *)

Feed == Seq(Nat)
RegionFields == {"type", "shape", "items", "seq", "view"}
IsContent(c) ==
    /\ c = [f \in RegionFields |-> c[f]]
    /\ c.items \in Feed
    /\ c.view \in Nat

\* The items of s are the last ones of t.
TailOf(s, t) ==
    /\ Len(s) <= Len(t)
    /\ \A i \in 1..Len(s) : s[i] = t[Len(t) - Len(s) + i]

\* One region: its feed shows the newest of what it was sent.
GoodRegion(c, sent) ==
    /\ IsContent(c)
    /\ sent \in Feed
    /\ c.type = "alert_feed" /\ c.shape = "items" => TailOf(c.items, sent)

\* The inductive invariant.
CopInv ==
    /\ regions = [r \in CopRegion |-> regions[r]]
    /\ log = [r \in CopRegion |-> log[r]]
    /\ \A r \in CopRegion : GoodRegion(regions[r], log[r])
    /\ alerts \in Nat /\ views \in Nat
    /\ layout.view > 0 =>
          /\ layout.of # {} /\ layout.of \subseteq CopRegion
          /\ \A r \in layout.of : regions[r].view \in {0, layout.view}

LEMMA TailIsSuffix ==
    ASSUME NEW s \in Feed, NEW t \in Feed, TailOf(s, t)
    PROVE  IsSuffix(s, t)
<1>1. PICK m \in Nat : m = Len(s)
  BY DEF Feed
<1>2. PICK n \in Nat : n = Len(t)
  BY DEF Feed
<1>3. PICK a : a = Reverse(s)
  OBVIOUS
<1>4. PICK b : b = Reverse(t)
  OBVIOUS
<1>5. a = [i \in 1..m |-> s[(m - i) + 1]]
  BY <1>1, <1>3 DEF Reverse
<1>6. b = [i \in 1..n |-> t[(n - i) + 1]]
  BY <1>2, <1>4 DEF Reverse
<1>7. \A i \in 1..m : s[i] \in Nat
  BY <1>1 DEF Feed
<1>8. \A i \in 1..n : t[i] \in Nat
  BY <1>2 DEF Feed
<1>9. \A i \in 1..m : (m - i) + 1 \in 1..m
  OBVIOUS
<1>10. \A i \in 1..n : (n - i) + 1 \in 1..n
  OBVIOUS
<1>11. a \in Seq(Nat) /\ Len(a) = m
  <2>1. a \in [1..m -> Nat]
    BY <1>5, <1>7, <1>9
  <2> QED  BY <2>1
<1>12. b \in Seq(Nat) /\ Len(b) = n
  <2>1. b \in [1..n -> Nat]
    BY <1>6, <1>8, <1>10
  <2> QED  BY <2>1
<1>13. m <= n /\ \A i \in 1..m : s[i] = t[n - m + i]
  BY <1>1, <1>2 DEF TailOf
<1>14. ASSUME NEW i \in 1..m PROVE a[i] = b[i]
  <2>1. i \in 1..n /\ (m - i) + 1 \in 1..m /\ n - m + ((m - i) + 1) = (n - i) + 1
    BY <1>13
  <2>2. s[(m - i) + 1] = t[n - m + ((m - i) + 1)]
    BY <1>13, <2>1
  <2>3. a[i] = s[(m - i) + 1] /\ b[i] = t[(n - i) + 1]
    BY <1>5, <1>6, <2>1
  <2> QED  BY <2>1, <2>2, <2>3
<1>15. PICK x : x = SubSeq(a, 1, m)
  OBVIOUS
<1>16. PICK y : y = SubSeq(b, 1, m)
  OBVIOUS
<1>17. x = [i \in 1..m |-> a[i]]
  BY <1>11, <1>15
<1>18. y = [i \in 1..m |-> b[i]]
  BY <1>12, <1>13, <1>16
<1>19. x = y
  BY <1>14, <1>17, <1>18
<1> QED
  BY <1>3, <1>4, <1>11, <1>12, <1>13, <1>15, <1>16, <1>19 DEF IsSuffix, IsPrefix

LEMMA TailOfItself == \A s \in Feed : TailOf(s, s)
  BY DEF TailOf, Feed

\* What is sent to a feed is joined to what it shows.
LEMMA TailJoined ==
    ASSUME NEW s \in Feed, NEW t \in Feed, NEW new \in Feed, TailOf(s, t)
    PROVE  s \o new \in Feed /\ t \o new \in Feed /\ TailOf(s \o new, t \o new)
<1>1. PICK x : x = s \o new
  OBVIOUS
<1>2. PICK y : y = t \o new
  OBVIOUS
<1>3. PICK m \in Nat, n \in Nat, k \in Nat : m = Len(s) /\ n = Len(t) /\ k = Len(new)
  BY DEF Feed
<1>4. /\ x \in Feed /\ Len(x) = m + k
      /\ \A i \in 1..(m + k) : x[i] = IF i <= m THEN s[i] ELSE new[i - m]
  BY <1>1, <1>3 DEF Feed
<1>5. /\ y \in Feed /\ Len(y) = n + k
      /\ \A i \in 1..(n + k) : y[i] = IF i <= n THEN t[i] ELSE new[i - n]
  BY <1>2, <1>3 DEF Feed
<1>6. m <= n /\ \A i \in 1..m : s[i] = t[n - m + i]
  BY <1>3 DEF TailOf
<1>7. ASSUME NEW i \in 1..(m + k) PROVE x[i] = y[(n + k) - (m + k) + i]
  <2>1. PICK j \in Int : j = (n + k) - (m + k) + i
    OBVIOUS
  <2>2. j = n - m + i /\ j \in 1..(n + k) /\ j - n = i - m /\ (i <= m <=> j <= n)
    BY <1>6, <2>1
  <2>3. y[j] = IF j <= n THEN t[j] ELSE new[j - n]
    BY <1>5, <2>2
  <2>4. x[i] = IF i <= m THEN s[i] ELSE new[i - m]
    BY <1>4
  <2>5. CASE i <= m
    <3>1. i \in 1..m
      BY <2>5
    <3>2. x[i] = s[i] /\ s[i] = t[j] /\ y[j] = t[j]
      BY <1>6, <2>2, <2>3, <2>4, <2>5, <3>1
    <3> QED  BY <2>1, <3>2
  <2>6. CASE ~(i <= m)
    BY <2>1, <2>2, <2>3, <2>4, <2>6
  <2> QED  BY <2>5, <2>6
<1>8. TailOf(x, y)
  BY <1>4, <1>5, <1>6, <1>7 DEF TailOf
<1> QED
  BY <1>1, <1>2, <1>4, <1>5, <1>8

\* Dropping the oldest leaves the newest.
LEMMA TailDrained ==
    ASSUME NEW s \in Feed, NEW t \in Feed, TailOf(s, t)
    PROVE  Drained(s) \in Feed /\ TailOf(Drained(s), t)
<1>1. CASE Len(s) > AlertLimit
  <2>1. PICK m \in Nat, n \in Nat, d \in Nat : m = Len(s) /\ n = Len(t) /\ d = AlertLimit
    BY CopAssumption DEF Feed
  <2>2. PICK x : x = SubSeq(s, m - d + 1, m)
    OBVIOUS
  <2>3. m > d /\ m - d + 1 \in 1..(m + 1)
    BY <1>1, <2>1
  <2>4. x = [i \in 1..d |-> s[m - d + i]]
    BY <2>1, <2>2, <2>3 DEF Feed
  <2>5. \A i \in 1..d : m - d + i \in 1..m
    BY <2>3
  <2>6. \A i \in 1..m : s[i] \in Nat
    BY <2>1 DEF Feed
  <2>7. x \in [1..d -> Nat]
    BY <2>4, <2>5, <2>6
  <2>8. x \in Feed /\ Len(x) = d
    BY <2>7 DEF Feed
  <2>9. m <= n /\ \A i \in 1..m : s[i] = t[n - m + i]
    BY <2>1 DEF TailOf
  <2>10. ASSUME NEW i \in 1..d PROVE x[i] = t[n - d + i]
    <3>1. m - d + i \in 1..m /\ n - m + (m - d + i) = n - d + i
      BY <2>3
    <3>2. x[i] = s[m - d + i]
      BY <2>4
    <3>3. s[m - d + i] = t[n - m + (m - d + i)]
      BY <2>9, <3>1
    <3> QED  BY <3>1, <3>2, <3>3
  <2>11. d <= n
    BY <2>3, <2>9
  <2>12. TailOf(x, t)
    BY <2>1, <2>8, <2>10, <2>11 DEF TailOf
  <2>13. Drained(s) = x
    BY <1>1, <2>1, <2>2 DEF Drained
  <2> QED  BY <2>8, <2>12, <2>13
<1>2. CASE ~(Len(s) > AlertLimit)
  BY <1>2 DEF Drained
<1> QED  BY <1>1, <1>2

LEMMA NothingIsInOrder == GoodRegion(Vacant, <<>>)
  BY DEF GoodRegion, IsContent, RegionFields, Vacant, Feed

LEMMA CopInitially == CopInit => CopInv
<1> SUFFICES ASSUME CopInit PROVE CopInv
  OBVIOUS
<1>1. /\ regions = [r \in CopRegion |-> regions[r]]
      /\ log = [r \in CopRegion |-> log[r]]
      /\ \A r \in CopRegion : regions[r] = Vacant /\ log[r] = <<>>
  BY DEF CopInit
<1>2. layout.view = 0 /\ alerts = 0 /\ views = 0
  BY DEF CopInit
<1> QED
  BY <1>1, <1>2, NothingIsInOrder DEF CopInv

\* A content with the number of its write is as good as it was.
LEMMA NumberedIsAsGood ==
    ASSUME NEW c, NEW d, NEW sent, GoodRegion(d, sent), c = [f \in RegionFields |-> c[f]],
           c.type = d.type, c.shape = d.shape, c.items = d.items, c.view = d.view
    PROVE  GoodRegion(c, sent)
  BY DEF GoodRegion, IsContent

\* A region written anew.
LEMMA WrittenAnew ==
    ASSUME NEW type, NEW shape, NEW items \in Feed, NEW shown \in Nat, NEW sent \in Feed,
           type = "alert_feed" /\ shape = "items" => sent = items
    PROVE  /\ GoodRegion(Content(type, shape, items, shown), sent)
           /\ Content(type, shape, items, shown).type = type /\ Content(type, shape, items, shown).view = shown
<1>1. PICK c : c = Content(type, shape, items, shown)
  OBVIOUS
<1>2. c.type = type /\ c.shape = shape /\ c.items = items /\ c.view = shown
  BY <1>1 DEF Content
<1>3. c = [f \in RegionFields |-> c[f]]
  BY <1>1 DEF Content, RegionFields
<1> QED
  BY <1>1, <1>2, <1>3, TailOfItself DEF GoodRegion, IsContent

\* A feed written over a feed.
LEMMA WrittenOver ==
    ASSUME NEW old, NEW sent, GoodRegion(old, sent), old.type = "alert_feed",
           NEW shape \in Shapes, NEW items \in Feed, shape = "other" => items = <<>>,
           NEW new, new = Content("alert_feed", shape, items, 0)
    PROVE  GoodRegion(Appended(old, new), sent \o items) /\ Appended(old, new).view = old.view
<1>1. PICK c : c = Appended(old, new)
  OBVIOUS
<1>2. new.shape = shape /\ new.items = items
  BY DEF Content
<1>3. sent \in Feed /\ old.items \in Feed /\ old.view \in Nat /\ old = [f \in RegionFields |-> old[f]]
  BY DEF GoodRegion, IsContent
<1>4. CASE shape = "other"
  <2>1. c = old
    BY <1>1, <1>2, <1>4 DEF Appended
  <2>2. sent \o items = sent
    BY <1>3, <1>4 DEF Feed
  <2> QED  BY <1>1, <2>1, <2>2
<1>5. CASE shape # "other" /\ old.shape = "items"
  <2>1. PICK old_items \in Feed : old_items = old.items
    BY <1>3
  <2>2. TailOf(old_items, sent)
    BY <1>5, <2>1 DEF GoodRegion
  <2>3. PICK x : x = Drained(old_items \o items)
    OBVIOUS
  <2>4. x \in Feed /\ sent \o items \in Feed /\ TailOf(x, sent \o items)
    BY <1>3, <2>2, <2>3, TailJoined, TailDrained
  <2>5. c = [old EXCEPT !.items = x]
    BY <1>1, <1>2, <1>5, <2>1, <2>3 DEF Appended
  <2>6. /\ c = [f \in RegionFields |-> c[f]]
        /\ c.type = old.type /\ c.shape = old.shape /\ c.items = x /\ c.view = old.view
    BY <1>3, <2>5 DEF RegionFields
  <2> QED  BY <1>1, <1>3, <2>4, <2>6 DEF GoodRegion, IsContent
<1>6. CASE shape # "other" /\ old.shape # "items"
  <2>1. c = [old EXCEPT !.shape = "items", !.items = items]
    BY <1>1, <1>2, <1>6 DEF Appended
  <2>2. /\ c = [f \in RegionFields |-> c[f]]
        /\ c.type = old.type /\ c.items = items /\ c.view = old.view
    BY <1>3, <2>1 DEF RegionFields
  <2>3. TailOf(<<>>, sent) /\ <<>> \in Feed
    BY <1>3 DEF TailOf, Feed
  <2>4. sent \o items \in Feed /\ TailOf(<<>> \o items, sent \o items) /\ <<>> \o items = items
    <3>1. <<>> \o items = items
      BY DEF Feed
    <3> QED  BY <1>3, <2>3, <3>1, TailJoined
  <2> QED  BY <1>1, <1>3, <2>2, <2>4 DEF GoodRegion, IsContent
<1> QED  BY <1>4, <1>5, <1>6

\* What a call of the agent leaves of the screen: no region gets a projection's content.
LEMMA AgentWrites ==
    ASSUME CopInv, UNCHANGED <<layout, views>>, alerts' \in Nat,
           regions' = [r \in CopRegion |-> regions'[r]], log' = [r \in CopRegion |-> log'[r]],
           \A r \in CopRegion : /\ GoodRegion(regions'[r], log'[r])
                                /\ regions'[r].view \in {0, regions[r].view}
    PROVE  CopInv'
<1>1. PICK v, of : v = layout.view /\ of = layout.of
  OBVIOUS
<1>2. v > 0 => of # {} /\ of \subseteq CopRegion /\ \A r \in of : regions[r].view \in {0, v}
  BY <1>1 DEF CopInv
<1>3. v > 0 => of # {} /\ of \subseteq CopRegion /\ \A r \in of : regions'[r].view \in {0, v}
  BY <1>2
<1>4. layout'.view = v /\ layout'.of = of
  BY <1>1
<1> QED
  BY <1>3, <1>4 DEF CopInv

LEMMA WriteStep ==
    ASSUME CopInv, NEW r \in CopRegion, NEW type \in {"alert_feed", "table"}, NEW shape \in Shapes, NEW k \in 0..Batch,
           cop_write(r, type, shape, k)
    PROVE  CopInv'
<1> PICK n \in Nat : n = alerts
  BY DEF CopInv
<1> PICK kk \in Nat : kk = k
  BY CopAssumption
<1>1. PICK items : items = [i \in 1..k |-> n + i]
  OBVIOUS
<1>2. items \in Feed
  <2>1. items \in [1..kk -> Nat]
    BY <1>1
  <2> QED  BY <2>1 DEF Feed
<1>3. PICK w : w = write_seq + 1
  OBVIOUS
<1>4. PICK new : new = Content(type, shape, items, 0)
  OBVIOUS
<1>5. new.type = type /\ new.items = items
  BY <1>4 DEF Content
<1>6. /\ regions' = write(regions, w, r, new)
      /\ log' = [log EXCEPT ![r] = IF type # "alert_feed" THEN <<>>
                                   ELSE IF regions[r].type # "alert_feed" THEN items
                                   ELSE @ \o items]
      /\ UNCHANGED <<layout, views>> /\ alerts' = n + k /\ (k > 0 => type = "alert_feed" /\ shape # "other")
  BY <1>1, <1>3, <1>4, <1>5 DEF cop_write
<1>7. regions' = [q \in CopRegion |-> regions'[q]] /\ log' = [q \in CopRegion |-> log'[q]]
  BY <1>6 DEF CopInv, write
<1>8. \A q \in CopRegion \ {r} : regions'[q] = regions[q] /\ log'[q] = log[q]
  BY <1>6 DEF CopInv, write
<1>9. k = 0 => items = <<>>
  BY <1>1
<1> PICK old, sent : old = regions[r] /\ sent = log[r]
  OBVIOUS
<1>10. GoodRegion(old, sent)
  BY DEF CopInv
<1>11. PICK c : c = regions'[r]
  OBVIOUS
<1>12. GoodRegion(c, log'[r]) /\ c.view \in {0, old.view}
  <2>1. CASE type = "alert_feed" /\ old.type = "alert_feed"
    <3>d. PICK d : d = Appended(old, new)
      OBVIOUS
    <3>1. c = [d EXCEPT !.seq = w]
      BY <3>d, <1>5, <1>6, <1>11, <2>1 DEF write, is_append_mode, CopInv
    <3>2. log'[r] = sent \o items
      BY <1>6, <2>1 DEF CopInv
    <3>3. shape = "other" => items = <<>>
      BY <1>6, <1>9
    <3>4. new = Content("alert_feed", shape, items, 0)
      BY <1>4, <2>1
    <3>5. GoodRegion(d, log'[r]) /\ d.view = old.view
      BY <1>2, <1>10, <2>1, <3>2, <3>3, <3>4, <3>d, WrittenOver
    <3>6. d = [f \in RegionFields |-> d[f]]
      BY <3>5 DEF GoodRegion, IsContent
    <3>7. /\ c = [f \in RegionFields |-> c[f]]
          /\ c.type = d.type /\ c.shape = d.shape /\ c.items = d.items /\ c.view = d.view
      BY <3>1, <3>6 DEF RegionFields
    <3> QED  BY <3>5, <3>7, NumberedIsAsGood
  <2>2. CASE ~(type = "alert_feed" /\ old.type = "alert_feed")
    <3>1. c = [new EXCEPT !.seq = w]
      BY <1>5, <1>6, <1>11, <2>2 DEF write, is_append_mode, CopInv
    <3>2. log'[r] = IF type # "alert_feed" THEN <<>> ELSE items
      BY <1>6, <2>2 DEF CopInv
    <3>3. log'[r] \in Feed /\ (type = "alert_feed" => log'[r] = items)
      BY <1>2, <3>2 DEF Feed
    <3>4. PICK sentNow \in Feed : sentNow = log'[r]
      BY <3>3
    <3>5. 0 \in Nat /\ (type = "alert_feed" /\ shape = "items" => sentNow = items)
      BY <3>3, <3>4
    <3>6. GoodRegion(new, sentNow) /\ new.view = 0
      BY <1>2, <1>4, <3>5, WrittenAnew
    <3>7. new = [f \in RegionFields |-> new[f]]
      BY <3>6 DEF GoodRegion, IsContent
    <3>8. /\ c = [f \in RegionFields |-> c[f]]
          /\ c.type = new.type /\ c.shape = new.shape /\ c.items = new.items /\ c.view = new.view
      BY <3>1, <3>7 DEF RegionFields
    <3> QED  BY <3>4, <3>6, <3>8, NumberedIsAsGood
  <2> QED  BY <2>1, <2>2
<1>13. \A q \in CopRegion : GoodRegion(regions'[q], log'[q]) /\ regions'[q].view \in {0, regions[q].view}
  <2> TAKE q \in CopRegion
  <2>1. CASE q = r
    BY <1>11, <1>12, <2>1
  <2>2. CASE q # r
    BY <1>8, <2>2 DEF CopInv
  <2> QED  BY <2>1, <2>2
<1>14. alerts' \in Nat
  BY <1>6
<1> QED
  BY <1>6, <1>7, <1>13, <1>14, AgentWrites

\* A projection writes every region it puts into the layout.
LEMMA ProjectStep ==
    ASSUME CopInv, NEW order, NEW of, of = ToSet(order), of # {}, of \subseteq CopRegion, Project(FleetTypes, order),
           layout' = [of |-> of, view |-> views + 1]
    PROVE  CopInv'
<1> PICK v \in Nat : v = views + 1
  BY DEF CopInv
<1>1. \A r \in CopRegion : FleetTypes[r] # "alert_feed"
  BY DEF FleetTypes, CopRegion, default_segmenta_regions
<1>2. /\ regions' = [r \in CopRegion |-> regions'[r]] /\ log' = [r \in CopRegion |-> log'[r]]
      /\ UNCHANGED alerts /\ views' = v
      /\ \A r \in CopRegion : log'[r] = IF r \in of THEN <<>> ELSE log[r]
      /\ \A r \in CopRegion \ of : regions'[r] = regions[r]
  BY DEF Project
<1>3. ASSUME NEW r \in of PROVE GoodRegion(regions'[r], log'[r]) /\ regions'[r].view = v
  <2>1. r \in CopRegion /\ log'[r] = <<>>
    BY <1>2
  <2>2. PICK n : regions'[r] = write(regions, n, r, Content(FleetTypes[r], "other", <<>>, v))[r]
    BY <2>1 DEF Project
  <2>3. PICK type : type = FleetTypes[r] /\ type # "alert_feed"
    BY <1>1, <2>1
  <2>4. PICK c : c = regions'[r]
    OBVIOUS
  <2> PICK new : new = Content(type, "other", <<>>, v)
    OBVIOUS
  <2>5. <<>> \in Feed
    BY DEF Feed
  <2>6. GoodRegion(new, <<>>) /\ new.type = type /\ new.view = v
    BY <2>3, <2>5, WrittenAnew
  <2>7. c = [new EXCEPT !.seq = n]
    BY <2>1, <2>2, <2>3, <2>4, <2>6 DEF write, is_append_mode, CopInv
  <2>a. new = [f \in RegionFields |-> new[f]]
    BY <2>6 DEF GoodRegion, IsContent
  <2>b. /\ c = [f \in RegionFields |-> c[f]]
        /\ c.type = new.type /\ c.shape = new.shape /\ c.items = new.items /\ c.view = new.view
    BY <2>7, <2>a DEF RegionFields
  <2>8. GoodRegion(c, <<>>) /\ c.view = v
    BY <2>6, <2>b, NumberedIsAsGood
  <2> QED  BY <2>1, <2>4, <2>8
<1>4. \A r \in CopRegion : GoodRegion(regions'[r], log'[r])
  BY <1>2, <1>3 DEF CopInv
<1>5. layout'.of = of /\ layout'.view = v
  OBVIOUS
<1>6. alerts' \in Nat /\ views' \in Nat
  BY <1>2 DEF CopInv
<1> QED
  BY <1>2, <1>3, <1>4, <1>5, <1>6 DEF CopInv

LEMMA CopStep == CopInv /\ [CopNext]_copVars => CopInv'
<1> SUFFICES ASSUME CopInv, [CopNext]_copVars PROVE CopInv'
  OBVIOUS
<1>1. ASSUME NEW r \in {"center", "south"}, NEW type \in {"alert_feed", "table"}, NEW shape \in Shapes, NEW k \in 0..Batch,
             cop_write(r, type, shape, k)
      PROVE  CopInv'
  <2>1. r \in CopRegion
    BY DEF CopRegion, default_segmenta_regions
  <2> QED  BY <1>1, <2>1, WriteStep
<1>2. ASSUME NEW rs, cop_clear(rs) PROVE CopInv'
  <2>1. /\ regions' = [r \in CopRegion |-> regions'[r]] /\ log' = [r \in CopRegion |-> log'[r]]
        /\ UNCHANGED <<layout, alerts, views>>
    BY <1>2 DEF cop_clear
  <2>a. \A r \in CopRegion : \/ regions'[r] = Vacant /\ log'[r] = <<>>
                             \/ regions'[r] = regions[r] /\ log'[r] = log[r]
    <3> TAKE r \in CopRegion
    <3>1. CASE r \in rs
      <4>1. regions'[r] = Vacant
        BY <1>2, <3>1 DEF cop_clear
      <4>2. log'[r] = <<>>
        BY <1>2, <3>1 DEF cop_clear
      <4> QED  BY <4>1, <4>2, Zenon
    <3>2. CASE r \notin rs
      BY <1>2, <3>2 DEF cop_clear
    <3> QED  BY <3>1, <3>2
  <2>2. Vacant.view = 0
    BY DEF Vacant
  <2>3. \A r \in CopRegion : GoodRegion(regions'[r], log'[r]) /\ regions'[r].view \in {0, regions[r].view}
    BY <2>a, <2>2, NothingIsInOrder DEF CopInv
  <2>4. alerts' \in Nat
    BY <2>1 DEF CopInv
  <2> QED  BY <2>1, <2>3, <2>4, AgentWrites
<1>3. ASSUME NEW rs, cop_layout(rs) PROVE CopInv'
  <2>1. layout'.view = 0 /\ UNCHANGED <<regions, log, alerts, views>>
    BY <1>3 DEF cop_layout
  <2> QED  BY <2>1 DEF CopInv
<1>4. CASE apply_gateway_fleet_projection \/ apply_local_omegon_probe_result
  <2>1. PICK order, of : order = <<"north", "center", "east", "south">> /\ of = {"north", "center", "east", "south"}
    OBVIOUS
  <2>2. of = ToSet(order)
    BY <2>1 DEF ToSet
  <2>3. of # {} /\ of \subseteq CopRegion
    BY <2>1 DEF CopRegion, default_segmenta_regions
  <2>4. Project(FleetTypes, order) /\ layout' = [of |-> of, view |-> views + 1]
    BY <1>4, <2>1 DEF apply_gateway_fleet_projection, apply_local_omegon_probe_result
  <2> QED  BY <2>2, <2>3, <2>4, ProjectStep
<1>5. CASE apply_local_omegon_discovery_with_policy
  <2>1. PICK order, of : order = <<"north", "center", "east">> /\ of = {"north", "center", "east"}
    OBVIOUS
  <2>2. of = ToSet(order)
    BY <2>1 DEF ToSet
  <2>3. of # {} /\ of \subseteq CopRegion
    BY <2>1 DEF CopRegion, default_segmenta_regions
  <2>4. Project(FleetTypes, order) /\ layout' = [of |-> of, view |-> views + 1]
    BY <1>5, <2>1 DEF apply_local_omegon_discovery_with_policy
  <2> QED  BY <2>2, <2>3, <2>4, ProjectStep
<1>6. CASE NewController
  <2>1. /\ regions' = [r \in CopRegion |-> regions'[r]] /\ log' = [r \in CopRegion |-> log'[r]]
        /\ \A r \in CopRegion : regions'[r] = Vacant /\ log'[r] = <<>>
        /\ layout'.view = 0 /\ UNCHANGED <<alerts, views>>
    BY <1>6 DEF NewController
  <2> QED  BY <2>1, NothingIsInOrder DEF CopInv
<1>7. CASE UNCHANGED copVars
  BY <1>7 DEF copVars, CopInv
<1> QED
  BY <1>1, <1>2, <1>3, <1>4, <1>5, <1>6, <1>7 DEF CopNext

\* For any limit of a feed and any sequence of writes, clears, layouts and projections, an alert
\* feed shows the newest alerts it was sent without a gap, and the screen of a projection
\* nothing of an earlier one (CopDisplayState::write, apply_gateway_fleet_projection,
\* apply_local_omegon_discovery_with_policy, apply_local_omegon_probe_result).
THEOREM PictureIsCurrent == CopSpec => []CopIsCurrent
<1>1. CopInv => CopIsCurrent
  <2> SUFFICES ASSUME CopInv PROVE CopIsCurrent
    OBVIOUS
  <2>1. FeedIsTheTail
    BY TailIsSuffix DEF FeedIsTheTail, CopInv, GoodRegion, IsContent
  <2>2. OneProjectionOnScreen
    BY DEF OneProjectionOnScreen, render_cop_surface, CopInv
  <2> QED  BY <2>1, <2>2 DEF CopIsCurrent
<1> QED
  BY <1>1, CopInitially, CopStep, PTL DEF CopSpec

----------------------------------------------------------------------------
(* The Omegon process Auspex owns. *)

AuspexFields == {"phase", "port", "child", "at", "hook", "cap", "bridge", "old"}
ProcessFields == {"st", "termed", "port", "cap"}
IsAuspex(k) == k = [f \in AuspexFields |-> k[f]]
IsProcess(k) == k = [f \in ProcessFields |-> k[f]]

\* Owned processes that run and were not told to terminate.
Running(k) == k.st \in {"starting", "serving"}
Untold(ps) == {p \in Pids : Running(ps[p]) /\ ~ps[p].termed}

\* What an Auspex knows that is the only one to run: a machine that was swept has nothing left
\* to terminate, and the pid file names what the exit is going to terminate.
Tidy(k, file, untold) ==
    /\ k.phase = "off" => ~k.hook
    /\ k.phase \in {"choose", "spawn"} => untold = {}
    /\ k.phase = "handshake" => k.child = file
    /\ k.hook => untold \subseteq {file}

Single(S) == \A x, y \in S : x = y

\* The inductive invariant.
OwnedInv ==
    /\ auspex = [a \in Auspexes |-> auspex[a]]
    /\ \A a \in Auspexes : IsAuspex(auspex[a])
    /\ process = [p \in AllPids |-> process[p]]
    /\ \A p \in AllPids : IsProcess(process[p])
    /\ ~overlapped =>
          /\ Single({a \in Auspexes : auspex[a].phase # "off"})
          /\ Single(Untold(process))
          /\ \A a \in Auspexes : Tidy(auspex[a], pidFile, Untold(process))

LEMMA OwnedInitially == OwInit => OwnedInv
<1> SUFFICES ASSUME OwInit PROVE OwnedInv
  OBVIOUS
<1>1. \A a \in Auspexes : auspex[a] = Off
  BY DEF OwInit
<1>2. \A p \in AllPids : process[p] = Unused
  BY DEF OwInit
<1>3. IsAuspex(Off) /\ Off.phase = "off" /\ ~Off.hook
  BY DEF IsAuspex, Off, AuspexFields
<1>4. IsProcess(Unused) /\ ~Running(Unused)
  BY DEF IsProcess, Unused, Dead, ProcessFields, Running
<1>5. Untold(process) = {}
  BY <1>2, <1>4 DEF Untold, AllPids
<1>6. \A a \in Auspexes : Tidy(auspex[a], pidFile, Untold(process))
  BY <1>1, <1>3, <1>5 DEF Tidy
<1> QED
  BY <1>1, <1>2, <1>3, <1>4, <1>5, <1>6 DEF OwInit, OwnedInv, Single

\* The next state of the machine, when one Auspex has become k and the others do not run.
LEMMA OneAuspexGoesOn ==
    ASSUME OwnedInv, NEW a \in Auspexes, NEW k, IsAuspex(k), auspex' = [auspex EXCEPT ![a] = k],
           process' = [p \in AllPids |-> process'[p]], \A p \in AllPids : IsProcess(process'[p]),
           ~overlapped' => /\ \A b \in Auspexes \ {a} : auspex[b].phase = "off" /\ ~auspex[b].hook
                           /\ Single(Untold(process'))
                           /\ Tidy(k, pidFile', Untold(process'))
    PROVE  OwnedInv'
<1>1. auspex' = [b \in Auspexes |-> auspex'[b]] /\ auspex'[a] = k
      /\ \A b \in Auspexes \ {a} : auspex'[b] = auspex[b]
  BY DEF OwnedInv
<1>2. \A b \in Auspexes : IsAuspex(auspex'[b])
  BY <1>1 DEF OwnedInv
<1>3. ASSUME ~overlapped' PROVE \A b \in Auspexes : Tidy(auspex'[b], pidFile', Untold(process'))
  BY <1>1, <1>3 DEF Tidy
<1>4. ASSUME ~overlapped' PROVE Single({b \in Auspexes : auspex'[b].phase # "off"})
  BY <1>1, <1>4 DEF Single
<1> QED
  BY <1>1, <1>2, <1>3, <1>4 DEF OwnedInv

\* Only one of them runs, as long as none overlapped.
LEMMA OthersAreOff ==
    ASSUME OwnedInv, ~overlapped, NEW a \in Auspexes, auspex[a].phase # "off"
    PROVE  \A b \in Auspexes \ {a} : auspex[b].phase = "off" /\ ~auspex[b].hook
  BY DEF OwnedInv, Single, Tidy

\* Nothing happens to the processes.
LEMMA SameProcesses ==
    ASSUME OwnedInv, UNCHANGED process
    PROVE  /\ process' = [p \in AllPids |-> process'[p]]
           /\ \A p \in AllPids : IsProcess(process'[p])
           /\ Untold(process') = Untold(process)
  BY DEF OwnedInv

LEMMA TermedProcesses ==
    ASSUME OwnedInv, NEW S, process' = Termed(S)
    PROVE  /\ process' = [p \in AllPids |-> process'[p]]
           /\ \A p \in AllPids : IsProcess(process'[p])
           /\ \A p \in AllPids : p \in S => process'[p].termed
           /\ \A p \in AllPids : p \notin S => process'[p] = process[p]
           /\ Untold(process') = Untold(process) \ S
<1>1. process' = [p \in AllPids |-> process'[p]]
  BY DEF Termed
<1>2. ASSUME NEW p \in AllPids
      PROVE  /\ IsProcess(process'[p])
             /\ process'[p].st = process[p].st
             /\ p \in S => process'[p].termed
             /\ p \notin S => process'[p] = process[p]
  <2>1. PICK k : k = process[p] /\ IsProcess(k)
    BY DEF OwnedInv
  <2>2. CASE p \in S
    <3>1. process'[p] = [k EXCEPT !.termed = TRUE]
      BY <2>1, <2>2 DEF Termed
    <3> QED  BY <2>1, <2>2, <3>1 DEF IsProcess, ProcessFields
  <2>3. CASE p \notin S
    BY <2>1, <2>3 DEF Termed
  <2> QED  BY <2>2, <2>3
<1>3. Untold(process') = Untold(process) \ S
  BY <1>2 DEF Untold, Running, AllPids
<1> QED
  BY <1>1, <1>2, <1>3

LEMMA Reaped ==
    ASSUME OwnedInv, NEW keep, reap_orphaned_omegon_serves(keep)
    PROVE  /\ process' = [p \in AllPids |-> process'[p]]
           /\ \A p \in AllPids : IsProcess(process'[p])
           /\ Untold(process') \subseteq Untold(process)
           /\ keep = {} => Untold(process') = {}
           /\ pidFile' = pidFile \/ Untold(process') = {}
<1> DEFINE kept == {p \in OwnedProcesses : process[p].port \in keep}
<1>1. process' = Termed(OwnedProcesses \ kept)
  BY DEF reap_orphaned_omegon_serves
<1>2. pidFile' = pidFile \/ kept = {}
  BY DEF reap_orphaned_omegon_serves
<1>3. keep = {} => kept = {}
  OBVIOUS
<1>4. Untold(process) \subseteq OwnedProcesses
  BY DEF Untold, Running, OwnedProcesses, Alive
<1> HIDE DEF kept
<1>5. /\ process' = [p \in AllPids |-> process'[p]]
      /\ \A p \in AllPids : IsProcess(process'[p])
      /\ Untold(process') = Untold(process) \ (OwnedProcesses \ kept)
  BY <1>1, TermedProcesses
<1> QED
  BY <1>2, <1>3, <1>4, <1>5

\* One process has become k, and was not owned and running before, or does not run now.
LEMMA OneProcessGoesOn ==
    ASSUME OwnedInv, NEW p \in AllPids, NEW k, IsProcess(k), process' = [process EXCEPT ![p] = k]
    PROVE  /\ process' = [q \in AllPids |-> process'[q]]
           /\ \A q \in AllPids : IsProcess(process'[q])
           /\ Untold(process') \ {p} = Untold(process) \ {p}
           /\ p \in Untold(process') <=> p \in Pids /\ Running(k) /\ ~k.termed
<1>1. process' = [q \in AllPids |-> process'[q]] /\ process'[p] = k
      /\ \A q \in AllPids \ {p} : process'[q] = process[q]
  BY DEF OwnedInv
<1>2. \A q \in AllPids : IsProcess(process'[q])
  BY <1>1 DEF OwnedInv
<1> QED
  BY <1>1, <1>2 DEF Untold, AllPids

\* The processes change by themselves.
LEMMA ProcessesKeepOwned ==
    ASSUME OwnedInv, UNCHANGED <<auspex, pidFile, overlapped>>,
           process' = [p \in AllPids |-> process'[p]], \A p \in AllPids : IsProcess(process'[p]),
           Untold(process') \subseteq Untold(process)
    PROVE  OwnedInv'
  BY DEF OwnedInv, Single, Tidy

\* A launch goes on from a phase to one that says nothing of the processes.
LEMMA QuietPhase ==
    ASSUME OwnedInv, NEW a \in Auspexes, auspex[a].phase # "off", NEW k, IsAuspex(k),
           auspex' = [auspex EXCEPT ![a] = k], k.phase \in {"probe", "attach", "sweep", "polling", "up", "failed"},
           k.hook => auspex[a].hook, UNCHANGED overlapped,
           process' = [p \in AllPids |-> process'[p]], \A p \in AllPids : IsProcess(process'[p]),
           Untold(process') \subseteq Untold(process), pidFile' = pidFile \/ Untold(process') = {}
    PROVE  OwnedInv'
<1>1. ASSUME ~overlapped'
      PROVE  /\ \A b \in Auspexes \ {a} : auspex[b].phase = "off" /\ ~auspex[b].hook
             /\ Single(Untold(process'))
             /\ Tidy(k, pidFile', Untold(process'))
  <2>1. \A b \in Auspexes \ {a} : auspex[b].phase = "off" /\ ~auspex[b].hook
    BY <1>1, OthersAreOff
  <2>2. Single(Untold(process')) /\ Tidy(auspex[a], pidFile, Untold(process))
    BY <1>1 DEF OwnedInv, Single
  <2>3. Tidy(k, pidFile', Untold(process'))
    BY <2>2 DEF Tidy
  <2> QED  BY <2>1, <2>2, <2>3
<1> QED
  BY <1>1, OneAuspexGoesOn

LEMMA LaunchKeepsOwned ==
    ASSUME OwnedInv, NEW a \in Auspexes, Launch(a)
    PROVE  OwnedInv'
<1>1. PICK k : k = [Off EXCEPT !.phase = "probe", !.cap = launches + 1]
  OBVIOUS
<1>2. IsAuspex(k) /\ k.phase = "probe" /\ ~k.hook
  BY <1>1 DEF IsAuspex, Off, AuspexFields
<1>3. auspex' = [auspex EXCEPT ![a] = k] /\ UNCHANGED <<process, pidFile>>
  BY <1>1 DEF Launch
<1>4. ASSUME ~overlapped' PROVE ~overlapped /\ \A b \in Auspexes \ {a} : auspex[b].phase = "off"
  BY <1>4 DEF Launch
<1>5. ASSUME ~overlapped'
      PROVE  /\ \A b \in Auspexes \ {a} : auspex[b].phase = "off" /\ ~auspex[b].hook
             /\ Single(Untold(process'))
             /\ Tidy(k, pidFile', Untold(process'))
  <2>1. \A b \in Auspexes : Tidy(auspex[b], pidFile, Untold(process))
    BY <1>4, <1>5 DEF OwnedInv
  <2>2. \A b \in Auspexes \ {a} : ~auspex[b].hook
    BY <1>4, <1>5, <2>1 DEF Tidy
  <2>3. Single(Untold(process')) /\ Tidy(k, pidFile', Untold(process'))
    BY <1>2, <1>3, <1>4, <1>5 DEF OwnedInv, Tidy
  <2> QED  BY <1>4, <1>5, <2>2, <2>3
<1> QED
  BY <1>2, <1>3, <1>5, SameProcesses, OneAuspexGoesOn

\* The steps of a launch that leave the processes alone or take them away.
LEMMA QuietStepsKeepOwned ==
    ASSUME OwnedInv, NEW a \in Auspexes,
           \/ Probe(a) \/ AttachExisting(a) \/ AttachExistingFails(a) \/ SpawnFails(a)
           \/ Handshake(a) \/ BecomeReady(a) \/ PollingFails(a)
    PROVE  OwnedInv'
<1> PICK j : j = auspex[a] /\ IsAuspex(j)
  BY DEF OwnedInv
<1>0. j.phase # "off" /\ UNCHANGED overlapped
  BY DEF Probe, AttachExisting, AttachExistingFails, SpawnFails, Handshake, BecomeReady, PollingFails
<1>1. /\ process' = [p \in AllPids |-> process'[p]] /\ \A p \in AllPids : IsProcess(process'[p])
      /\ Untold(process') \subseteq Untold(process) /\ (pidFile' = pidFile \/ Untold(process') = {})
  <2>1. CASE UNCHANGED <<process, pidFile>>
    BY <2>1, SameProcesses
  <2>2. CASE \E keep : reap_orphaned_omegon_serves(keep)
    BY <2>2, Reaped
  <2> QED
    BY <2>1, <2>2
    DEF Probe, AttachExisting, AttachExistingFails, SpawnFails, Handshake, BecomeReady, PollingFails
<1>2. PICK k : /\ auspex' = [auspex EXCEPT ![a] = k] /\ IsAuspex(k) /\ k.hook = j.hook
               /\ k.phase \in {"probe", "attach", "sweep", "polling", "up", "failed"}
  <2>1. ASSUME NEW ph \in {"attach", "sweep", "polling"}, auspex' = [auspex EXCEPT ![a].phase = ph]
        PROVE  \E k : /\ auspex' = [auspex EXCEPT ![a] = k] /\ IsAuspex(k) /\ k.hook = j.hook
                      /\ k.phase \in {"probe", "attach", "sweep", "polling", "up", "failed"}
    <3>1. PICK k : k = [j EXCEPT !.phase = ph]
      OBVIOUS
    <3>2. IsAuspex(k) /\ k.hook = j.hook /\ k.phase = ph
      BY <3>1 DEF IsAuspex, AuspexFields
    <3>3. auspex' = [auspex EXCEPT ![a] = k]
      BY <2>1, <3>1 DEF OwnedInv
    <3> QED  BY <3>2, <3>3
  <2>2. CASE \E p, ipc : auspex' = [auspex EXCEPT ![a] = Attached(a, p, ipc)]
    <3>1. PICK p, ipc : auspex' = [auspex EXCEPT ![a] = Attached(a, p, ipc)]
      BY <2>2
    <3>2. PICK bridge : Attached(a, p, ipc) = [j EXCEPT !.phase = "up", !.at = p, !.bridge = bridge, !.cap = 0]
      BY DEF Attached
    <3>3. PICK k : k = [j EXCEPT !.phase = "up", !.at = p, !.bridge = bridge, !.cap = 0]
      OBVIOUS
    <3>4. IsAuspex(k) /\ k.hook = j.hook /\ k.phase = "up"
      BY <3>3 DEF IsAuspex, AuspexFields
    <3> QED  BY <3>1, <3>2, <3>3, <3>4
  <2>3. CASE auspex' = [auspex EXCEPT ![a] = Failed(a)]
    <3>2. PICK bridge : Failed(a) = [j EXCEPT !.phase = "failed", !.bridge = bridge, !.cap = 0]
      BY DEF Failed
    <3>3. PICK k : k = [j EXCEPT !.phase = "failed", !.bridge = bridge, !.cap = 0]
      OBVIOUS
    <3>4. IsAuspex(k) /\ k.hook = j.hook /\ k.phase = "failed"
      BY <3>3 DEF IsAuspex, AuspexFields
    <3> QED  BY <2>3, <3>2, <3>3, <3>4
  <2>4. CASE Probe(a)
    <3>1. PICK ph \in {"attach", "sweep"} : auspex' = [auspex EXCEPT ![a].phase = ph]
      BY <2>4 DEF Probe
    <3> QED  BY <2>1, <3>1
  <2>5. CASE AttachExistingFails(a)
    BY <2>1, <2>5 DEF AttachExistingFails
  <2>6. CASE Handshake(a)
    BY <2>1, <2>6 DEF Handshake
  <2>7. CASE AttachExisting(a) \/ BecomeReady(a)
    BY <2>2, <2>7 DEF AttachExisting, BecomeReady
  <2>8. CASE SpawnFails(a) \/ PollingFails(a)
    BY <2>3, <2>8 DEF SpawnFails, PollingFails
  <2> QED  BY <2>4, <2>5, <2>6, <2>7, <2>8
<1> QED
  BY <1>0, <1>1, <1>2, QuietPhase

\* The sweep, and the port that is chosen after it.
LEMMA SweepKeepsOwned ==
    ASSUME OwnedInv, NEW a \in Auspexes, Sweep(a) \/ ChoosePort(a)
    PROVE  OwnedInv'
<1> PICK j : j = auspex[a] /\ IsAuspex(j)
  BY DEF OwnedInv
<1>0. j.phase # "off" /\ UNCHANGED overlapped
  BY DEF Sweep, ChoosePort
<1>1. PICK k : /\ auspex' = [auspex EXCEPT ![a] = k] /\ IsAuspex(k) /\ k.hook = j.hook
               /\ k.phase \in {"choose", "spawn"}
  <2>1. CASE Sweep(a)
    <3>1. PICK k : k = [j EXCEPT !.phase = "choose"]
      OBVIOUS
    <3>2. IsAuspex(k) /\ k.hook = j.hook /\ k.phase = "choose"
      BY <3>1 DEF IsAuspex, AuspexFields
    <3>3. auspex' = [auspex EXCEPT ![a] = k]
      BY <2>1, <3>1 DEF Sweep, OwnedInv
    <3> QED  BY <3>2, <3>3
  <2>2. CASE ChoosePort(a)
    <3>0. PICK port : port = choose_auspex_control_port
      OBVIOUS
    <3>1. PICK k : k = [j EXCEPT !.phase = "spawn", !.port = port]
      OBVIOUS
    <3>2. IsAuspex(k) /\ k.hook = j.hook /\ k.phase = "spawn"
      BY <3>1 DEF IsAuspex, AuspexFields
    <3>3. auspex' = [auspex EXCEPT ![a] = k]
      BY <2>2, <3>0, <3>1 DEF ChoosePort, OwnedInv
    <3> QED  BY <3>2, <3>3
  <2> QED  BY <2>1, <2>2
<1>2. process' = [p \in AllPids |-> process'[p]] /\ \A p \in AllPids : IsProcess(process'[p])
  BY Reaped, SameProcesses DEF Sweep, ChoosePort
<1>3. ASSUME ~overlapped PROVE Untold(process') = {}
  <2>1. CASE Sweep(a)
    BY <2>1, Reaped DEF Sweep
  <2>2. CASE ChoosePort(a)
    BY <1>3, <2>2, SameProcesses DEF ChoosePort, OwnedInv, Tidy
  <2> QED  BY <2>1, <2>2
<1>4. ASSUME ~overlapped'
      PROVE  /\ \A b \in Auspexes \ {a} : auspex[b].phase = "off" /\ ~auspex[b].hook
             /\ Single(Untold(process'))
             /\ Tidy(k, pidFile', Untold(process'))
  BY <1>0, <1>1, <1>3, <1>4, OthersAreOff DEF Single, Tidy
<1> QED
  BY <1>1, <1>2, <1>4, OneAuspexGoesOn

LEMMA SpawnKeepsOwned ==
    ASSUME OwnedInv, NEW a \in Auspexes, Spawn(a)
    PROVE  OwnedInv'
<1> PICK j : j = auspex[a] /\ IsAuspex(j) /\ j.phase = "spawn"
  BY DEF OwnedInv, Spawn
<1> PICK p \in Pids : p = NextPid
  BY DEF Spawn, NextPid
<1>1. PICK x : x = [st |-> "starting", termed |-> FALSE, port |-> auspex[a].port, cap |-> auspex[a].cap]
  OBVIOUS
<1>2. IsProcess(x)
  BY <1>1 DEF IsProcess, ProcessFields
<1>3. process' = [process EXCEPT ![p] = x] /\ pidFile' = p /\ UNCHANGED overlapped
  BY <1>1 DEF Spawn
<1>4. PICK k : k = [j EXCEPT !.phase = "handshake", !.child = p, !.hook = TRUE]
  OBVIOUS
<1>5. IsAuspex(k) /\ k.phase = "handshake" /\ k.child = p
  BY <1>4 DEF IsAuspex, AuspexFields
<1>6. auspex' = [auspex EXCEPT ![a] = k]
  BY <1>4 DEF Spawn, OwnedInv
<1>7. /\ process' = [q \in AllPids |-> process'[q]]
      /\ \A q \in AllPids : IsProcess(process'[q])
      /\ Untold(process') \ {p} = Untold(process) \ {p}
  BY <1>2, <1>3, OneProcessGoesOn DEF AllPids
<1>8. ASSUME ~overlapped'
      PROVE  /\ \A b \in Auspexes \ {a} : auspex[b].phase = "off" /\ ~auspex[b].hook
             /\ Single(Untold(process'))
             /\ Tidy(k, pidFile', Untold(process'))
  <2>1. Untold(process) = {}
    BY <1>3, <1>8 DEF OwnedInv, Tidy
  <2>2. Untold(process') \subseteq {p}
    BY <1>7, <2>1
  <2> QED  BY <1>3, <1>5, <1>8, <2>2, OthersAreOff DEF Single, Tidy
<1> QED
  BY <1>5, <1>6, <1>7, <1>8, OneAuspexGoesOn

LEMMA HandshakeFailsKeepsOwned ==
    ASSUME OwnedInv, NEW a \in Auspexes, HandshakeFails(a)
    PROVE  OwnedInv'
<1> PICK j : j = auspex[a] /\ IsAuspex(j) /\ j.phase = "handshake"
  BY DEF OwnedInv, HandshakeFails
<1>1. PICK bridge : Failed(a) = [j EXCEPT !.phase = "failed", !.bridge = bridge, !.cap = 0]
  BY DEF Failed
<1>2. PICK k : k = [j EXCEPT !.phase = "failed", !.bridge = bridge, !.cap = 0]
  OBVIOUS
<1>3. IsAuspex(k) /\ k.hook = j.hook /\ k.phase = "failed"
  BY <1>2 DEF IsAuspex, AuspexFields
<1>4. auspex' = [auspex EXCEPT ![a] = k] /\ UNCHANGED overlapped
  BY <1>1, <1>2 DEF HandshakeFails
<1>5. IsProcess(Dead) /\ ~Running(Dead)
  BY DEF IsProcess, ProcessFields, Dead, Running
<1>6. process' = [process EXCEPT ![j.child] = Dead]
  BY DEF HandshakeFails
<1>7. /\ process' = [q \in AllPids |-> process'[q]]
      /\ \A q \in AllPids : IsProcess(process'[q])
      /\ Untold(process') = Untold(process) \ {j.child}
  <2>1. CASE j.child \in AllPids
    <3>0. PICK c \in AllPids : c = j.child
      BY <2>1
    <3>1. /\ process' = [q \in AllPids |-> process'[q]]
          /\ \A q \in AllPids : IsProcess(process'[q])
          /\ Untold(process') \ {c} = Untold(process) \ {c}
          /\ c \in Untold(process') <=> c \in Pids /\ Running(Dead) /\ ~Dead.termed
      BY <1>5, <1>6, <3>0, OneProcessGoesOn
    <3> QED  BY <1>5, <3>0, <3>1
  <2>2. CASE j.child \notin AllPids
    <3>1. process' = process
      BY <1>6, <2>2 DEF OwnedInv
    <3> QED  BY <2>2, <3>1, SameProcesses DEF Untold, AllPids
  <2> QED  BY <2>1, <2>2
<1>8. ASSUME ~overlapped'
      PROVE  /\ \A b \in Auspexes \ {a} : auspex[b].phase = "off" /\ ~auspex[b].hook
             /\ Single(Untold(process'))
             /\ Tidy(k, pidFile', Untold(process'))
  <2>1. Tidy(j, pidFile, Untold(process)) /\ Single(Untold(process))
    BY <1>4, <1>8 DEF OwnedInv
  <2>2. k.hook => Untold(process') = {}
    BY <1>3, <1>7, <2>1 DEF Tidy
  <2>3. Tidy(k, pidFile', Untold(process'))
    BY <1>3, <2>2 DEF Tidy
  <2>4. Single(Untold(process'))
    BY <1>7, <2>1 DEF Single
  <2> QED  BY <1>4, <1>8, <2>3, <2>4, OthersAreOff
<1> QED
  BY <1>3, <1>4, <1>7, <1>8, OneAuspexGoesOn

LEMMA RestartKeepsOwned ==
    ASSUME OwnedInv, NEW a \in Auspexes, Restart(a) \/ RestartWithoutBinary(a)
    PROVE  OwnedInv'
<1> PICK j : j = auspex[a] /\ IsAuspex(j) /\ j.phase # "off"
  BY DEF OwnedInv, Restart, RestartWithoutBinary
<1>1. /\ UNCHANGED overlapped /\ process' = Termed(OwnedProcesses)
      /\ process' = [p \in AllPids |-> process'[p]]
      /\ \A p \in AllPids : IsProcess(process'[p])
      /\ Untold(process') = Untold(process) \ OwnedProcesses
  <2>1. UNCHANGED overlapped /\ process' = Termed(OwnedProcesses)
    BY DEF Restart, RestartWithoutBinary
  <2> QED  BY <2>1, TermedProcesses
<1>2. Untold(process) \subseteq OwnedProcesses
  BY DEF Untold, Running, OwnedProcesses, Alive
<1>3. CASE Restart(a)
  <2>1. PICK k : k = [j EXCEPT !.phase = "probe", !.child = NoPid, !.old = OwnedProcesses]
    OBVIOUS
  <2>2. IsAuspex(k) /\ k.hook = j.hook /\ k.phase = "probe"
    BY <2>1 DEF IsAuspex, AuspexFields
  <2>3. auspex' = [auspex EXCEPT ![a] = k]
    BY <1>3, <2>1 DEF Restart, OwnedInv
  <2> QED  BY <1>1, <1>2, <2>2, <2>3, QuietPhase
<1>4. CASE RestartWithoutBinary(a)
  <2>1. auspex' = [auspex EXCEPT ![a] = j] /\ j.phase \in {"up", "failed"}
    BY <1>4 DEF RestartWithoutBinary, OwnedInv
  <2> QED  BY <1>1, <1>2, <2>1, QuietPhase
<1> QED  BY <1>3, <1>4

\* What runs is no more than before.
LEMMA EndKeepsOwned ==
    ASSUME OwnedInv, NEW a \in Auspexes, Exit(a) \/ Crash(a)
    PROVE  OwnedInv'
<1>1. auspex[a].phase # "off" /\ auspex' = [auspex EXCEPT ![a] = Off] /\ UNCHANGED overlapped
  BY DEF Exit, Crash
<1>2. IsAuspex(Off) /\ Off.phase = "off" /\ ~Off.hook
  BY DEF IsAuspex, Off, AuspexFields
<1>3. /\ process' = [p \in AllPids |-> process'[p]] /\ \A p \in AllPids : IsProcess(process'[p])
      /\ Untold(process') \subseteq Untold(process)
  <2>1. CASE UNCHANGED process
    BY <2>1, SameProcesses
  <2>2. CASE process' = Termed(reap_owned_omegon_child)
    BY <2>2, TermedProcesses
  <2> QED  BY <2>1, <2>2 DEF Exit, Crash
<1>4. ASSUME ~overlapped'
      PROVE  /\ \A b \in Auspexes \ {a} : auspex[b].phase = "off" /\ ~auspex[b].hook
             /\ Single(Untold(process'))
             /\ Tidy(Off, pidFile', Untold(process'))
  <2>1. \A b \in Auspexes \ {a} : auspex[b].phase = "off" /\ ~auspex[b].hook
    BY <1>1, <1>4, OthersAreOff
  <2>2. Single(Untold(process'))
    BY <1>1, <1>3, <1>4 DEF OwnedInv, Single
  <2>3. Tidy(Off, pidFile', Untold(process'))
    BY <1>2 DEF Tidy
  <2> QED  BY <2>1, <2>2, <2>3
<1> QED
  BY <1>1, <1>2, <1>3, <1>4, OneAuspexGoesOn

LEMMA OwnedStep == OwnedInv /\ [OwNext]_owVars => OwnedInv'
<1> SUFFICES ASSUME OwnedInv, [OwNext]_owVars PROVE OwnedInv'
  OBVIOUS
<1>1. ASSUME NEW a \in Auspexes,
             \/ Launch(a) \/ Probe(a) \/ AttachExisting(a) \/ AttachExistingFails(a)
             \/ Sweep(a) \/ ChoosePort(a) \/ Spawn(a) \/ SpawnFails(a)
             \/ Handshake(a) \/ HandshakeFails(a) \/ BecomeReady(a) \/ PollingFails(a)
             \/ Restart(a) \/ RestartWithoutBinary(a) \/ Exit(a) \/ Crash(a)
      PROVE  OwnedInv'
  BY <1>1, LaunchKeepsOwned, QuietStepsKeepOwned, SweepKeepsOwned, SpawnKeepsOwned,
     HandshakeFailsKeepsOwned, RestartKeepsOwned, EndKeepsOwned
<1>2. ASSUME NEW p \in AllPids, NEW k, IsProcess(k), process' = [process EXCEPT ![p] = k],
             p \in Pids => (Running(k) /\ ~k.termed => p \in Untold(process)),
             UNCHANGED <<auspex, pidFile, overlapped>>
      PROVE  OwnedInv'
  <2>1. /\ process' = [q \in AllPids |-> process'[q]]
        /\ \A q \in AllPids : IsProcess(process'[q])
        /\ Untold(process') \ {p} = Untold(process) \ {p}
        /\ p \in Untold(process') <=> p \in Pids /\ Running(k) /\ ~k.termed
    BY <1>2, OneProcessGoesOn
  <2>2. Untold(process') \subseteq Untold(process)
    BY <1>2, <2>1
  <2> QED  BY <1>2, <2>1, <2>2, ProcessesKeepOwned
<1>3. IsProcess(Dead) /\ ~Running(Dead)
  BY DEF IsProcess, ProcessFields, Dead, Running
<1>4. ASSUME NEW p \in Pids, ChildServes(p) PROVE OwnedInv'
  <2> PICK j : j = process[p] /\ IsProcess(j) /\ p \in AllPids
    BY DEF OwnedInv, AllPids
  <2>1. CASE port_is_free(j.port)
    <3>1. PICK k : k = [j EXCEPT !.st = "serving"]
      OBVIOUS
    <3>2. IsProcess(k) /\ k.termed = j.termed
      BY <3>1 DEF IsProcess, ProcessFields
    <3>3. process' = [process EXCEPT ![p] = k] /\ UNCHANGED <<auspex, pidFile, overlapped>>
      BY <1>4, <2>1, <3>1 DEF ChildServes, OwnedInv
    <3>4. ~k.termed => p \in Untold(process)
      BY <1>4, <3>2 DEF ChildServes, Untold, Running
    <3> QED  BY <1>2, <3>2, <3>3, <3>4
  <2>2. CASE ~port_is_free(j.port)
    <3>1. process' = [process EXCEPT ![p] = Dead] /\ UNCHANGED <<auspex, pidFile, overlapped>>
      BY <1>4, <2>2 DEF ChildServes, OwnedInv
    <3> QED  BY <1>2, <1>3, <3>1
  <2> QED  BY <2>1, <2>2
<1>5. ASSUME NEW p \in AllPids, Terminates(p) \/ (p = UserPid /\ UserStops) PROVE OwnedInv'
  <2>1. process' = [process EXCEPT ![p] = Dead] /\ UNCHANGED <<auspex, pidFile, overlapped>>
    BY <1>5 DEF Terminates, UserStops
  <2> QED  BY <1>2, <1>3, <2>1
<1>6. ASSUME UserServes PROVE OwnedInv'
  <2> PICK j : j = process[UserPid] /\ IsProcess(j)
    BY DEF OwnedInv, AllPids
  <2>1. PICK k : k = [j EXCEPT !.st = "serving"]
    OBVIOUS
  <2>2. IsProcess(k)
    BY <2>1 DEF IsProcess, ProcessFields
  <2>3. process' = [process EXCEPT ![UserPid] = k] /\ UNCHANGED <<auspex, pidFile, overlapped>>
    BY <1>6, <2>1 DEF UserServes, OwnedInv
  <2> QED  BY <1>2, <2>2, <2>3, OwnedAssumption DEF AllPids
<1>7. CASE UNCHANGED owVars
  BY <1>7 DEF owVars, OwnedInv
<1> QED
  BY <1>1, <1>4, <1>5, <1>6, <1>7 DEF OwNext, AllPids

\* As long as Auspex processes follow one another: whatever crashes, restarts and failed
\* launches came before, at most one owned Omegon is left that was not told to terminate, and
\* the exit of an Auspex that spawned one leaves none (reap_orphaned_omegon_serves,
\* reap_owned_omegon_child, the pid file).
THEOREM NothingIsLeftBehind == OwSpec => OwnedOmegonIsReaped
<1>1. OwnedInv => OneOwnedOmegon
  <2> SUFFICES ASSUME OwnedInv, ~overlapped
               PROVE  Cardinality({p \in OwnedProcesses : ~process[p].termed}) <= 1
    BY DEF OneOwnedOmegon
  <2>1. {p \in OwnedProcesses : ~process[p].termed} = Untold(process)
    BY DEF Untold, OwnedProcesses, Alive, Running
  <2>2. CASE Untold(process) = {}
    BY <2>1, <2>2, FS_EmptySet
  <2>3. CASE Untold(process) # {}
    <3>1. PICK x : Untold(process) = {x}
      BY <2>3 DEF OwnedInv, Single
    <3>2. Cardinality({x}) = 1
      BY FS_Singleton
    <3>3. Cardinality(Untold(process)) = 1
      BY <3>1, <3>2, Zenon
    <3>4. Cardinality({p \in OwnedProcesses : ~process[p].termed}) = 1
      BY <2>1, <3>3, Zenon
    <3> QED  BY <3>4
  <2> QED  BY <2>2, <2>3
<1>2. OwnedInv /\ [OwNext]_owVars =>
         [\A a \in Auspexes :
            (Exit(a) /\ ~overlapped /\ auspex[a].hook) =>
                \A p \in OwnedProcesses : process'[p].termed]_owVars
  <2> SUFFICES ASSUME OwnedInv, NEW a \in Auspexes, Exit(a), ~overlapped, auspex[a].hook,
                      NEW p \in OwnedProcesses
               PROVE  process'[p].termed
    OBVIOUS
  <2>1. process' = Termed(reap_owned_omegon_child)
    BY DEF Exit
  <2>2. p \in AllPids
    BY DEF OwnedProcesses, AllPids
  <2>3. CASE p = pidFile
    BY <2>1, <2>2, <2>3, TermedProcesses DEF reap_owned_omegon_child
  <2>4. CASE p # pidFile
    <3>1. Untold(process) \subseteq {pidFile}
      BY DEF OwnedInv, Tidy
    <3>2. process[p].termed
      BY <2>4, <3>1 DEF Untold, OwnedProcesses, Alive, Running
    <3>3. p \notin reap_owned_omegon_child
      BY <2>4 DEF reap_owned_omegon_child
    <3>4. process'[p] = process[p]
      BY <2>1, <2>2, <3>3 DEF Termed
    <3> QED  BY <3>2, <3>4
  <2> QED  BY <2>3, <2>4
<1> QED
  BY <1>1, <1>2, OwnedInitially, OwnedStep, PTL DEF OwSpec, OwnedOmegonIsReaped, ExitLeavesNothing

----------------------------------------------------------------------------
(***************************************************************************)
(* Induction on places.                                                    *)
(*                                                                         *)
(* What a recursive function makes of a sequence is proved from the first  *)
(* place to the last.  A property of places is given as the set of numbers *)
(* that have it, and a recursive function exists because its steps can be  *)
(* taken one after another.                                                *)
(***************************************************************************)
\* Among some numbers there is a least one.
LEMMA LeastNumber ==
    ASSUME NEW T, T \subseteq Nat, T # {}
    PROVE  \E x \in T : \A y \in T : x <= y
<1> DEFINE R == OpToRel(<, Nat)
<1>1. IsWellFoundedOn(R, Nat)
  BY NatLessThanWellFounded
<1>2. \A x, y \in Nat : x < y => <<x, y>> \in R
  BY DEF OpToRel
<1> HIDE DEF R
<1>3. PICK x \in T : \A y \in T : ~ (<<y, x>> \in R)
  BY <1>1, WFMin
<1>4. \A y \in T : ~ (y < x)
  BY <1>2, <1>3
<1> QED
  BY <1>4

\* Induction, on a set of numbers.
LEMMA SetInduction ==
    ASSUME NEW P, 0 \in P, \A n \in Nat : n \in P => n + 1 \in P
    PROVE  Nat \subseteq P
<1> SUFFICES ASSUME Nat \ P # {} PROVE FALSE
  OBVIOUS
<1>1. PICK x \in Nat \ P : \A y \in Nat \ P : x <= y
  BY LeastNumber
<1>2. x - 1 \in Nat /\ x - 1 \in P
  BY <1>1
<1> QED
  BY <1>1, <1>2

\* The first of some places is one of them, and no other comes before it.
LEMMA FirstIsFirst ==
    ASSUME NEW I, I \subseteq Nat, I # {}
    PROVE  First(I) \in I /\ \A i \in I : First(I) <= i
<1> QED  BY LeastNumber DEF First

\* A step function applied again and again: the recursive functions of the
\* modules exist.
Iterates(f, S, x, N, G) ==
    f \in [0..N -> S] /\ f[0] = x /\ \A n \in 1..N : f[n] = G[n][f[n - 1]]

LEMMA Recursion ==
    ASSUME NEW S, NEW x \in S, NEW N \in Nat, NEW G \in [1..N -> [S -> S]]
    PROVE  \E f : Iterates(f, S, x, N, G)
<1> DEFINE Runs(f, m) == f \in [0..m -> S] /\ f[0] = x /\ \A n \in 1..m : f[n] = G[n][f[n - 1]]
           P == {m \in Nat : m <= N => \E f : Runs(f, m)}
<1>1. 0 \in P
  <2>1. Runs([n \in 0..0 |-> x], 0)
    OBVIOUS
  <2> QED  BY <2>1
<1>2. ASSUME NEW m \in Nat, m \in P PROVE m + 1 \in P
  <2> SUFFICES ASSUME m + 1 <= N PROVE \E f : Runs(f, m + 1)
    OBVIOUS
  <2>1. PICK f : Runs(f, m)
    BY <1>2
  <2>2. PICK y \in S : y = G[m + 1][f[m]]
    BY <2>1
  <2>3. PICK g : g = [n \in 0..(m + 1) |-> IF n = m + 1 THEN y ELSE f[n]]
    OBVIOUS
  <2>4. g \in [0..(m + 1) -> S] /\ g[0] = x
    BY <2>1, <2>3
  <2>5. ASSUME NEW n \in 1..(m + 1) PROVE g[n] = G[n][g[n - 1]]
    <3>1. n - 1 \in 0..m /\ g[n - 1] = f[n - 1]
      BY <2>3
    <3>2. CASE n = m + 1
      <4>1. g[n] = y /\ n - 1 = m
        BY <2>3, <3>2
      <4> QED  BY <2>2, <3>1, <3>2, <4>1
    <3>3. CASE n # m + 1
      <4>1. n \in 1..m /\ g[n] = f[n]
        BY <2>3, <3>3
      <4> QED  BY <2>1, <3>1, <4>1
    <3> QED  BY <3>2, <3>3
  <2> QED  BY <2>4, <2>5
<1> HIDE DEF P
<1>3. Nat \subseteq P
  BY <1>1, <1>2, SetInduction
<1> QED  BY <1>3 DEF P, Iterates

\* What p takes from the first n places: those in I, in their order.
Takes(p, l, n, I) ==
    /\ p \in [1..l -> I \cap (1..n)]
    /\ \A k, m \in 1..l : k < m => p[k] < p[m]
    /\ \A i \in I \cap (1..n) : \E k \in 1..l : p[k] = i

\* t has the elements of s at the places of I up to n, in their order, each once.
Selected(t, s, n, I) ==
    \E p : Takes(p, Len(t), n, I) /\ \A k \in 1..Len(t) : t[k] = s[p[k]]

\* SelectAt as it runs, from the first place to the last.
Selects(f, S, s, I) ==
    /\ f \in [0..Len(s) -> Seq(S)]
    /\ f[0] = <<>> /\ f[Len(s)] = SelectAt(s, I)
    /\ \A n \in 1..Len(s) : f[n] = IF n \in I THEN Append(f[n - 1], s[n]) ELSE f[n - 1]
    /\ \A n \in 0..Len(s) : Selected(f[n], s, n, I)

LEMMA SelectAtRuns ==
    ASSUME NEW S, NEW s \in Seq(S), NEW I
    PROVE  \E f : Selects(f, S, s, I)
<1> DEFINE Body(f, n) == IF n = 0 THEN <<>>
                         ELSE IF n \in I THEN Append(f[n - 1], s[n]) ELSE f[n - 1]
           Is(f) == f = [n \in 0..Len(s) |-> Body(f, n)]
           F == CHOOSE f : Is(f)
<1>0. Len(s) \in Nat /\ \A n \in 1..Len(s) : s[n] \in S
  OBVIOUS
<1>1. \E f : Is(f)
  <2>1. PICK T : T = Seq(S)
    OBVIOUS
  <2>2. PICK G : G = [n \in 1..Len(s) |-> [t \in T |-> IF n \in I THEN Append(t, s[n]) ELSE t]]
    OBVIOUS
  <2>3. G \in [1..Len(s) -> [T -> T]]
    <3>1. \A n \in 1..Len(s), t \in T : (IF n \in I THEN Append(t, s[n]) ELSE t) \in T
      BY <1>0, <2>1
    <3> QED  BY <2>2, <3>1
  <2>4. <<>> \in T
    BY <2>1
  <2>5. PICK f \in [0..Len(s) -> T] : f[0] = <<>> /\ \A n \in 1..Len(s) : f[n] = G[n][f[n - 1]]
    <3>1. PICK N, x : N = Len(s) /\ x = <<>>
      OBVIOUS
    <3>2. N \in Nat /\ x \in T /\ G \in [1..N -> [T -> T]]
      BY <1>0, <2>3, <2>4, <3>1
    <3>3. PICK f : Iterates(f, T, x, N, G)
      BY <3>2, Recursion
    <3> QED  BY <3>1, <3>3 DEF Iterates
  <2>6. ASSUME NEW n \in 0..Len(s) PROVE f[n] = Body(f, n)
    <3>1. CASE n = 0
      BY <2>5, <3>1
    <3>2. CASE n # 0
      <4>1. n \in 1..Len(s) /\ f[n - 1] \in T /\ f[n] = G[n][f[n - 1]]
        BY <1>0, <2>5, <3>2
      <4>2. G[n][f[n - 1]] = IF n \in I THEN Append(f[n - 1], s[n]) ELSE f[n - 1]
        BY <2>2, <4>1
      <4> QED  BY <3>2, <4>1, <4>2
    <3> QED  BY <3>1, <3>2
  <2>7. f = [n \in 0..Len(s) |-> f[n]]
    BY <2>5
  <2>8. Is(f)
    BY <2>6, <2>7
  <2> QED  BY <2>8
<1>2. Is(F)
  BY <1>1
<1>3. SelectAt(s, I) = F[Len(s)]
  BY DEF SelectAt
<1>4. \A n \in 0..Len(s) : F[n] = Body(F, n)
  BY <1>2
<1>f. F = [n \in 0..Len(s) |-> F[n]]
  BY <1>2
<1> HIDE DEF F
<1> DEFINE Good(n) == F[n] \in Seq(S) /\ Selected(F[n], s, n, I)
           P == {n \in Nat : n <= Len(s) => Good(n)}
<1>5. 0 \in P
  <2>1. F[0] = <<>>
    BY <1>0, <1>4
  <2>2. Takes([k \in 1..0 |-> 0], 0, 0, I)
    BY DEF Takes
  <2>3. F[0] \in Seq(S) /\ Len(F[0]) = 0
    BY <2>1
  <2>4. Good(0)
    BY <2>2, <2>3 DEF Selected
  <2> QED  BY <2>4
<1>6. ASSUME NEW n \in Nat, n \in P PROVE n + 1 \in P
  <2> SUFFICES ASSUME n + 1 <= Len(s) PROVE Good(n + 1)
    OBVIOUS
  <2>0. PICK t : t = F[n] /\ t \in Seq(S) /\ Selected(t, s, n, I)
    BY <1>0, <1>6
  <2>1. PICK p : /\ t = F[n] /\ t \in Seq(S)
                 /\ Takes(p, Len(t), n, I) /\ \A k \in 1..Len(t) : t[k] = s[p[k]]
    BY <2>0 DEF Selected
  <2>2. F[n + 1] = IF n + 1 \in I THEN Append(t, s[n + 1]) ELSE t
    BY <1>0, <1>4, <2>1
  <2>3. CASE n + 1 \notin I
    <3>1. Takes(p, Len(t), n + 1, I)
      <4>1. I \cap (1..(n + 1)) = I \cap (1..n)
        BY <2>3
      <4> QED  BY <2>1, <4>1, Zenon DEF Takes
    <3> QED  BY <2>1, <2>2, <2>3, <3>1 DEF Selected
  <2>4. CASE n + 1 \in I
    <3>1. PICK l \in Nat : l = Len(t)
      BY <2>1
    <3>2. PICK u : u = Append(t, s[n + 1])
      OBVIOUS
    <3>3. u \in Seq(S) /\ Len(u) = l + 1 /\ u[l + 1] = s[n + 1] /\ \A k \in 1..l : u[k] = t[k]
      BY <1>0, <2>1, <3>1, <3>2
    <3>4. PICK q : q = [k \in 1..(l + 1) |-> IF k = l + 1 THEN n + 1 ELSE p[k]]
      OBVIOUS
    <3>5. q[l + 1] = n + 1 /\ \A k \in 1..l : q[k] = p[k]
      BY <3>1, <3>4
    <3>6. \A k \in 1..l : p[k] \in I \cap (1..n)
      BY <2>1, <3>1 DEF Takes
    <3>7. q \in [1..(l + 1) -> I \cap (1..(n + 1))]
      BY <2>4, <3>1, <3>4, <3>6
    <3>8. ASSUME NEW k \in 1..(l + 1), NEW m \in 1..(l + 1), k < m PROVE q[k] < q[m]
      <4>1. k \in 1..l
        BY <3>1, <3>8
      <4>2. CASE m = l + 1
        <5>1. q[m] = n + 1 /\ q[k] = p[k] /\ p[k] \in 1..n
          BY <3>5, <3>6, <4>1, <4>2
        <5> QED  BY <5>1
      <4>3. CASE m # l + 1
        <5>1. m \in 1..l /\ q[m] = p[m] /\ q[k] = p[k]
          BY <3>1, <3>5, <4>1, <4>3
        <5>2. p[k] < p[m]
          BY <2>1, <3>1, <3>8, <4>1, <5>1 DEF Takes
        <5> QED  BY <5>1, <5>2
      <4> QED  BY <4>2, <4>3
    <3>9. ASSUME NEW i \in I \cap (1..(n + 1)) PROVE \E k \in 1..(l + 1) : q[k] = i
      <4>1. CASE i = n + 1
        BY <3>1, <3>5, <4>1
      <4>2. CASE i # n + 1
        <5>1. PICK k \in 1..l : p[k] = i
          BY <2>1, <3>1, <4>2 DEF Takes
        <5> QED  BY <3>1, <3>5, <5>1
      <4> QED  BY <4>1, <4>2
    <3>10. Takes(q, l + 1, n + 1, I)
      BY <3>7, <3>8, <3>9 DEF Takes
    <3>11. ASSUME NEW k \in 1..(l + 1) PROVE u[k] = s[q[k]]
      <4>1. CASE k = l + 1
        BY <3>3, <3>5, <4>1
      <4>2. CASE k # l + 1
        <5>1. k \in 1..l
          BY <3>1, <4>2
        <5>2. u[k] = t[k] /\ t[k] = s[p[k]] /\ q[k] = p[k]
          BY <2>1, <3>1, <3>3, <3>5, <5>1
        <5> QED  BY <5>2
      <4> QED  BY <4>1, <4>2
    <3>12. Selected(u, s, n + 1, I)
      BY <3>3, <3>10, <3>11 DEF Selected
    <3> QED  BY <2>2, <2>4, <3>2, <3>3, <3>12
  <2> QED  BY <2>3, <2>4
<1> HIDE DEF P
<1>7. Nat \subseteq P
  BY <1>5, <1>6, SetInduction
<1>8. \A n \in 0..Len(s) : Good(n)
  BY <1>0, <1>7 DEF P
<1>9. F \in [0..Len(s) -> Seq(S)]
  BY <1>f, <1>8
<1>10. F[0] = <<>> /\ \A n \in 1..Len(s) : F[n] = IF n \in I THEN Append(F[n - 1], s[n]) ELSE F[n - 1]
  BY <1>0, <1>4
<1>11. Selects(F, S, s, I)
  BY <1>3, <1>8, <1>9, <1>10 DEF Selects
<1> QED  BY <1>11

\* What SelectAt selects.
LEMMA SelectAtTakes ==
    ASSUME NEW S, NEW s \in Seq(S), NEW I
    PROVE  SelectAt(s, I) \in Seq(S) /\ Selected(SelectAt(s, I), s, Len(s), I)
<1>1. PICK f : Selects(f, S, s, I)
  BY SelectAtRuns
<1>2. Len(s) \in 0..Len(s)
  OBVIOUS
<1> QED  BY <1>1, <1>2 DEF Selects

----------------------------------------------------------------------------
(***************************************************************************)
(* What the operator is told of the primary session.                       *)
(*                                                                         *)
(* The shell's state, the harness and the runtime are written together, so *)
(* a Ready is about the providers beside it; and the telemetry is what a   *)
(* rebuild would make of the session, the settings, the route and the      *)
(* transport as they are now, also after the two steps that do not rebuild *)
(* it (submit, and a reading of the credentials that fails), because what  *)
(* these change is not in it.                                              *)
(***************************************************************************)
SesFields == {"harness", "runtime", "busy", "pending", "latest", "shell"}
SettingsFields == {"rows", "error", "refreshed"}

\* A list of providers: who, whether authenticated, and whether a model is known.
ProviderRows == [name : AllNames, auth : BOOLEAN, known : BOOLEAN]
Rowed(rows) == rows \in Seq(ProviderRows)

GoodSession(s) ==
    /\ s = [k \in SesFields |-> s[k]]
    /\ s.shell \in {"Ready", "Degraded"}
    /\ s.harness # None => Rowed(s.harness.rows)
    /\ s.shell = "Ready" => harness_can_execute_prompts(s.harness, s.runtime)

GoodSettings(st) == st = [k \in SettingsFields |-> st[k]] /\ Rowed(st.rows)

\* The telemetry is the one a rebuild would make now.
TelemetryIsFresh == tele = refresh_telemetry_snapshot(ses, settings, route, transport)

StatusInv ==
    /\ GoodSession(ses)
    /\ GoodSettings(settings)
    /\ TelemetryIsFresh

LEMMA ListingIsRowed ==
    ASSUME NEW listed, NEW auth, NEW known \in BOOLEAN PROVE Rowed(Listing(listed, auth, known))
<1>1. PICK names : names = SelectAt(Names, {i \in DOMAIN Names : Names[i] \in listed})
  OBVIOUS
<1>2. names \in Seq(AllNames)
  BY <1>1, StatusAssumption, SelectAtTakes DEF AllNames
<1>3. ASSUME NEW i \in 1..Len(names) PROVE Row(names[i], names[i] \in auth, known) \in ProviderRows
  <2>0. (names[i] \in auth) = TRUE \/ (names[i] \in auth) = FALSE
    OBVIOUS
  <2>1. PICK a \in BOOLEAN : a = (names[i] \in auth)
    BY <2>0, Zenon
  <2>2. names[i] \in AllNames
    BY <1>2
  <2> QED  BY <2>1, <2>2 DEF Row, ProviderRows
<1>4. Listing(listed, auth, known) = [i \in 1..Len(names) |-> Row(names[i], names[i] \in auth, known)]
  BY <1>1 DEF Listing
<1>5. PICK g : g = [i \in 1..Len(names) |-> Row(names[i], names[i] \in auth, known)]
  OBVIOUS
<1>6. g \in Seq(ProviderRows)
  BY <1>2, <1>3, <1>5
<1> QED  BY <1>4, <1>5, <1>6 DEF Rowed

\* What becomes known of a model changes neither who the provider is nor whether
\* it is authenticated.
SameProviders(rows, n) ==
    /\ Rowed(n) /\ Len(n) = Len(rows) /\ DOMAIN n = DOMAIN rows
    /\ \A i \in 1..Len(rows) : n[i].name = rows[i].name /\ n[i].auth = rows[i].auth

LEMMA KnownAnew ==
    ASSUME NEW rows, Rowed(rows), NEW n, n = [i \in DOMAIN rows |-> n[i]],
           \A i \in 1..Len(rows) : /\ n[i] \in ProviderRows
                                   /\ n[i].name = rows[i].name /\ n[i].auth = rows[i].auth
    PROVE  SameProviders(rows, n)
<1>1. Len(rows) \in Nat /\ DOMAIN rows = 1..Len(rows)
  BY DEF Rowed
<1>2. n = [i \in 1..Len(rows) |-> n[i]]
  BY <1>1
<1>3. n \in Seq(ProviderRows) /\ Len(n) = Len(rows)
  BY <1>1, <1>2
<1>4. DOMAIN n = DOMAIN rows
  OBVIOUS
<1> QED  BY <1>3, <1>4 DEF SameProviders, Rowed

LEMMA NoRowsAreRowed == Rowed(<<>>)
  BY DEF Rowed

LEMMA WithModelsKeepsRows ==
    ASSUME NEW rows, Rowed(rows), NEW stored
    PROVE  SameProviders(rows, WithModels(rows, stored))
<1>1. PICK n : n = WithModels(rows, stored)
  OBVIOUS
<1>2. n = [i \in DOMAIN rows |-> [rows[i] EXCEPT !.known = @ \/ ModelKnown(stored, rows[i].name)]]
  BY <1>1 DEF WithModels
<1>3. n = [i \in DOMAIN rows |-> n[i]]
  BY <1>2
<1>4. ASSUME NEW i \in 1..Len(rows)
      PROVE  n[i] \in ProviderRows /\ n[i].name = rows[i].name /\ n[i].auth = rows[i].auth
  <2>1. PICK r : r = rows[i] /\ r \in ProviderRows /\ i \in DOMAIN rows
    BY DEF Rowed
  <2>2. PICK k \in BOOLEAN : k = (r.known \/ ModelKnown(stored, r.name))
    OBVIOUS
  <2>3. n[i] = [r EXCEPT !.known = r.known \/ ModelKnown(stored, r.name)]
    BY <1>2, <2>1
  <2>4. n[i] = [r EXCEPT !.known = k]
    BY <2>2, <2>3, Zenon
  <2>5. r \in ProviderRows /\ k \in BOOLEAN
    BY <2>1, <2>2
  <2> QED  BY <2>1, <2>4, <2>5 DEF ProviderRows
<1> QED  BY <1>1, <1>3, <1>4, KnownAnew

LEMMA HarnessIsRowed == Harness # None /\ Rowed(Harness.rows)
<1>1. PICK rows : rows = Listing(reporting.listed, reporting.auth, TRUE) /\ Rowed(rows)
  BY ListingIsRowed
<1>2. Harness = [rows |-> rows, impaired |-> reporting.impaired]
  BY <1>1 DEF Harness
<1>3. Harness.rows = rows
  BY <1>2
<1>4. "rows" \in DOMAIN Harness /\ "rows" \notin DOMAIN None
  BY <1>2 DEF None
<1> QED
  BY <1>1, <1>3, <1>4

LEMMA NewRowsAreRowed == \A s, st, stored : Rowed(NewRows(s, st, stored))
<1> SUFFICES ASSUME NEW s, NEW st, NEW stored PROVE Rowed(NewRows(s, st, stored))
  OBVIOUS
<1>1. PICK rows : rows = AuthStatus(stored) /\ Rowed(rows)
  BY ListingIsRowed DEF AuthStatus
<1>2. PICK e, n : e = existing_providers(s, st) /\ n = NewRows(s, st, stored)
  OBVIOUS
<1>3. n = [i \in DOMAIN rows |-> [rows[i] EXCEPT !.known = ModelKnown(e, rows[i].name)]]
  BY <1>1, <1>2 DEF NewRows
<1>4. n = [i \in DOMAIN rows |-> n[i]]
  BY <1>3
<1>5. ASSUME NEW i \in 1..Len(rows)
      PROVE  n[i] \in ProviderRows /\ n[i].name = rows[i].name /\ n[i].auth = rows[i].auth
  <2>1. PICK r : r = rows[i] /\ r \in ProviderRows /\ i \in DOMAIN rows
    BY <1>1 DEF Rowed
  <2>2. PICK k \in BOOLEAN : k = ModelKnown(e, r.name)
    BY DEF ModelKnown
  <2>3. n[i] = [r EXCEPT !.known = ModelKnown(e, r.name)]
    BY <1>3, <2>1
  <2>4. n[i] = [r EXCEPT !.known = k]
    BY <2>2, <2>3, Zenon
  <2>5. r \in ProviderRows /\ k \in BOOLEAN
    BY <2>1, <2>2
  <2> QED  BY <2>1, <2>4, <2>5 DEF ProviderRows
<1>6. Rowed(rows)
  BY <1>1
<1>7. SameProviders(rows, n)
  BY <1>4, <1>5, <1>6, KnownAnew
<1> QED
  BY <1>2, <1>7 DEF SameProviders

\* A harness and the shell's state made from it.
LEMMA HarnessApplies ==
    ASSUME NEW s, GoodSession(s), NEW h, h # None, Rowed(h.rows)
    PROVE  GoodSession(HarnessApplied(s, h))
<1>1. PICK shell : shell = status_from_harness(h) /\ shell \in {"Ready", "Degraded"}
                   /\ (shell = "Ready" => Authenticated(h.rows))
  BY DEF status_from_harness, harness_can_execute_prompts
<1>2. PICK n : n = HarnessApplied(s, h)
  OBVIOUS
<1>3. n = [k \in SesFields |-> IF k = "shell" THEN shell ELSE IF k = "harness" THEN h ELSE s[k]]
  BY <1>1, <1>2 DEF HarnessApplied, GoodSession, SesFields
<1>4. /\ n = [k \in SesFields |-> n[k]]
      /\ n.shell = shell /\ n.harness = h
  BY <1>3 DEF SesFields
<1>5. shell = "Ready" => harness_can_execute_prompts(n.harness, n.runtime)
  BY <1>1, <1>4 DEF harness_can_execute_prompts
<1>6. GoodSession(n)
  BY <1>1, <1>4, <1>5 DEF GoodSession
<1> QED
  BY <1>2, <1>6

\* A snapshot, with a harness or without.
LEMMA SnapshotApplies ==
    ASSUME NEW s, GoodSession(s), NEW h, NEW r, h # None => Rowed(h.rows)
    PROVE  GoodSession(SnapshotApplied(s, r, h))
<1>1. PICK shell : shell = status_from_runtime_or_harness(r, h) /\ shell \in {"Ready", "Degraded"}
  BY DEF status_from_runtime_or_harness, status_from_harness
<1>2. shell = "Ready" => harness_can_execute_prompts(h, r)
  BY <1>1 DEF status_from_runtime_or_harness, status_from_harness, harness_can_execute_prompts
<1>3. PICK n : n = SnapshotApplied(s, r, h)
  OBVIOUS
<1>4. n = [k \in SesFields |-> IF k = "shell" THEN shell ELSE IF k = "harness" THEN h
                               ELSE IF k = "runtime" THEN r ELSE s[k]]
  BY <1>1, <1>3 DEF SnapshotApplied, GoodSession, SesFields
<1>5. /\ n = [k \in SesFields |-> n[k]]
      /\ n.shell = shell /\ n.harness = h /\ n.runtime = r
  BY <1>4 DEF SesFields
<1>6. GoodSession(n)
  BY <1>1, <1>2, <1>5 DEF GoodSession
<1> QED
  BY <1>3, <1>6

\* A change of the turn, of the prompt that waits or of the last turn's telemetry.
LEMMA TurnApplies ==
    ASSUME NEW s, GoodSession(s), NEW n, n = [k \in SesFields |-> n[k]],
           n.shell = s.shell, n.harness = s.harness, n.runtime = s.runtime
    PROVE  GoodSession(n)
  BY DEF GoodSession

LEMMA RebuiltIsFresh ==
    ASSUME NEW s, NEW st, NEW r, NEW t, GoodSession(s), GoodSettings(st),
           Rebuilt(s, st, r, t)
    PROVE  StatusInv'
  BY DEF Rebuilt, StatusInv, TelemetryIsFresh

\* What only changes fields that the telemetry is not made of leaves it fresh.
LEMMA StaysFresh ==
    ASSUME StatusInv, GoodSession(ses'), GoodSettings(settings'),
           ses'.harness = ses.harness, ses'.latest = ses.latest, settings'.rows = settings.rows,
           UNCHANGED <<route, transport, tele>>
    PROVE  StatusInv'
<1>1. SessionRows(ses') = SessionRows(ses)
  BY DEF SessionRows
<1>2. effective_provider_inventory(ses', settings') = effective_provider_inventory(ses, settings)
  BY <1>1 DEF effective_provider_inventory
<1>3. refresh_telemetry_snapshot(ses', settings', route', transport')
        = refresh_telemetry_snapshot(ses, settings, route, transport)
  BY <1>2 DEF refresh_telemetry_snapshot
<1>4. tele' = refresh_telemetry_snapshot(ses', settings', route', transport')
  BY <1>3 DEF StatusInv, TelemetryIsFresh
<1> QED
  BY <1>4 DEF StatusInv, TelemetryIsFresh

\* The two ends of a reading of the credentials.
LEMMA AuthReadApplies ==
    ASSUME StatusInv, NEW stored, AuthRead(stored) \/ AuthFails
    PROVE  StatusInv'
<1>1. CASE AuthRead(stored)
  <2>1. PICK rows : rows = NewRows(ses, settings, stored) /\ Rowed(rows)
    BY NewRowsAreRowed
  <2>2. PICK st : st = [rows |-> rows, error |-> FALSE, refreshed |-> TRUE]
    OBVIOUS
  <2>3. PICK h : h = [rows |-> rows, impaired |-> IF ses.harness = None THEN TRUE ELSE ses.harness.impaired]
    OBVIOUS
  <2>4. h # None /\ h.rows = rows
    <3>1. "rows" \in DOMAIN h /\ "rows" \notin DOMAIN None
      BY <2>3 DEF None
    <3>2. h.rows = rows
      BY <2>3
    <3> QED  BY <3>1, <3>2
  <2>5. GoodSession(HarnessApplied(ses, h))
    BY <2>1, <2>4, HarnessApplies DEF StatusInv
  <2>6. GoodSettings(st)
    BY <2>1, <2>2 DEF GoodSettings, SettingsFields
  <2>7. Rebuilt(HarnessApplied(ses, h), st, route, transport)
    BY <1>1, <2>1, <2>2, <2>3 DEF AuthRead, refresh_provider_auth
  <2> QED  BY <2>5, <2>6, <2>7, RebuiltIsFresh
<1>2. CASE AuthFails
  <2>1. settings' = [settings EXCEPT !.error = TRUE, !.refreshed = TRUE] /\ UNCHANGED <<ses, route, transport, tele>>
    BY <1>2 DEF AuthFails
  <2>2. settings' = [k \in SettingsFields |-> settings'[k]] /\ settings'.rows = settings.rows
    BY <2>1 DEF StatusInv, GoodSettings, SettingsFields
  <2>4. GoodSettings(settings')
    BY <2>2 DEF StatusInv, GoodSettings
  <2>3. GoodSession(ses')
    BY <2>1 DEF StatusInv
  <2> QED  BY <2>1, <2>2, <2>3, <2>4, StaysFresh
<1> QED
  BY <1>1, <1>2

LEMMA StatusInitially == SsInit => StatusInv
<1> SUFFICES ASSUME SsInit PROVE StatusInv
  OBVIOUS
<1>1. PICK harness \in {None, Harness}, told \in {None, Runtime} :
        ses = [harness |-> harness, runtime |-> told, busy |-> FALSE, pending |-> FALSE,
               latest |-> FALSE, shell |-> status_from_runtime_or_harness(told, harness)]
  BY DEF SsInit
<1>2. PICK shell : shell = status_from_runtime_or_harness(told, harness) /\ shell \in {"Ready", "Degraded"}
  BY DEF status_from_runtime_or_harness, status_from_harness
<1>3. shell = "Ready" => harness_can_execute_prompts(harness, told)
  BY <1>2 DEF status_from_runtime_or_harness, status_from_harness, harness_can_execute_prompts
<1>4. harness # None => Rowed(harness.rows)
  BY <1>1, HarnessIsRowed
<1>5. ses = [harness |-> harness, runtime |-> told, busy |-> FALSE, pending |-> FALSE,
             latest |-> FALSE, shell |-> shell]
  BY <1>1, <1>2
<1>6. ses = [k \in SesFields |-> ses[k]] /\ ses.shell = shell /\ ses.harness = harness /\ ses.runtime = told
  BY <1>5 DEF SesFields
<1>7. GoodSession(ses)
  BY <1>2, <1>3, <1>4, <1>6 DEF GoodSession
<1>8. GoodSettings(settings) /\ TelemetryIsFresh
  BY DEF SsInit, SettingsFields, GoodSettings, Rowed, TelemetryIsFresh
<1> QED
  BY <1>7, <1>8 DEF StatusInv

LEMMA StatusStep == StatusInv /\ [SsNext]_ssVars => StatusInv'
<1> SUFFICES ASSUME StatusInv, [SsNext]_ssVars PROVE StatusInv'
  OBVIOUS
<1>1. GoodSession(ses) /\ GoodSettings(settings)
  BY DEF StatusInv
<1>2. CASE OmegonChanges \/ CredentialsChange \/ UNCHANGED ssVars
  <2>1. UNCHANGED <<ses, settings, route, transport, tele>>
    BY <1>2 DEF OmegonChanges, CredentialsChange, ssVars
  <2> QED  BY <2>1 DEF StatusInv, TelemetryIsFresh
<1>3. CASE IpcSnapshot
  <2>1. GoodSession(SnapshotApplied(ses, Runtime, Harness))
    BY <1>1, HarnessIsRowed, SnapshotApplies
  <2>2. Rebuilt(SnapshotApplied(ses, Runtime, Harness), settings, route, "Authoritative")
    BY <1>3 DEF IpcSnapshot
  <2> QED  BY <1>1, <2>1, <2>2, RebuiltIsFresh
<1>4. CASE WsSnapshot
  <2>1. PICK harness \in {None, Harness}, told \in {None, Runtime} :
          Rebuilt(SnapshotApplied(ses, told, harness), settings, route, transport)
    BY <1>4 DEF WsSnapshot
  <2>2. GoodSession(SnapshotApplied(ses, told, harness))
    BY <1>1, <2>1, HarnessIsRowed, SnapshotApplies
  <2> QED  BY <1>1, <2>1, <2>2, RebuiltIsFresh
<1>5. CASE HarnessChanged
  <2>1. GoodSession(HarnessApplied(ses, Harness))
    BY <1>1, HarnessIsRowed, HarnessApplies
  <2>2. Rebuilt(HarnessApplied(ses, Harness), settings, route, transport)
    BY <1>5 DEF HarnessChanged
  <2> QED  BY <1>1, <2>1, <2>2, RebuiltIsFresh
<1>6. CASE RefreshSettings
  BY <1>6, AuthReadApplies DEF RefreshSettings
<1>7. ASSUME NEW p \in AllNames, AuthAction(p) \/ HostLogin(p)  PROVE StatusInv'
  <2>1. \E stored : AuthRead(stored) \/ AuthFails
    BY <1>7 DEF AuthAction, HostLogin
  <2> QED  BY <2>1, AuthReadApplies
<1>8. CASE Submit
  <2>1. ses' = [ses EXCEPT !.pending = TRUE] /\ UNCHANGED <<settings, route, transport, tele>>
    BY <1>8 DEF Submit
  <2>2. /\ ses' = [k \in SesFields |-> ses'[k]] /\ ses'.latest = ses.latest
        /\ ses'.shell = ses.shell /\ ses'.harness = ses.harness /\ ses'.runtime = ses.runtime
    BY <1>1, <2>1 DEF GoodSession, SesFields
  <2>3. GoodSession(ses')
    BY <1>1, <2>2, TurnApplies
  <2> QED  BY <1>1, <2>1, <2>2, <2>3, StaysFresh
<1>9. ASSUME NEW n, Rebuilt(n, settings, route, transport), n = [k \in SesFields |-> n[k]],
             n.shell = ses.shell, n.harness = ses.harness, n.runtime = ses.runtime
      PROVE  StatusInv'
  <2>1. GoodSession(n)
    BY <1>1, <1>9, TurnApplies
  <2> QED  BY <1>1, <1>9, <2>1, RebuiltIsFresh
<1>10. CASE IngressFails
  <2>1. PICK n : n = [ses EXCEPT !.pending = FALSE]
    OBVIOUS
  <2>2. Rebuilt(n, settings, route, transport)
    BY <1>10, <2>1 DEF IngressFails
  <2>3. /\ n = [k \in SesFields |-> n[k]]
        /\ n.shell = ses.shell /\ n.harness = ses.harness /\ n.runtime = ses.runtime
    BY <1>1, <2>1 DEF GoodSession, SesFields
  <2> QED  BY <1>9, <2>2, <2>3
<1>11. CASE TurnStarts
  <2>1. PICK n : n = [ses EXCEPT !.busy = TRUE, !.pending = FALSE]
    OBVIOUS
  <2>2. Rebuilt(n, settings, route, transport)
    BY <1>11, <2>1 DEF TurnStarts
  <2>3. /\ n = [k \in SesFields |-> n[k]]
        /\ n.shell = ses.shell /\ n.harness = ses.harness /\ n.runtime = ses.runtime
    BY <1>1, <2>1 DEF GoodSession, SesFields
  <2> QED  BY <1>9, <2>2, <2>3
<1>12. ASSUME NEW latest \in BOOLEAN, TurnEnds(latest)  PROVE StatusInv'
  <2>1. PICK n : n = [ses EXCEPT !.busy = FALSE, !.latest = latest]
    OBVIOUS
  <2>2. Rebuilt(n, settings, route, transport)
    BY <1>12, <2>1 DEF TurnEnds
  <2>3. /\ n = [k \in SesFields |-> n[k]]
        /\ n.shell = ses.shell /\ n.harness = ses.harness /\ n.runtime = ses.runtime
    BY <1>1, <2>1 DEF GoodSession, SesFields
  <2> QED  BY <1>9, <2>2, <2>3
<1>13. ASSUME NEW r \in Routes, SelectRoute(r)  PROVE StatusInv'
  BY <1>1, <1>13, RebuiltIsFresh DEF SelectRoute
<1>14. ASSUME NEW t \in Reports, TransportReport(t)  PROVE StatusInv'
  BY <1>1, <1>14, RebuiltIsFresh DEF TransportReport
<1> QED
  BY <1>2, <1>3, <1>4, <1>5, <1>6, <1>7, <1>8, <1>10, <1>11, <1>12, <1>13, <1>14 DEF SsNext

\* A composer that refuses says why, when the rows it looks at are rows.
LEMMA RefusalHasItsReason == GoodSession(ses) => RefusalIsExplained
<1> SUFFICES ASSUME GoodSession(ses), ~can_submit(ses), ~ses.busy, ~ses.pending
             PROVE  build_provider_blocked_composer_model # "none"
  BY DEF RefusalIsExplained
<1>1. ~harness_can_execute_prompts(ses.harness, ses.runtime)
  BY DEF can_submit, GoodSession
<1>2. PICK rows : rows = SessionRows(ses) /\ Rowed(rows) /\ ~Authenticated(rows)
  <2>1. CASE ses.harness = None
    <3>1. SessionRows(ses) = <<>>
      BY <2>1 DEF SessionRows
    <3>2. ~Authenticated(<<>>)
      BY DEF Authenticated
    <3> QED  BY <3>1, <3>2, NoRowsAreRowed
  <2>2. CASE ses.harness # None
    BY <1>1, <2>2 DEF GoodSession, SessionRows, harness_can_execute_prompts
  <2> QED  BY <2>1, <2>2
<1>3. SameProviders(rows, ShownRows)
  BY <1>2, WithModelsKeepsRows DEF ShownRows
<1>4. DOMAIN ShownRows = DOMAIN rows /\ \A i \in DOMAIN rows : ShownRows[i].auth = rows[i].auth
  BY <1>2, <1>3 DEF SameProviders, Rowed
<1>5. ~Authenticated(ShownRows)
  BY <1>2, <1>4 DEF Authenticated
<1> QED
  BY <1>5 DEF build_provider_blocked_composer_model

\* The panel's copy of the merge, as it runs.
LEMMA PanelRuns ==
    ASSUME NEW rows, Rowed(rows), rows = ShownRows, Rowed(settings.rows)
    PROVE  \E f \in [0..Len(settings.rows) -> Seq(ProviderRows)] :
              /\ f[0] = rows /\ f[Len(settings.rows)] = merged_provider_inventory
              /\ \A k \in 1..Len(settings.rows) :
                    f[k] = IF Matching(f[k - 1], settings.rows[k].name) = {}
                           THEN Append(f[k - 1], settings.rows[k]) ELSE f[k - 1]
<1>1. PICK st, T : st = settings.rows /\ T = Seq(ProviderRows)
  OBVIOUS
<1> DEFINE Body(f, k) == IF k = 0 THEN rows
                         ELSE IF Matching(f[k - 1], st[k].name) = {}
                              THEN Append(f[k - 1], st[k]) ELSE f[k - 1]
           Is(f) == f = [k \in 0..Len(st) |-> Body(f, k)]
           F == CHOOSE f : Is(f)
<1>2. Len(st) \in Nat /\ (\A k \in 1..Len(st) : st[k] \in ProviderRows) /\ rows \in T
  BY <1>1 DEF Rowed
<1>3. PICK f \in [0..Len(st) -> T] :
        f[0] = rows /\ \A k \in 1..Len(st) : f[k] = IF Matching(f[k - 1], st[k].name) = {}
                                                   THEN Append(f[k - 1], st[k]) ELSE f[k - 1]
  <2>1. PICK G : G = [k \in 1..Len(st) |->
                        [t \in T |-> IF Matching(t, st[k].name) = {} THEN Append(t, st[k]) ELSE t]]
    OBVIOUS
  <2>2. G \in [1..Len(st) -> [T -> T]]
    <3>1. \A k \in 1..Len(st), t \in T :
             (IF Matching(t, st[k].name) = {} THEN Append(t, st[k]) ELSE t) \in T
      BY <1>1, <1>2
    <3> QED  BY <2>1, <3>1
  <2>3. PICK N : N = Len(st)
    OBVIOUS
  <2>4. N \in Nat /\ rows \in T /\ G \in [1..N -> [T -> T]]
    BY <1>2, <2>2, <2>3
  <2>5. PICK f \in [0..N -> T] : f[0] = rows /\ \A k \in 1..N : f[k] = G[k][f[k - 1]]
    <3>1. PICK x : x = rows
      OBVIOUS
    <3>2. N \in Nat /\ x \in T /\ G \in [1..N -> [T -> T]]
      BY <2>4, <3>1
    <3>3. PICK f : Iterates(f, T, x, N, G)
      BY <3>2, Recursion
    <3> QED  BY <3>1, <3>3 DEF Iterates
  <2>6. ASSUME NEW k \in 1..N
        PROVE  f[k] = IF Matching(f[k - 1], st[k].name) = {} THEN Append(f[k - 1], st[k]) ELSE f[k - 1]
    <3>1. f[k - 1] \in T /\ f[k] = G[k][f[k - 1]]
      BY <2>4, <2>5
    <3> QED  BY <2>1, <2>3, <3>1
  <2> QED  BY <2>3, <2>5, <2>6
<1>4. Is(f)
  <2>1. ASSUME NEW k \in 0..Len(st) PROVE f[k] = Body(f, k)
    <3>1. k = 0 \/ k \in 1..Len(st)
      BY <1>2
    <3> QED  BY <1>3, <3>1
  <2>2. f = [k \in 0..Len(st) |-> f[k]]
    BY <1>3
  <2> QED  BY <2>1, <2>2
<1>5. Is(F)
  BY <1>4
<1>6. merged_provider_inventory = F[Len(st)]
  BY <1>1 DEF merged_provider_inventory
<1>7. \A k \in 0..Len(st) : F[k] = Body(F, k)
  BY <1>5
<1>8. F = [k \in 0..Len(st) |-> F[k]]
  BY <1>5
<1> HIDE DEF F
<1>9. F[0] = rows
  BY <1>2, <1>7
<1>10. ASSUME NEW k \in 1..Len(st)
       PROVE  F[k] = IF Matching(F[k - 1], st[k].name) = {} THEN Append(F[k - 1], st[k]) ELSE F[k - 1]
  <2>1. k \in 0..Len(st) /\ k # 0
    BY <1>2
  <2> QED  BY <1>7, <2>1
<1> DEFINE P == {k \in Nat : k <= Len(st) => F[k] \in T}
<1>11. 0 \in P
  BY <1>2, <1>9
<1>12. ASSUME NEW k \in Nat, k \in P PROVE k + 1 \in P
  <2> SUFFICES ASSUME k + 1 <= Len(st) PROVE F[k + 1] \in T
    OBVIOUS
  <2>1. PICK t : t = F[k] /\ t \in T
    BY <1>2, <1>12
  <2>2. k + 1 \in 1..Len(st) /\ (k + 1) - 1 = k
    BY <1>2
  <2>3. F[k + 1] = IF Matching(t, st[k + 1].name) = {} THEN Append(t, st[k + 1]) ELSE t
    BY <1>10, <2>1, <2>2
  <2> QED  BY <1>1, <1>2, <2>1, <2>2, <2>3
<1> HIDE DEF P
<1>13. Nat \subseteq P
  BY <1>11, <1>12, SetInduction
<1>14. \A k \in 0..Len(st) : F[k] \in T
  BY <1>2, <1>13 DEF P
<1>15. F \in [0..Len(st) -> T]
  BY <1>8, <1>14
<1> QED
  BY <1>1, <1>6, <1>9, <1>10, <1>15

LEMMA Concatenation ==
    ASSUME NEW S, NEW w \in Seq(S), NEW t \in Seq(S), NEW c, c = w \o t
    PROVE  /\ DOMAIN c = 1..(Len(w) + Len(t))
           /\ \A i \in 1..Len(w) : c[i] = w[i]
           /\ \A m \in 1..Len(t) : c[Len(w) + m] = t[m]
  OBVIOUS

\* The places of the settings' rows that the merge adds to the session's.
Added(rows, stored) ==
    {i \in DOMAIN stored : Matching(rows, stored[i].name) = {} /\ i = First(Matching(stored, stored[i].name))}

\* A row is added when no row of its key is there yet: among the session's rows, and the
\* settings' rows added before it.
LEMMA AddedWhenNew ==
    ASSUME NEW rows, Rowed(rows), NEW stored, Rowed(stored), NEW k \in Nat, k + 1 <= Len(stored),
           NEW w, SameProviders(rows, w), NEW t \in Seq(ProviderRows),
           Selected(t, stored, k, Added(rows, stored))
    PROVE  Matching(w \o t, stored[k + 1].name) = {} <=> k + 1 \in Added(rows, stored)
<1>1. PICK p : /\ Takes(p, Len(t), k, Added(rows, stored))
               /\ \A m \in 1..Len(t) : t[m] = stored[p[m]]
  BY DEF Selected
<1>2. /\ Len(t) \in Nat /\ Len(w) \in Nat /\ w \in Seq(ProviderRows) /\ Len(w) = Len(rows)
      /\ DOMAIN rows = 1..Len(rows) /\ DOMAIN stored = 1..Len(stored) /\ Len(stored) \in Nat
  BY DEF SameProviders, Rowed
<1>3. PICK n, key : n = stored[k + 1].name /\ key = KeyOf[n]
  OBVIOUS
<1>5. PICK c : c = w \o t
  OBVIOUS
<1>4. /\ DOMAIN c = 1..(Len(w) + Len(t))
      /\ \A i \in 1..Len(w) : c[i] = w[i]
      /\ \A m \in 1..Len(t) : c[Len(w) + m] = t[m]
  <2>1. PICK S : S = ProviderRows
    OBVIOUS
  <2>2. w \in Seq(S) /\ t \in Seq(S)
    BY <1>2, <2>1
  <2> QED  BY <1>5, <2>2, Concatenation
<1>6. ASSUME k + 1 \in Added(rows, stored), NEW i \in Matching(c, n) PROVE FALSE
  <2>1. i \in 1..(Len(w) + Len(t)) /\ KeyOf[c[i].name] = key
    BY <1>3, <1>4, <1>5, <1>6 DEF Matching
  <2>2. CASE i \in 1..Len(w)
    <3>1. c[i].name = rows[i].name /\ i \in DOMAIN rows
      BY <1>2, <1>4, <1>5, <2>2 DEF SameProviders
    <3>2. i \in Matching(rows, n)
      BY <1>3, <2>1, <3>1 DEF Matching
    <3> QED  BY <1>3, <1>6, <3>2 DEF Added
  <2>3. CASE i \notin 1..Len(w)
    <3>1. PICK m \in 1..Len(t) : i = Len(w) + m
      <4>1. PICK a, b : a = Len(w) /\ b = Len(t) /\ a \in Nat /\ b \in Nat
        BY <1>2
      <4>2. i \in 1..(a + b) /\ i \notin 1..a
        BY <2>1, <2>3, <4>1
      <4>3. i - a \in 1..b /\ i = a + (i - a)
        BY <4>1, <4>2
      <4> QED  BY <4>1, <4>3
    <3>a. p[m] \in 1..k
      BY <1>1, <3>1 DEF Takes
    <3>2. c[i] = stored[p[m]] /\ p[m] \in 1..k /\ p[m] \in DOMAIN stored
      BY <1>1, <1>2, <1>4, <3>1, <3>a
    <3>3. p[m] \in Matching(stored, n)
      BY <1>3, <2>1, <3>2 DEF Matching
    <3>4. k + 1 = First(Matching(stored, n)) /\ Matching(stored, n) \subseteq Nat
      BY <1>2, <1>3, <1>6 DEF Added, Matching
    <3>5. k + 1 <= p[m]
      BY <3>3, <3>4, FirstIsFirst
    <3> QED  BY <3>2, <3>5
  <2> QED  BY <2>2, <2>3
<1>7. ASSUME k + 1 \notin Added(rows, stored) PROVE Matching(c, n) # {}
  <2>1. CASE Matching(rows, n) # {}
    <3>1. PICK i \in DOMAIN rows : KeyOf[rows[i].name] = key
      BY <1>3, <2>1 DEF Matching
    <3>2. i \in 1..Len(w) /\ c[i].name = rows[i].name
      BY <1>2, <1>4, <1>5, <3>1 DEF SameProviders
    <3>3. i \in Matching(c, n)
      BY <1>2, <1>3, <1>4, <1>5, <3>1, <3>2 DEF Matching
    <3> QED  BY <3>3
  <2>2. CASE Matching(rows, n) = {}
    <3>1. PICK j : j = First(Matching(stored, n))
      OBVIOUS
    <3>2. Matching(stored, n) \subseteq Nat /\ k + 1 \in Matching(stored, n) /\ k + 1 \in DOMAIN stored
      BY <1>2, <1>3 DEF Matching
    <3>3. j \in Matching(stored, n) /\ j <= k + 1
      BY <3>1, <3>2, FirstIsFirst
    <3>4. j # k + 1
      BY <1>3, <1>7, <2>2, <3>1, <3>2 DEF Added
    <3>5. j \in DOMAIN stored /\ KeyOf[stored[j].name] = key
      BY <1>3, <3>3 DEF Matching
    <3>6. Matching(stored, stored[j].name) = Matching(stored, n) /\ Matching(rows, stored[j].name) = {}
      BY <1>3, <2>2, <3>5 DEF Matching
    <3>7. j \in Added(rows, stored) /\ j \in 1..k
      BY <1>2, <3>1, <3>3, <3>4, <3>5, <3>6 DEF Added
    <3>8. PICK m \in 1..Len(t) : p[m] = j
      BY <1>1, <3>7 DEF Takes
    <3>9. c[Len(w) + m] = stored[j] /\ Len(w) + m \in 1..(Len(w) + Len(t))
      BY <1>1, <1>2, <1>4, <1>5, <3>8
    <3>10. Len(w) + m \in Matching(c, n)
      BY <1>3, <1>4, <1>5, <3>5, <3>9 DEF Matching
    <3> QED  BY <3>10
  <2> QED  BY <2>1, <2>2
<1> QED
  BY <1>3, <1>5, <1>6, <1>7

\* An element more at the end, before or after the concatenation.
AtTheEnd(S, w, t, e, x, y) ==
    /\ w \in Seq(S) /\ t \in Seq(S) /\ e \in S /\ x = w \o t /\ y = Append(t, e)
    => Append(x, e) = w \o y

LEMMA AppendToEnd == \A S, w, t, e, x, y : AtTheEnd(S, w, t, e, x, y)
<1> SUFFICES ASSUME NEW S, NEW w, NEW t, NEW e, NEW x, NEW y,
                    w \in Seq(S) /\ t \in Seq(S) /\ e \in S /\ x = w \o t /\ y = Append(t, e)
             PROVE  Append(x, e) = w \o y
  BY Zenon DEF AtTheEnd
<1>0. Len(w) \in Nat /\ Len(t) \in Nat
  OBVIOUS
<1>1. PICK a, b : a = Len(w) /\ b = Len(t) /\ a \in Nat /\ b \in Nat
  BY <1>0
<1>2. /\ x \in Seq(S) /\ Len(x) = a + b
      /\ (\A i \in 1..a : x[i] = w[i]) /\ \A i \in 1..b : x[a + i] = t[i]
  <2>1. x \in Seq(S) /\ Len(x) = Len(w) + Len(t)
    OBVIOUS
  <2>2. \A i \in 1..Len(w) : x[i] = w[i]
    OBVIOUS
  <2>3. \A i \in 1..Len(t) : x[Len(w) + i] = t[i]
    OBVIOUS
  <2> QED  BY <1>1, <2>1, <2>2, <2>3
<1>3. y \in Seq(S) /\ Len(y) = b + 1 /\ y[b + 1] = e /\ \A i \in 1..b : y[i] = t[i]
  BY <1>1
<1>4. PICK l : l = Append(x, e)
  OBVIOUS
<1>5. PICK r : r = w \o y
  OBVIOUS
<1>6. l \in Seq(S) /\ Len(l) = a + b + 1 /\ l[a + b + 1] = e /\ \A i \in 1..(a + b) : l[i] = x[i]
  BY <1>1, <1>2, <1>4
<1>7. /\ r \in Seq(S) /\ Len(r) = a + b + 1
      /\ (\A i \in 1..a : r[i] = w[i]) /\ \A i \in 1..(b + 1) : r[a + i] = y[i]
  BY <1>1, <1>3, <1>5
<1>8. ASSUME NEW i \in 1..(a + b + 1) PROVE l[i] = r[i]
  <2>1. CASE i \in 1..a
    <3>1. i \in 1..(a + b)
      BY <1>1, <2>1
    <3> QED  BY <1>2, <1>6, <1>7, <2>1, <3>1
  <2>2. CASE i \in (a + 1)..(a + b)
    <3>1. PICK j \in 1..b : i = a + j
      <4>1. i - a \in 1..b /\ i = a + (i - a)
        BY <1>1, <2>2
      <4> QED  BY <4>1
    <3>2. i \in 1..(a + b) /\ j \in 1..(b + 1) /\ j \in 1..b
      BY <1>1, <2>2, <3>1
    <3>3. l[i] = t[j]
      BY <1>2, <1>6, <3>1, <3>2
    <3>4. r[i] = t[j]
      BY <1>3, <1>7, <3>1, <3>2
    <3> QED  BY <3>3, <3>4
  <2>3. CASE i = a + b + 1
    <3>1. b + 1 \in 1..(b + 1) /\ i = a + (b + 1)
      BY <1>1, <2>3
    <3>2. r[i] = e
      BY <1>3, <1>7, <3>1
    <3> QED  BY <1>6, <2>3, <3>2
  <2>4. a \in Nat /\ b \in Nat /\ i \in 1..(a + b + 1)
    BY <1>1, <1>8
  <2>5. i \in 1..a \/ i \in (a + 1)..(a + b) \/ i = a + b + 1
    BY <2>4
  <2> QED  BY <2>1, <2>2, <2>3, <2>5
<1>9. l = r
  <2>0. a + b + 1 \in Nat
    BY <1>1
  <2>1. PICK n : n = a + b + 1 /\ n \in Nat
    BY <2>0
  <2>2. l = [i \in 1..n |-> l[i]]
    BY <1>6, <2>1
  <2>3. r = [i \in 1..n |-> r[i]]
    BY <1>7, <2>1
  <2> QED  BY <1>8, <2>1, <2>2, <2>3
<1> QED  BY <1>4, <1>5, <1>9

\* The two merges end with the same rows.
LEMMA MergesAgree ==
    ASSUME NEW rows, Rowed(rows), rows = SessionRows(ses), NEW stored, Rowed(stored),
           stored = settings.rows
    PROVE  merged_provider_inventory = merge_provider_inventory(rows, stored)
<1>1. PICK w : w = WithModels(rows, stored) /\ w = ShownRows /\ SameProviders(rows, w) /\ Rowed(w)
  BY WithModelsKeepsRows DEF ShownRows, SameProviders
<1>2. PICK J : J = Added(rows, stored)
  OBVIOUS
<1>3. stored \in Seq(ProviderRows) /\ w \in Seq(ProviderRows) /\ Len(stored) \in Nat
  BY <1>1 DEF Rowed
<1>4. PICK g \in [0..Len(stored) -> Seq(ProviderRows)] :
        /\ g[0] = <<>> /\ g[Len(stored)] = SelectAt(stored, J)
        /\ \A n \in 1..Len(stored) : g[n] = IF n \in J THEN Append(g[n - 1], stored[n]) ELSE g[n - 1]
        /\ \A n \in 0..Len(stored) : Selected(g[n], stored, n, J)
  <2>1. PICK S : S = ProviderRows
    OBVIOUS
  <2>2. stored \in Seq(S)
    BY <1>3, <2>1
  <2>3. PICK g : Selects(g, S, stored, J)
    BY <2>2, SelectAtRuns
  <2> QED  BY <2>1, <2>3 DEF Selects
<1>5. PICK f \in [0..Len(stored) -> Seq(ProviderRows)] :
        /\ f[0] = w /\ f[Len(stored)] = merged_provider_inventory
        /\ \A k \in 1..Len(stored) : f[k] = IF Matching(f[k - 1], stored[k].name) = {}
                                            THEN Append(f[k - 1], stored[k]) ELSE f[k - 1]
  <2>1. Rowed(w) /\ w = ShownRows /\ Rowed(settings.rows)
    BY <1>1
  <2>2. \E f \in [0..Len(settings.rows) -> Seq(ProviderRows)] :
              /\ f[0] = w /\ f[Len(settings.rows)] = merged_provider_inventory
              /\ \A k \in 1..Len(settings.rows) :
                    f[k] = IF Matching(f[k - 1], settings.rows[k].name) = {}
                           THEN Append(f[k - 1], settings.rows[k]) ELSE f[k - 1]
    BY <2>1, PanelRuns
  <2> QED  BY <2>2
<1> DEFINE P == {k \in Nat : k <= Len(stored) => f[k] = w \o g[k]}
<1>6. 0 \in P
  <2>1. w \o <<>> = w
    BY <1>3
  <2> QED  BY <1>4, <1>5, <2>1
<1>7. ASSUME NEW k \in Nat, k \in P PROVE k + 1 \in P
  <2> SUFFICES ASSUME k + 1 <= Len(stored) PROVE f[k + 1] = w \o g[k + 1]
    OBVIOUS
  <2>1. PICK t, e : t = g[k] /\ e = stored[k + 1]
    OBVIOUS
  <2>a. k \in 0..Len(stored) /\ k + 1 \in 1..Len(stored) /\ f[k] = w \o g[k]
    BY <1>3, <1>7
  <2>b. t \in Seq(ProviderRows) /\ Selected(t, stored, k, J)
    BY <1>4, <2>1, <2>a
  <2>2. /\ t \in Seq(ProviderRows) /\ Selected(t, stored, k, J) /\ e \in ProviderRows
        /\ f[k] = w \o t
    BY <1>3, <2>1, <2>a, <2>b
  <2>3. Matching(w \o t, e.name) = {} <=> k + 1 \in J
    BY <1>1, <1>2, <2>1, <2>2, AddedWhenNew
  <2>4. k + 1 \in 1..Len(stored) /\ (k + 1) - 1 = k
    BY <1>3
  <2>5. f[k + 1] = IF Matching(w \o t, e.name) = {} THEN Append(w \o t, e) ELSE w \o t
    BY <1>5, <2>1, <2>2, <2>4
  <2>6. g[k + 1] = IF k + 1 \in J THEN Append(t, e) ELSE t
    BY <1>4, <2>1, <2>4
  <2>7. PICK x, y : x = w \o t /\ y = Append(t, e)
    OBVIOUS
  <2>8. Append(x, e) = w \o y
    <3>1. AtTheEnd(ProviderRows, w, t, e, x, y)
      BY AppendToEnd, Zenon
    <3> QED  BY <1>3, <2>2, <2>7, <3>1, Zenon DEF AtTheEnd
  <2>9. f[k + 1] = IF k + 1 \in J THEN Append(x, e) ELSE x
    BY <2>3, <2>5, <2>7
  <2>10. g[k + 1] = IF k + 1 \in J THEN y ELSE t
    BY <2>6, <2>7
  <2> QED  BY <2>7, <2>8, <2>9, <2>10
<1> HIDE DEF P
<1>8. Nat \subseteq P
  BY <1>6, <1>7, SetInduction
<1>9. f[Len(stored)] = w \o g[Len(stored)]
  <2>1. PICK n : n = Len(stored) /\ n \in Nat /\ n <= Len(stored)
    BY <1>3
  <2>2. n \in P
    BY <1>8, <2>1
  <2>3. f[n] = w \o g[n]
    BY <2>1, <2>2 DEF P
  <2> QED  BY <2>1, <2>3
<1>10. merge_provider_inventory(rows, stored) = w \o SelectAt(stored, J)
  BY <1>1, <1>2 DEF merge_provider_inventory, Added
<1> QED
  BY <1>4, <1>5, <1>9, <1>10

\* The panel counts what the telemetry counts.
LEMMA PanelCountsTheSame ==
    ASSUME GoodSession(ses), GoodSettings(settings)
    PROVE  Panel = summarize_provider_inventory(effective_provider_inventory(ses, settings))
<1>1. PICK rows : rows = SessionRows(ses) /\ Rowed(rows)
  BY NoRowsAreRowed DEF SessionRows, GoodSession
<1>2. PICK stored : stored = settings.rows /\ Rowed(stored)
  BY DEF GoodSettings
<1>3. merged_provider_inventory = merge_provider_inventory(rows, stored)
  BY <1>1, <1>2, MergesAgree
<1>4. CASE stored # <<>>
  BY <1>1, <1>2, <1>3, <1>4 DEF Panel, summarize_provider_inventory, effective_provider_inventory
<1>5. CASE stored = <<>>
  <2>1. PICK w : w = WithModels(rows, stored) /\ SameProviders(rows, w)
    BY <1>1, WithModelsKeepsRows
  <2>2. PICK J : J = {i \in DOMAIN stored : /\ Matching(rows, stored[i].name) = {}
                                            /\ i = First(Matching(stored, stored[i].name))}
    OBVIOUS
  <2>3. SelectAt(stored, J) = <<>>
    <3>1. PICK S : S = ProviderRows /\ stored \in Seq(S)
      BY <1>2 DEF Rowed
    <3>2. stored \in Seq(S)
      BY <3>1
    <3>3. PICK g : Selects(g, S, stored, J)
      BY <3>2, SelectAtRuns
    <3>4. Len(stored) = 0
      BY <1>5
    <3> QED  BY <3>3, <3>4 DEF Selects
  <2>4. merged_provider_inventory = w
    <3>1. merged_provider_inventory = w \o <<>>
      BY <1>3, <2>1, <2>2, <2>3 DEF merge_provider_inventory
    <3>2. w \in Seq(ProviderRows)
      BY <2>1 DEF SameProviders, Rowed
    <3> QED  BY <3>1, <3>2
  <2>5. DOMAIN rows = 1..Len(rows)
    BY <1>1 DEF Rowed
  <2>6. {i \in DOMAIN w : w[i].auth} = {i \in DOMAIN rows : rows[i].auth} /\ Len(w) = Len(rows)
    BY <2>1, <2>5 DEF SameProviders
  <2>7. effective_provider_inventory(ses, settings) = rows
    BY <1>1, <1>2, <1>5 DEF effective_provider_inventory
  <2> QED  BY <2>4, <2>6, <2>7 DEF Panel, summarize_provider_inventory
<1> QED
  BY <1>4, <1>5

\* For any providers, routes and changes the screens of a session agree: a shell that says Ready
\* takes a prompt, a composer that refuses says why, and the header counts what the settings
\* panel counts, with the transport and the route of now, whichever of the handlers came last and
\* whatever each side lists (remote_session.rs apply_session_event, refresh_provider_auth;
\* controller.rs refresh_telemetry_snapshot, merge_provider_inventory; app.rs
\* merged_provider_inventory, build_provider_blocked_composer_model).
THEOREM StatusHolds == SsSpec => []StatusIsConsistent
<1>1. StatusInv => ReadyMeansPromptable
  BY DEF StatusInv, GoodSession, ReadyMeansPromptable, can_submit
<1>2. StatusInv => RefusalIsExplained
  BY RefusalHasItsReason DEF StatusInv
<1>3. StatusInv => ScreensAgree
  <2> SUFFICES ASSUME StatusInv PROVE ScreensAgree
    OBVIOUS
  <2>1. tele.transport = transport /\ tele.quota \subseteq {route}
    BY DEF StatusInv, TelemetryIsFresh, refresh_telemetry_snapshot, aggregate_provider_rollups
  <2>2. tele.providers = summarize_provider_inventory(effective_provider_inventory(ses, settings))
    BY DEF StatusInv, TelemetryIsFresh, refresh_telemetry_snapshot
  <2>3. tele.providers = Panel
    BY <2>2, PanelCountsTheSame DEF StatusInv
  <2> QED  BY <2>1, <2>3 DEF ScreensAgree
<1>4. StatusInv => StatusIsConsistent
  BY <1>1, <1>2, <1>3 DEF StatusIsConsistent
<1> QED
  BY <1>4, StatusInitially, StatusStep, PTL DEF SsSpec

----------------------------------------------------------------------------
(***************************************************************************)
(* The workflow builder.                                                   *)
(*                                                                         *)
(* The signal's plan is always the one compiled from the signal's flow,    *)
(* and "saved" is said by the one step that writes file and signal         *)
(* together.  What is left is what a plan compiled from a valid flow looks *)
(* like, whichever flow it is: along the trail every node is new and       *)
(* joined to the one before, and only its beginning can be no step.        *)
(***************************************************************************)

\* What the builder's trail is made of: each node once, joined to the one before, and none
\* but the first an output.
GoodTrail(f, t, start) ==
    /\ t \in Seq(Nat) /\ Len(t) >= 1 /\ t[1] = start
    /\ \A i \in 1..Len(t) : t[i] \in NodeIds(f)
    /\ \A i, j \in 1..Len(t) : t[i] = t[j] => i = j
    /\ \A i \in 2..Len(t) : HasEdge(f, t[i - 1], t[i]) /\ role_for(NodeOf(f, t[i])) # "Output"

LEMMA FlowFields ==
    ASSUME NEW f \in Flows
    PROVE  /\ f.edges \in Seq(Nat \X Nat) /\ NodeIds(f) \subseteq Nat /\ Cardinality(f.nodes) \in Nat
           /\ f.nodes \subseteq [id : Nat, kind : NodeKinds] /\ IsFiniteSet(f.nodes)
           /\ DOMAIN f.edges = 1..Len(f.edges) /\ Len(f.edges) \in Nat
           /\ \A i \in DOMAIN f.edges : f.edges[i] \in Nat \X Nat
<1>1. /\ f.edges \in Seq(Nat \X Nat) /\ f.nodes \subseteq [id : Nat, kind : NodeKinds]
      /\ IsFiniteSet(f.nodes)
  BY DEF Flows
<1>2. Cardinality(f.nodes) \in Nat
  BY <1>1, FS_CardinalityType
<1>3. NodeIds(f) \subseteq Nat
  BY <1>1 DEF NodeIds
<1> QED  BY <1>1, <1>2, <1>3

\* Where the trail goes on, it goes along an edge.
LEMMA FirstEdge ==
    ASSUME NEW f \in Flows, NEW t, OnwardEdges(f, t) # {}
    PROVE  LET e == First(OnwardEdges(f, t))
           IN  /\ e \in DOMAIN f.edges /\ f.edges[e][1] = t[Len(t)] /\ f.edges[e][2] \in Nat
               /\ f.edges[e] = <<t[Len(t)], f.edges[e][2]>>
<1>1. PICK on : on = OnwardEdges(f, t)
  OBVIOUS
<1>2. on \subseteq Nat /\ on \subseteq DOMAIN f.edges
  BY <1>1, FlowFields DEF OnwardEdges
<1>3. PICK e : e = First(on) /\ e \in on
  BY <1>1, <1>2, FirstIsFirst
<1>4. e \in DOMAIN f.edges /\ f.edges[e][1] = t[Len(t)]
  BY <1>1, <1>3 DEF OnwardEdges
<1>5. f.edges[e] \in Nat \X Nat
  BY <1>4, FlowFields
<1>6. PICK a, b : f.edges[e] = <<a, b>> /\ a \in Nat /\ b \in Nat
  BY <1>5
<1> QED  BY <1>1, <1>3, <1>4, <1>6

LEMMA OnwardIsGood ==
    ASSUME NEW f \in Flows, NEW t, NEW start, GoodTrail(f, t, start)
    PROVE  GoodTrail(f, Onward(f, t), start)
<1>1. PICK on, e, id : on = OnwardEdges(f, t) /\ e = First(on) /\ id = f.edges[e][2]
  OBVIOUS
<1>2. Onward(f, t) = IF on # {} /\ Follows(f, t, id) THEN Append(t, id) ELSE t
  BY <1>1 DEF Onward
<1>3. CASE ~(on # {} /\ Follows(f, t, id))
  BY <1>2, <1>3
<1>4. CASE on # {} /\ Follows(f, t, id)
  <2>1. PICK n \in Nat : n = Len(t) /\ n >= 1
    BY DEF GoodTrail
  <2>2. e \in DOMAIN f.edges /\ id \in Nat /\ f.edges[e] = <<t[n], id>>
    BY <1>1, <1>4, <2>1, FirstEdge
  <2>3. id \in NodeIds(f) /\ (\A i \in 1..n : t[i] # id) /\ role_for(NodeOf(f, id)) # "Output"
    <3>1. id \in NodeIds(f) /\ id \notin Range(t) /\ role_for(NodeOf(f, id)) # "Output"
      BY <1>4, Zenon DEF Follows
    <3>2. DOMAIN t = 1..n
      BY <2>1 DEF GoodTrail
    <3>3. \A i \in 1..n : t[i] \in Range(t)
      BY <3>2 DEF Range
    <3> QED  BY <3>1, <3>3
  <2>4. PICK u : u = Append(t, id)
    OBVIOUS
  <2>5. u \in Seq(Nat) /\ Len(u) = n + 1 /\ u[n + 1] = id /\ \A i \in 1..n : u[i] = t[i]
    BY <2>1, <2>2, <2>4 DEF GoodTrail
  <2>6. u[1] = start /\ Len(u) >= 1
    BY <2>1, <2>5 DEF GoodTrail
  <2>7. \A i \in 1..n : t[i] \in NodeIds(f)
    BY <2>1 DEF GoodTrail
  <2>8. \A i \in 1..(n + 1) : u[i] \in NodeIds(f)
    <3>1. \A i \in 1..(n + 1) : i \in 1..n \/ i = n + 1
      BY <2>1
    <3> QED  BY <2>3, <2>5, <2>7, <3>1
  <2>9. ASSUME NEW i \in 1..(n + 1), NEW j \in 1..(n + 1), u[i] = u[j] PROVE i = j
    <3>1. (i \in 1..n \/ i = n + 1) /\ (j \in 1..n \/ j = n + 1)
      BY <2>1
    <3>2. CASE i \in 1..n /\ j \in 1..n
      BY <2>1, <2>5, <2>9, <3>2 DEF GoodTrail
    <3>3. CASE i \in 1..n /\ j = n + 1
      BY <2>3, <2>5, <2>9, <3>3
    <3>4. CASE i = n + 1 /\ j \in 1..n
      BY <2>3, <2>5, <2>9, <3>4
    <3> QED  BY <3>1, <3>2, <3>3, <3>4
  <2>10. ASSUME NEW i \in 2..(n + 1)
         PROVE  HasEdge(f, u[i - 1], u[i]) /\ role_for(NodeOf(f, u[i])) # "Output"
    <3>1. CASE i = n + 1
      <4>1. u[i - 1] = t[n] /\ u[i] = id
        BY <2>1, <2>5, <3>1
      <4>2. HasEdge(f, t[n], id)
        BY <2>2 DEF HasEdge
      <4> QED  BY <2>3, <4>1, <4>2
    <3>2. CASE i # n + 1
      <4>1. i \in 2..n /\ i \in 1..n /\ i - 1 \in 1..n
        BY <2>1, <3>2
      <4>2. u[i] = t[i] /\ u[i - 1] = t[i - 1]
        BY <2>5, <4>1
      <4>3. HasEdge(f, t[i - 1], t[i]) /\ role_for(NodeOf(f, t[i])) # "Output"
        BY <2>1, <4>1 DEF GoodTrail
      <4> QED  BY <4>2, <4>3
    <3> QED  BY <3>1, <3>2
  <2>11. GoodTrail(f, u, start)
    BY <2>5, <2>6, <2>8, <2>9, <2>10 DEF GoodTrail
  <2> QED  BY <1>2, <1>4, <2>4, <2>11
<1> QED  BY <1>3, <1>4

\* However far the trail goes, it is a good one.
LEMMA TrailIsGood ==
    ASSUME NEW f \in Flows, NEW start \in NodeIds(f)
    PROVE  GoodTrail(f, Trail(f, start), start)
<1>1. PICK N \in Nat : N = Cardinality(f.nodes)
  BY FlowFields
<1> DEFINE Body(w, k) == IF k = 0 THEN <<start>> ELSE Onward(f, w[k - 1])
           Is(w) == w = [k \in 0..N |-> Body(w, k)]
           W == CHOOSE w : Is(w)
<1>2. start \in Nat
  BY FlowFields
<1>3. PICK T : T = {t \in Seq(Nat) : GoodTrail(f, t, start)}
  OBVIOUS
<1>4. PICK x : x = <<start>>
  OBVIOUS
<1>5. x \in T
  <2>1. x \in Seq(Nat) /\ Len(x) = 1 /\ x[1] = start
    BY <1>2, <1>4
  <2>2. GoodTrail(f, x, start)
    BY <2>1 DEF GoodTrail
  <2> QED  BY <1>3, <2>1, <2>2
<1>6. PICK G : G = [k \in 1..N |-> [t \in T |-> Onward(f, t)]]
  OBVIOUS
<1>7. G \in [1..N -> [T -> T]]
  <2>1. ASSUME NEW t \in T PROVE Onward(f, t) \in T
    <3>1. GoodTrail(f, t, start)
      BY <1>3
    <3>2. PICK u : u = Onward(f, t) /\ GoodTrail(f, u, start)
      BY <3>1, OnwardIsGood
    <3> QED  BY <1>3, <3>2 DEF GoodTrail
  <2> QED  BY <1>6, <2>1
<1>8. PICK w : Iterates(w, T, x, N, G)
  BY <1>5, <1>7, Recursion
<1>9. Is(w)
  <2>1. ASSUME NEW k \in 0..N PROVE w[k] = Body(w, k)
    <3>1. CASE k = 0
      BY <1>4, <1>8, <3>1 DEF Iterates
    <3>2. CASE k # 0
      <4>1. k \in 1..N /\ k - 1 \in 0..N
        BY <1>1, <3>2
      <4>2. w[k - 1] \in T /\ w[k] = G[k][w[k - 1]]
        BY <1>8, <4>1 DEF Iterates
      <4>3. G[k][w[k - 1]] = Onward(f, w[k - 1])
        BY <1>6, <4>1, <4>2
      <4> QED  BY <3>2, <4>2, <4>3
    <3> QED  BY <3>1, <3>2
  <2>2. w = [k \in 0..N |-> w[k]]
    BY <1>8 DEF Iterates
  <2> QED  BY <2>1, <2>2
<1>10. Is(W)
  BY <1>9
<1>11. Trail(f, start) = W[N]
  BY <1>1 DEF Trail
<1>12. \A k \in 0..N : W[k] = Body(W, k)
  BY <1>10
<1> HIDE DEF W
<1> DEFINE P == {k \in Nat : k <= N => W[k] \in T}
<1>13. 0 \in P
  BY <1>1, <1>4, <1>5, <1>12
<1>14. ASSUME NEW k \in Nat, k \in P PROVE k + 1 \in P
  <2> SUFFICES ASSUME k + 1 <= N PROVE W[k + 1] \in T
    OBVIOUS
  <2>1. PICK t : t = W[k] /\ t \in T
    BY <1>1, <1>14
  <2>2. k + 1 \in 0..N /\ k + 1 # 0 /\ (k + 1) - 1 = k
    BY <1>1
  <2>3. W[k + 1] = Onward(f, t)
    BY <1>12, <2>1, <2>2
  <2>4. GoodTrail(f, t, start)
    BY <1>3, <2>1
  <2>5. PICK u : u = Onward(f, t) /\ GoodTrail(f, u, start)
    BY <2>4, OnwardIsGood
  <2> QED  BY <1>3, <2>3, <2>5 DEF GoodTrail
<1> HIDE DEF P
<1>15. Nat \subseteq P
  BY <1>13, <1>14, SetInduction
<1>16. W[N] \in T
  BY <1>1, <1>15 DEF P
<1> QED  BY <1>3, <1>11, <1>16

\* The steps of a plan, for any flow.
GoodPlan(f, s) ==
    \A i \in DOMAIN s :
       /\ s[i] \in NodeIds(f)
       /\ role_for(NodeOf(f, s[i])) \in {"Executable", "Branch"}
       /\ i > 1 => HasEdge(f, s[i - 1], s[i])
       /\ \A j \in DOMAIN s : s[i] = s[j] => i = j

LEMMA RolesAre == \A n : role_for(n) \in {"Trigger", "Output", "Branch", "Executable", "Unknown"}
  BY DEF role_for

LEMMA NodeOfIsOne ==
    ASSUME NEW f, NEW id \in NodeIds(f)
    PROVE  NodeOf(f, id) \in f.nodes /\ NodeOf(f, id).id = id
  BY DEF NodeIds, NodeOf

LEMMA PlanIsGood ==
    ASSUME NEW f \in Flows
    PROVE  LET p == compile_dispatch_plan(f)
           IN  (p.found => is_valid(f)) /\ GoodPlan(f, p.steps)
<1>1. CASE ~is_valid(f)
  <2>1. compile_dispatch_plan(f).found = FALSE /\ compile_dispatch_plan(f).steps = <<>>
    BY <1>1 DEF compile_dispatch_plan, NoPlan
  <2>2. GoodPlan(f, <<>>)
    BY DEF GoodPlan
  <2> QED  BY <2>1, <2>2
<1>2. CASE is_valid(f)
  <2>1. PICK trigger : Triggers(f) = {trigger} /\ trigger \in f.nodes
    BY <1>2 DEF is_valid
  <2>2. PICK start : start = trigger.id /\ start \in NodeIds(f) /\ start = (CHOOSE t \in Triggers(f) : TRUE).id
    BY <2>1 DEF NodeIds
  <2>3. PICK trail : trail = Trail(f, start) /\ GoodTrail(f, trail, start)
    BY <2>2, TrailIsGood
  <2>4. PICK I : I = StepsOf(f, trail)
    OBVIOUS
  <2>5. PICK s : s = SelectAt(trail, I)
    OBVIOUS
  <2>6. PICK plan : plan = compile_dispatch_plan(f) /\ plan = [found |-> TRUE, steps |-> s]
    BY <1>2, <2>2, <2>3, <2>4, <2>5 DEF compile_dispatch_plan
  <2>7. PICK l \in Nat : l = Len(trail) /\ DOMAIN trail = 1..l
    BY <2>3 DEF GoodTrail
  <2>8. \A i \in 2..l : i \in I
    <3> TAKE i \in 2..l
    <3>1. i \in 1..l /\ 1 \in 1..l /\ i # 1
      BY <2>7
    <3>2. trail[i] \in NodeIds(f) /\ trail[i] # trail[1] /\ trail[1] = start
      BY <2>3, <2>7, <3>1 DEF GoodTrail
    <3>3. PICK n : n = NodeOf(f, trail[i]) /\ n \in f.nodes /\ n.id = trail[i]
      BY <3>2, NodeOfIsOne
    <3>4. role_for(n) # "Output"
      BY <2>3, <2>7, <3>3 DEF GoodTrail
    <3>5. role_for(n) # "Unknown"
      BY <1>2, <3>3 DEF is_valid
    <3>6. role_for(n) # "Trigger"
      <4> SUFFICES ASSUME role_for(n) = "Trigger" PROVE FALSE
        OBVIOUS
      <4>1. n = trigger
        BY <2>1, <3>3 DEF Triggers
      <4> QED  BY <2>2, <3>2, <3>3, <4>1
    <3>7. role_for(n) \in {"Executable", "Branch"}
      BY <3>4, <3>5, <3>6, RolesAre
    <3> QED  BY <2>4, <2>7, <3>1, <3>3, <3>7 DEF StepsOf
  <2>9. s \in Seq(Nat) /\ Selected(s, trail, l, I)
    BY <2>3, <2>5, <2>7, SelectAtTakes DEF GoodTrail
  <2>10. PICK m \in Nat : m = Len(s) /\ DOMAIN s = 1..m
    BY <2>9
  <2>11. PICK p : Takes(p, m, l, I) /\ \A k \in 1..m : s[k] = trail[p[k]]
    BY <2>9, <2>10 DEF Selected
  <2>12. \A k \in 1..m : p[k] \in I /\ p[k] \in 1..l
    BY <2>11 DEF Takes
  <2>13. ASSUME NEW i \in 1..m
         PROVE  s[i] \in NodeIds(f) /\ role_for(NodeOf(f, s[i])) \in {"Executable", "Branch"}
    <3>1. s[i] = trail[p[i]] /\ p[i] \in I /\ p[i] \in 1..l
      BY <2>11, <2>12
    <3>2. trail[p[i]] \in NodeIds(f)
      BY <2>3, <2>7, <3>1 DEF GoodTrail
    <3>3. role_for(NodeOf(f, trail[p[i]])) \in {"Executable", "Branch"}
      BY <2>4, <3>1 DEF StepsOf
    <3> QED  BY <3>1, <3>2, <3>3
  <2>14. ASSUME NEW i \in 1..m, NEW j \in 1..m, s[i] = s[j] PROVE i = j
    <3>1. p[i] = p[j]
      BY <2>3, <2>7, <2>11, <2>12, <2>14 DEF GoodTrail
    <3>2. (i < j => p[i] < p[j]) /\ (j < i => p[j] < p[i])
      BY <2>11 DEF Takes
    <3>3. i \in Nat /\ j \in Nat /\ p[i] \in Nat /\ p[j] \in Nat
      BY <2>12
    <3> QED  BY <3>1, <3>2, <3>3
  <2>15. ASSUME NEW i \in 1..m, i > 1 PROVE HasEdge(f, s[i - 1], s[i])
    <3>1. i - 1 \in 1..m /\ i - 1 < i
      BY <2>10, <2>15
    <3>2. PICK a, b : a = p[i - 1] /\ b = p[i] /\ a \in 1..l /\ b \in 1..l
      BY <2>12, <3>1
    <3>3. a < b
      BY <2>11, <3>1, <3>2 DEF Takes
    <3>4. b = a + 1
      <4> SUFFICES ASSUME b # a + 1 PROVE FALSE
        OBVIOUS
      <4>1. a + 1 \in 2..l /\ a + 1 \in 1..l /\ a + 1 < b /\ a < a + 1
        BY <2>7, <3>2, <3>3
      <4>2. PICK k \in 1..m : p[k] = a + 1
        BY <2>8, <2>11, <4>1 DEF Takes
      <4>3. i - 1 < k
        <5>1. k < i - 1 => p[k] < a
          BY <2>11, <3>1, <3>2 DEF Takes
        <5>2. k = i - 1 => p[k] = a
          BY <3>2
        <5>3. p[k] \in Nat /\ a \in Nat /\ k \in Nat /\ i \in Nat
          BY <3>2, <4>2
        <5> QED  BY <4>2, <5>1, <5>2, <5>3
      <4>4. k < i
        <5>1. i < k => b < p[k]
          BY <2>11, <3>2 DEF Takes
        <5>2. k = i => p[k] = b
          BY <3>2
        <5>3. b \in Nat /\ a \in Nat /\ k \in Nat /\ i \in Nat
          BY <3>2
        <5> QED  BY <4>1, <4>2, <5>1, <5>2, <5>3
      <4>5. k \in Nat /\ i \in Nat
        OBVIOUS
      <4> QED  BY <4>3, <4>4, <4>5
    <3>5. b \in 2..l /\ b - 1 = a
      BY <2>7, <3>2, <3>4
    <3>6. HasEdge(f, trail[b - 1], trail[b])
      BY <2>3, <2>7, <3>5 DEF GoodTrail
    <3>7. s[i - 1] = trail[a] /\ s[i] = trail[b]
      BY <2>11, <3>1, <3>2
    <3> QED  BY <3>5, <3>6, <3>7
  <2>16. GoodPlan(f, s)
    BY <2>10, <2>13, <2>14, <2>15 DEF GoodPlan
  <2>17. plan.found = TRUE /\ plan.steps = s
    BY <2>6
  <2> QED  BY <1>2, <2>6, <2>16, <2>17
<1> QED  BY <1>1, <1>2

\* The inductive invariant: the signal is what its flow builds, "saved" is said of file and
\* signal together, and whatever is on its way to them is a flow.
WorkflowInv ==
    /\ workflow = build_state(workflow.flow, workflow.doc)
    /\ saveState = "saved" => flowFile.doc = workflow.doc /\ flowFile.flow = workflow.flow
    /\ workflow.flow \in Flows /\ editor.flow \in Flows /\ adds \in Nat
    /\ editor = [on |-> editor.on, flow |-> editor.flow, timer |-> editor.timer, deleted |-> editor.deleted]
    /\ saveQueue \in Seq(Flows) /\ bodies \in Seq(Flows)

LEMMA BuildIsBuilt ==
    ASSUME NEW f, NEW doc, NEW w, w = build_state(f, doc)
    PROVE  w = build_state(w.flow, w.doc) /\ w.flow = f /\ w.doc = doc
<1>1. w.flow = f /\ w.doc = doc
  BY DEF build_state
<1> QED  BY <1>1

\* Some of the edges, or nodes more or fewer, make a flow of a flow.
LEMMA EdgesOfFlow ==
    ASSUME NEW f \in Flows, NEW places
    PROVE  WithEdges(f, places) \in Flows
<1>1. PICK e : e = SelectAt(f.edges, places)
  OBVIOUS
<1>2. e \in Seq(Nat \X Nat)
  BY <1>1, FlowFields, SelectAtTakes
<1>3. WithEdges(f, places) = [nodes |-> f.nodes, edges |-> e]
  BY <1>1 DEF WithEdges
<1> QED  BY <1>2, <1>3, FlowFields DEF Flows

LEMMA NodesOfFlow ==
    ASSUME NEW f \in Flows, NEW g, NEW nodes, nodes \subseteq [id : Nat, kind : NodeKinds],
           IsFiniteSet(nodes), g = [nodes |-> nodes, edges |-> f.edges]
    PROVE  g \in Flows
  BY FlowFields DEF Flows

LEMMA FlowShape == \A f \in Flows : f = [nodes |-> f.nodes, edges |-> f.edges]
  BY DEF Flows

LEMMA StarterIsFlow == starter_flow \in Flows
<1>1. PICK nodes : nodes = {Node(1, "webhook_input"), Node(2, "fleet_dispatch"),
                            Node(3, "sentry_submit"), Node(4, "result_output")}
  OBVIOUS
<1>2. PICK edges : edges = <<<<1, 2>>, <<2, 3>>, <<3, 4>>>>
  OBVIOUS
<1>3. nodes \subseteq [id : Nat, kind : NodeKinds]
  <2>1. \A n \in nodes : n \in starter_flow.nodes
    BY <1>1 DEF starter_flow
  <2>2. \A n \in nodes : n.kind \in NodeKinds
    BY <2>1 DEF NodeKinds
  <2>3. \A n \in nodes : n = [id |-> n.id, kind |-> n.kind] /\ n.id \in Nat
    BY <1>1 DEF Node
  <2> QED  BY <2>2, <2>3
<1>4. IsFiniteSet(nodes)
  <2>1. PICK a, b, c, d : nodes = {a, b, c, d}
    BY <1>1
  <2>2. nodes = (({a} \cup {b}) \cup {c}) \cup {d}
    BY <2>1
  <2>3. IsFiniteSet({a})
    BY FS_Singleton
  <2>4. IsFiniteSet({a} \cup {b})
    BY <2>3, FS_AddElement
  <2>5. IsFiniteSet(({a} \cup {b}) \cup {c})
    BY <2>4, FS_AddElement
  <2> QED  BY <2>2, <2>5, FS_AddElement
<1>5. edges \in Seq(Nat \X Nat)
  <2>1. PICK S : S = Nat \X Nat
    OBVIOUS
  <2>2. PICK a, b, c : a = <<1, 2>> /\ b = <<2, 3>> /\ c = <<3, 4>>
    OBVIOUS
  <2>3. a \in S /\ b \in S /\ c \in S
    BY <2>1, <2>2
  <2>4. <<a, b, c>> \in Seq(S)
    BY <2>3
  <2> QED  BY <1>2, <2>1, <2>2, <2>4
<1>6. starter_flow = [nodes |-> nodes, edges |-> edges]
  BY <1>1, <1>2 DEF starter_flow
<1> QED  BY <1>3, <1>4, <1>5, <1>6 DEF Flows

LEMMA WorkflowInitially == WfInit => WorkflowInv
<1> SUFFICES ASSUME WfInit PROVE WorkflowInv
  OBVIOUS
<1>1. PICK f, doc : /\ f \in Flows /\ workflow = build_state(f, doc)
                    /\ editor = [on |-> FALSE, flow |-> f, timer |-> FALSE, deleted |-> {}]
                    /\ saveQueue = <<>> /\ bodies = <<>> /\ adds = 0 /\ saveState # "saved"
  BY StarterIsFlow, FlowAssumption DEF WfInit
<1>2. workflow = build_state(workflow.flow, workflow.doc) /\ workflow.flow = f
  BY <1>1, BuildIsBuilt
<1>3. /\ editor = [on |-> editor.on, flow |-> editor.flow, timer |-> editor.timer, deleted |-> editor.deleted]
      /\ editor.flow = f
  BY <1>1
<1>4. saveQueue \in Seq(Flows) /\ bodies \in Seq(Flows) /\ adds \in Nat
  BY <1>1
<1> QED  BY <1>1, <1>2, <1>3, <1>4 DEF WorkflowInv

\* A writer of the file and the signal.
LEMMA SavesTogether ==
    ASSUME WorkflowInv, NEW f \in Flows, NEW doc, NEW ok \in BOOLEAN, Saves(build_state(f, doc), ok)
    PROVE  /\ workflow' = build_state(workflow'.flow, workflow'.doc)
           /\ saveState' = "saved" => flowFile'.doc = workflow'.doc /\ flowFile'.flow = workflow'.flow
           /\ workflow'.flow \in Flows
<1>1. PICK next : next = build_state(f, doc)
  OBVIOUS
<1>2. next = build_state(next.flow, next.doc) /\ next.flow = f
  BY <1>1, BuildIsBuilt
<1>3. CASE ok
  <2>1. flowFile' = [doc |-> next.doc, flow |-> next.flow] /\ workflow' = next
    BY <1>1, <1>3 DEF Saves
  <2>2. flowFile'.doc = next.doc /\ flowFile'.flow = next.flow
    BY <2>1
  <2> QED  BY <1>2, <2>1, <2>2
<1>4. CASE ~ok
  <2>1. saveState' = "save failed" /\ workflow' = workflow
    BY <1>4 DEF Saves
  <2> QED  BY <2>1 DEF WorkflowInv
<1> QED  BY <1>3, <1>4

LEMMA WorkflowStep == WorkflowInv /\ [WfNext]_wfVars => WorkflowInv'
<1> SUFFICES ASSUME WorkflowInv, [WfNext]_wfVars PROVE WorkflowInv'
  OBVIOUS
<1>i. /\ workflow = build_state(workflow.flow, workflow.doc)
      /\ saveState = "saved" => flowFile.doc = workflow.doc /\ flowFile.flow = workflow.flow
      /\ workflow.flow \in Flows /\ editor.flow \in Flows /\ adds \in Nat
      /\ editor = [on |-> editor.on, flow |-> editor.flow, timer |-> editor.timer, deleted |-> editor.deleted]
      /\ saveQueue \in Seq(Flows) /\ bodies \in Seq(Flows)
  BY DEF WorkflowInv
<1>1. CASE UNCHANGED wfVars
  BY <1>1 DEF WorkflowInv, wfVars
<1>2. CASE MountEditor
  <2>1. PICK f : f = WithEdges(workflow.flow, Joining(workflow.flow, NodeIds(workflow.flow))) /\ f \in Flows
    BY <1>i, EdgesOfFlow
  <2>2. editor' = [on |-> TRUE, timer |-> FALSE, deleted |-> editor.deleted, flow |-> f]
    BY <1>2, <2>1 DEF MountEditor
  <2>3. /\ editor' = [on |-> editor'.on, flow |-> editor'.flow, timer |-> editor'.timer, deleted |-> editor'.deleted]
        /\ editor'.flow = f
    BY <2>2
  <2>4. saveQueue' \in Seq(Flows)
    BY <1>2, <1>i DEF MountEditor
  <2>5. UNCHANGED <<flowFile, workflow, saveState, bodies, adds>>
    BY <1>2 DEF MountEditor
  <2> QED  BY <1>i, <2>1, <2>3, <2>4, <2>5 DEF WorkflowInv
<1>3. CASE Edit
  <2>1. ASSUME NEW g \in Flows, EditTo(g) PROVE WorkflowInv'
    <3>1. /\ editor' = [editor EXCEPT !.flow = g, !.timer = TRUE,
                                      !.deleted = @ \cup (NodeIds(editor.flow) \ NodeIds(g))]
          /\ UNCHANGED <<flowFile, workflow, saveState, saveQueue, bodies, adds>>
      BY <2>1 DEF EditTo
    <3>2. /\ editor' = [on |-> editor'.on, flow |-> editor'.flow, timer |-> editor'.timer, deleted |-> editor'.deleted]
          /\ editor'.flow = g
      BY <1>i, <3>1
    <3> QED  BY <1>i, <3>1, <3>2 DEF WorkflowInv
  <2>2. PICK f : f = editor.flow /\ f \in Flows
    BY <1>i
  <2>3. \/ \E a, b \in NodeIds(f) : EditTo([f EXCEPT !.edges = Append(@, <<a, b>>)])
        \/ \E n \in f.nodes :
              EditTo([WithEdges(f, {i \in DOMAIN f.edges : n.id \notin {f.edges[i][1], f.edges[i][2]}})
                      EXCEPT !.nodes = @ \ {n}])
        \/ \E i \in DOMAIN f.edges : EditTo(WithEdges(f, DOMAIN f.edges \ {i}))
    BY <1>3, <2>2 DEF Edit
  <2>4. ASSUME NEW a \in NodeIds(f), NEW b \in NodeIds(f), EditTo([f EXCEPT !.edges = Append(@, <<a, b>>)])
        PROVE  WorkflowInv'
    <3>1. PICK S, e, x : S = Nat \X Nat /\ e = f.edges /\ x = <<a, b>>
      OBVIOUS
    <3>2. e \in Seq(S) /\ x \in S
      BY <2>2, <3>1, FlowFields
    <3>8. Append(e, x) \in Seq(S)
      BY <3>2
    <3>3. PICK d : d = Append(e, x) /\ d \in Seq(S)
      BY <3>8
    <3>4. PICK g : g = [f EXCEPT !.edges = Append(@, <<a, b>>)]
      OBVIOUS
    <3>5. g = [f EXCEPT !.edges = d]
      BY <3>1, <3>3, <3>4
    <3>6. g = [nodes |-> f.nodes, edges |-> d]
      BY <2>2, <3>5, FlowShape
    <3>7. g \in Flows
      BY <2>2, <3>1, <3>3, <3>6, FlowFields DEF Flows
    <3> QED  BY <2>1, <2>4, <3>4, <3>7
  <2>5. ASSUME NEW n \in f.nodes, NEW places, EditTo([WithEdges(f, places) EXCEPT !.nodes = @ \ {n}])
        PROVE  WorkflowInv'
    <3>1. PICK h : h = WithEdges(f, places) /\ h \in Flows
      BY <2>2, EdgesOfFlow
    <3>2. PICK g : g = [h EXCEPT !.nodes = @ \ {n}]
      OBVIOUS
    <3>3. g = [nodes |-> h.nodes \ {n}, edges |-> h.edges]
      BY <3>1, <3>2, FlowShape
    <3>4. h.nodes \subseteq [id : Nat, kind : NodeKinds] /\ IsFiniteSet(h.nodes)
      BY <3>1, FlowFields
    <3>5. IsFiniteSet(h.nodes \ {n})
      BY <3>4, FS_RemoveElement
    <3>6. h.nodes \ {n} \subseteq [id : Nat, kind : NodeKinds]
      BY <3>4
    <3>7. g \in Flows
      BY <3>1, <3>3, <3>5, <3>6, NodesOfFlow
    <3> QED  BY <2>1, <2>5, <3>1, <3>2, <3>7
  <2>6. ASSUME NEW places, EditTo(WithEdges(f, places)) PROVE WorkflowInv'
    BY <2>1, <2>2, <2>6, EdgesOfFlow
  <2> QED  BY <2>3, <2>4, <2>5, <2>6
<1>4. CASE TimerFires
  <2>1. editor' = [editor EXCEPT !.timer = FALSE] /\ saveQueue' = Append(saveQueue, editor.flow)
        /\ UNCHANGED <<flowFile, workflow, saveState, bodies, adds>>
    BY <1>4 DEF TimerFires
  <2>2. /\ editor' = [on |-> editor'.on, flow |-> editor'.flow, timer |-> editor'.timer, deleted |-> editor'.deleted]
        /\ editor'.flow = editor.flow
    BY <1>i, <2>1
  <2>3. saveQueue' \in Seq(Flows)
    BY <1>i, <2>1
  <2> QED  BY <1>i, <2>1, <2>2, <2>3 DEF WorkflowInv
<1>5. CASE DrainQueue
  <2>1. /\ saveQueue # <<>> /\ bodies' = Append(bodies, saveQueue[Len(saveQueue)]) /\ saveQueue' = <<>>
        /\ UNCHANGED <<flowFile, workflow, saveState, editor, adds>>
    BY <1>5 DEF DrainQueue
  <2>2. saveQueue[Len(saveQueue)] \in Flows
    BY <1>i, <2>1
  <2>3. bodies' \in Seq(Flows) /\ saveQueue' \in Seq(Flows)
    BY <1>i, <2>1, <2>2
  <2> QED  BY <1>i, <2>1, <2>3 DEF WorkflowInv
<1>6. ASSUME NEW ok \in BOOLEAN, ReceiveBody(ok) PROVE WorkflowInv'
  <2>1. /\ bodies # <<>> /\ bodies' = Tail(bodies) /\ UNCHANGED <<editor, saveQueue, adds>>
        /\ Saves(build_state(Head(bodies), workflow.doc), ok)
    BY <1>6 DEF ReceiveBody
  <2>2. Head(bodies) \in Flows /\ bodies' \in Seq(Flows)
    BY <1>i, <2>1
  <2>3. /\ workflow' = build_state(workflow'.flow, workflow'.doc)
        /\ saveState' = "saved" => flowFile'.doc = workflow'.doc /\ flowFile'.flow = workflow'.flow
        /\ workflow'.flow \in Flows
    BY <2>1, <2>2, SavesTogether
  <2> QED  BY <1>i, <2>1, <2>2, <2>3 DEF WorkflowInv
<1>7. ASSUME NEW ok \in BOOLEAN, NEW kind \in PaletteKinds, add_catalog_node(kind, ok) PROVE WorkflowInv'
  <2>1. PICK f : f = [workflow.flow EXCEPT !.nodes = @ \cup {Node(5 + adds, kind)}]
    OBVIOUS
  <2>2. /\ adds' = adds + 1 /\ UNCHANGED <<editor, saveQueue, bodies>>
        /\ Saves(build_state(f, workflow.doc), ok)
    BY <1>7, <2>1 DEF add_catalog_node
  <2>3. PICK w : w = workflow.flow /\ w \in Flows
    BY <1>i
  <2>4. f = [nodes |-> w.nodes \cup {Node(5 + adds, kind)}, edges |-> w.edges]
    <3>1. w = [nodes |-> w.nodes, edges |-> w.edges]
      BY <2>3, FlowShape
    <3>2. PICK m : m = Node(5 + adds, kind)
      OBVIOUS
    <3>3. f = [w EXCEPT !.nodes = @ \cup {m}]
      BY <2>1, <2>3, <3>2
    <3>4. f = [nodes |-> w.nodes \cup {m}, edges |-> w.edges]
      BY <3>1, <3>3
    <3> QED  BY <3>2, <3>4
  <2>5. Node(5 + adds, kind) \in [id : Nat, kind : NodeKinds]
    BY <1>i DEF Node, NodeKinds
  <2>6. w.nodes \subseteq [id : Nat, kind : NodeKinds] /\ IsFiniteSet(w.nodes)
    BY <2>3, FlowFields
  <2>7. IsFiniteSet(w.nodes \cup {Node(5 + adds, kind)})
    BY <2>6, FS_AddElement
  <2>8. w.nodes \cup {Node(5 + adds, kind)} \subseteq [id : Nat, kind : NodeKinds]
    BY <2>5, <2>6
  <2>9. f \in Flows
    BY <2>3, <2>4, <2>7, <2>8, NodesOfFlow
  <2>10. /\ workflow' = build_state(workflow'.flow, workflow'.doc)
         /\ saveState' = "saved" => flowFile'.doc = workflow'.doc /\ flowFile'.flow = workflow'.flow
         /\ workflow'.flow \in Flows
    BY <2>2, <2>9, SavesTogether
  <2>11. adds' \in Nat
    BY <1>i, <2>2
  <2> QED  BY <1>i, <2>2, <2>10, <2>11 DEF WorkflowInv
<1> QED
  BY <1>1, <1>2, <1>3, <1>4, <1>5, <1>6, <1>7 DEF WfNext

\* For any flows in the file and any edits, the plan next to "saved" is one of the file: its
\* document is the file's, and its steps are executable nodes of the file's flow, each once and
\* joined to the one before, however edits, the timer, the queue, palette and failing writes
\* interleave (workflow.rs compile_dispatch_plan, save_workflow_state; screens.rs).
THEOREM PlansMatchTheFile == WfSpec => []PlanIsOfTheFile
<1>1. WorkflowInv => PlanIsOfTheFile
  <2> SUFFICES ASSUME WorkflowInv, saveState = "saved" PROVE
           /\ flowFile.doc = workflow.doc /\ flowFile.flow = workflow.flow
           /\ (workflow.plan.found => is_valid(flowFile.flow)) /\ GoodPlan(flowFile.flow, workflow.plan.steps)
    BY DEF PlanIsOfTheFile, GoodPlan
  <2>1. /\ flowFile.doc = workflow.doc /\ flowFile.flow = workflow.flow /\ workflow.flow \in Flows
        /\ workflow = build_state(workflow.flow, workflow.doc)
    BY DEF WorkflowInv
  <2>2. workflow.plan = compile_dispatch_plan(workflow.flow)
    BY <2>1 DEF build_state
  <2> QED  BY <2>1, <2>2, PlanIsGood
<1> QED
  BY <1>1, WorkflowInitially, WorkflowStep, PTL DEF WfSpec

----------------------------------------------------------------------------
(***************************************************************************)
(* Local discovery.                                                        *)
(*                                                                         *)
(* A merge keeps what the addresses say: before the probes every address   *)
(* there is evidence of stays, once, and counts as Auspex's exactly when   *)
(* some evidence with that address does.  What is said of a runtime that   *)
(* is up from before the discovery to the end is alone under its keys: no  *)
(* other listens at its port or answers with its identity meanwhile, so    *)
(* the last merge keeps it as it is, whatever becomes of the others.       *)
(***************************************************************************)
Evidence ==
    {c \in [own : {"AuspexOwned", "UserOwned", "Unknown"}, pid : {0} \cup RuntimePids,
            url : {0} \cup ControlPorts, id : 0..MaxLocalStarts] : c.url = 0 => c.pid # 0}

\* The addresses candidates have, and those that are called Auspex's.
Urls(cs) == {cs[i].url : i \in DOMAIN cs} \ {0}
UrlsOfOurs(cs) == {cs[i].url : i \in {j \in DOMAIN cs : cs[j].own = "AuspexOwned"}} \ {0}
OneEach(cs) == \A i, j \in DOMAIN cs : cs[i].url # 0 /\ cs[i].url = cs[j].url => i = j

KeysFor(key, cs) ==
    cs \in Seq(Evidence) /\ DOMAIN key = DOMAIN cs /\ \A i \in DOMAIN cs : key[i] \in MergeKeys

\* Keys under which what is merged is of one address, and of one address all is merged.
Keyed(key, cs) ==
    /\ KeysFor(key, cs)
    /\ \A i, j \in DOMAIN cs : key[i] = key[j] => cs[i].url = cs[j].url
    /\ \A i, j \in DOMAIN cs : cs[i].url # 0 /\ cs[i].url = cs[j].url => key[i] = key[j]

\* What a merge lists: for each key something of what has it.
Grouped(r, ks, key, cs) ==
    /\ r \in Seq(Evidence) /\ DOMAIN ks = DOMAIN r
    /\ \A i \in DOMAIN cs : \E n \in DOMAIN r : ks[n] = key[i]
    /\ \A m, n \in DOMAIN r : ks[m] = ks[n] => m = n
    /\ \A n \in DOMAIN r :
          /\ \E i \in DOMAIN cs : key[i] = ks[n] /\ r[n].url = cs[i].url
          /\ \E i \in DOMAIN cs : key[i] = ks[n] /\ r[n].id = cs[i].id
          /\ r[n].own = "AuspexOwned" <=> \E i \in DOMAIN cs : key[i] = ks[n] /\ cs[i].own = "AuspexOwned"

MergedTo(r, cs) ==
    /\ r \in Seq(Evidence) /\ OneEach(r)
    /\ Urls(r) = Urls(cs) /\ UrlsOfOurs(r) = UrlsOfOurs(cs)
    /\ \A n \in DOMAIN r : \E i \in DOMAIN cs : r[n].id = cs[i].id

LEMMA FirstKnownIsKnown ==
    ASSUME NEW g, g \subseteq Nat, NEW values, DOMAIN values = g
    PROVE  \/ FirstKnown(values) = 0 /\ \A i \in g : values[i] = 0
           \/ \E i \in g : values[i] # 0 /\ FirstKnown(values) = values[i]
<1>1. PICK known : known = {i \in g : values[i] # 0}
  OBVIOUS
<1>2. FirstKnown(values) = IF known = {} THEN 0 ELSE values[First(known)]
  BY <1>1 DEF FirstKnown
<1>3. CASE known = {}
  BY <1>1, <1>2, <1>3
<1>4. CASE known # {}
  <2>1. known \subseteq Nat
    BY <1>1
  <2>2. First(known) \in known
    BY <1>4, <2>1, FirstIsFirst
  <2> QED  BY <1>1, <1>2, <1>4, <2>2
<1> QED  BY <1>3, <1>4

\* Candidates merged: the address is one of theirs, and so is the identity.
LEMMA GroupMerges ==
    ASSUME NEW cs \in Seq(Evidence), NEW g, g \subseteq DOMAIN cs, NEW a \in g
    PROVE  LET m == merge_candidates(cs, g)
           IN  /\ m \in Evidence
               /\ \E i \in g : m.url = cs[i].url
               /\ \E i \in g : m.id = cs[i].id
               /\ m.own = "AuspexOwned" <=> \E i \in g : cs[i].own = "AuspexOwned"
<1>1. g \subseteq Nat /\ \A i \in g : cs[i] \in Evidence
  OBVIOUS
<1>2. PICK pids, urls, ids, owns :
          /\ pids = [i \in g |-> cs[i].pid] /\ urls = [i \in g |-> cs[i].url]
          /\ ids = [i \in g |-> cs[i].id] /\ owns = {cs[i].own : i \in g}
  OBVIOUS
<1>3. PICK m : m = merge_candidates(cs, g)
  OBVIOUS
<1>4. m = [own |-> strongest_ownership(owns), pid |-> FirstKnown(pids),
           url |-> FirstKnown(urls), id |-> FirstKnown(ids)]
  BY <1>2, <1>3 DEF merge_candidates
<1>5. (\E i \in g : FirstKnown(urls) = cs[i].url) /\ (FirstKnown(urls) = 0 => \A i \in g : cs[i].url = 0)
  <2>1. DOMAIN urls = g /\ \A i \in g : urls[i] = cs[i].url
    BY <1>2
  <2> QED  BY <1>1, <2>1, FirstKnownIsKnown
<1>6. \E i \in g : FirstKnown(ids) = cs[i].id
  <2>1. DOMAIN ids = g /\ \A i \in g : ids[i] = cs[i].id
    BY <1>2
  <2> QED  BY <1>1, <2>1, FirstKnownIsKnown
<1>7. FirstKnown(pids) \in {0} \cup RuntimePids /\ (FirstKnown(urls) = 0 => FirstKnown(pids) # 0)
  <2>1. DOMAIN pids = g /\ \A i \in g : pids[i] = cs[i].pid
    BY <1>2
  <2>2. \A i \in g : cs[i].pid \in {0} \cup RuntimePids /\ (cs[i].url = 0 => cs[i].pid # 0)
    BY <1>1 DEF Evidence
  <2> QED  BY <1>1, <1>5, <2>1, <2>2, FirstKnownIsKnown
<1>8. \A i \in g : cs[i].url \in {0} \cup ControlPorts /\ cs[i].id \in 0..MaxLocalStarts
  BY <1>1 DEF Evidence
<1>9. strongest_ownership(owns) \in {"AuspexOwned", "UserOwned", "Unknown"}
  BY DEF strongest_ownership
<1>10. strongest_ownership(owns) = "AuspexOwned" <=> "AuspexOwned" \in owns
  BY DEF strongest_ownership
<1>11. "AuspexOwned" \in owns <=> \E i \in g : cs[i].own = "AuspexOwned"
  BY <1>2
<1>12. m \in Evidence
  <2>1. FirstKnown(urls) \in {0} \cup ControlPorts /\ FirstKnown(ids) \in 0..MaxLocalStarts
    BY <1>5, <1>6, <1>8
  <2> QED  BY <1>4, <1>7, <1>9, <2>1 DEF Evidence
<1>13. m.url = FirstKnown(urls) /\ m.id = FirstKnown(ids) /\ m.own = strongest_ownership(owns)
  BY <1>4
<1> QED
  BY <1>3, <1>5, <1>6, <1>10, <1>11, <1>12, <1>13

\* The numbers up to one; the numbers of a set, each once.
Numbers(s, N) == s = [k \in 1..N |-> k]
Lists(t, I) ==
    /\ Len(t) \in Nat /\ DOMAIN t = 1..Len(t)
    /\ \A n \in 1..Len(t) : t[n] \in I
    /\ \A i \in I : \E n \in 1..Len(t) : t[n] = i
    /\ \A m, n \in 1..Len(t) : t[m] = t[n] => m = n

LEMMA InOrder ==
    ASSUME NEW N \in Nat, NEW I, I \subseteq 1..N, NEW s, Numbers(s, N), NEW t, t = SelectAt(s, I)
    PROVE  Lists(t, I)
<1>1. PICK S : S = 1..N
  OBVIOUS
<1>2. s \in Seq(S) /\ Len(s) = N /\ \A k \in 1..N : s[k] = k
  BY <1>1 DEF Numbers
<1>4. t \in Seq(S) /\ Selected(t, s, N, I)
  BY <1>2, SelectAtTakes
<1>5. PICK l \in Nat : l = Len(t)
  BY <1>4
<1>6. PICK p : Takes(p, l, N, I) /\ \A k \in 1..l : t[k] = s[p[k]]
  BY <1>4, <1>5 DEF Selected
<1>7. /\ \A k \in 1..l : p[k] \in I /\ p[k] \in 1..N
      /\ \A k, m \in 1..l : k < m => p[k] < p[m]
      /\ \A i \in I : \E k \in 1..l : p[k] = i
  BY <1>6 DEF Takes
<1>8. \A k \in 1..l : t[k] = p[k]
  BY <1>2, <1>6, <1>7
<1>9. ASSUME NEW m \in 1..l, NEW n \in 1..l, t[m] = t[n] PROVE m = n
  <2>1. p[m] = p[n] /\ p[m] \in Nat
    BY <1>7, <1>8, <1>9
  <2> QED  BY <1>5, <1>7, <2>1
<1>10. DOMAIN t = 1..l
  BY <1>4, <1>5
<1>11. \A n \in 1..l : t[n] \in I
  BY <1>7, <1>8
<1>12. \A i \in I : \E n \in 1..l : t[n] = i
  BY <1>7, <1>8
<1> QED
  BY <1>5, <1>9, <1>10, <1>11, <1>12 DEF Lists

\* One merge.
LEMMA MergeGroups ==
    ASSUME NEW key, NEW cs, KeysFor(key, cs)
    PROVE  \E ks : Grouped(MergedBy(key, cs), ks, key, cs)
<1>1. PICK N \in Nat : N = MaxLocalStarts + MaxPid + MaxControlPort
  BY LocalDiscoveryAssumption
<1>2. PICK numbers, keys : numbers = [k \in 1..N |-> k] /\ keys = SelectAt(numbers, Range(key))
  OBVIOUS
<1>3. Range(key) \subseteq 1..N
  BY <1>1 DEF KeysFor, Range, MergeKeys
<1>4. /\ Len(keys) \in Nat /\ DOMAIN keys = 1..Len(keys)
      /\ \A n \in 1..Len(keys) : keys[n] \in Range(key)
      /\ \A k \in Range(key) : \E n \in 1..Len(keys) : keys[n] = k
      /\ \A m, n \in 1..Len(keys) : keys[m] = keys[n] => m = n
  <2>1. Numbers(numbers, N)
    BY <1>2 DEF Numbers
  <2>2. Lists(keys, Range(key))
    BY <1>2, <1>3, <2>1, InOrder, Zenon
  <2> QED  BY <2>2 DEF Lists
<1>5. PICK l \in Nat : l = Len(keys) /\ DOMAIN keys = 1..l
  BY <1>4
<1>6. PICK g : g = [n \in 1..l |-> {i \in DOMAIN cs : key[i] = keys[n]}]
  OBVIOUS
<1>7. PICK r : r = [n \in 1..l |-> merge_candidates(cs, g[n])]
  OBVIOUS
<1>8. r = MergedBy(key, cs)
  BY <1>1, <1>2, <1>5, <1>6, <1>7 DEF MergedBy, MergeKeys
<1>9. DOMAIN r = 1..l /\ \A n \in 1..l : r[n] = merge_candidates(cs, g[n])
  BY <1>7
<1>10. ASSUME NEW i \in DOMAIN cs PROVE \E n \in 1..l : keys[n] = key[i]
  <2>1. key[i] \in Range(key)
    BY DEF KeysFor, Range
  <2> QED  BY <1>4, <1>5, <2>1
<1>11. ASSUME NEW n \in 1..l
       PROVE  /\ r[n] \in Evidence
              /\ \E i \in DOMAIN cs : key[i] = keys[n] /\ r[n].url = cs[i].url
              /\ \E i \in DOMAIN cs : key[i] = keys[n] /\ r[n].id = cs[i].id
              /\ r[n].own = "AuspexOwned" <=> \E i \in DOMAIN cs : key[i] = keys[n] /\ cs[i].own = "AuspexOwned"
  <2>1. PICK h : h = g[n] /\ h = {j \in DOMAIN cs : key[j] = keys[n]}
    BY <1>6
  <2>2. PICK a \in h : a \in DOMAIN cs
    BY <1>4, <1>5, <2>1 DEF Range, KeysFor
  <2>3. cs \in Seq(Evidence) /\ h \subseteq DOMAIN cs
    BY <2>1 DEF KeysFor
  <2>4. PICK m : m = merge_candidates(cs, h)
    OBVIOUS
  <2>5. /\ m \in Evidence
        /\ \E i \in h : m.url = cs[i].url
        /\ \E i \in h : m.id = cs[i].id
        /\ m.own = "AuspexOwned" <=> \E j \in h : cs[j].own = "AuspexOwned"
    BY <2>2, <2>3, <2>4, GroupMerges
  <2>6. r[n] = m
    BY <1>9, <2>1, <2>4
  <2> QED  BY <2>1, <2>5, <2>6
<1>12. r \in Seq(Evidence)
  BY <1>7, <1>9, <1>11
<1>13. \A m, n \in 1..l : keys[m] = keys[n] => m = n
  BY <1>4, <1>5
<1>14. Grouped(r, keys, key, cs)
  BY <1>5, <1>9, <1>10, <1>11, <1>12, <1>13 DEF Grouped
<1> QED  BY <1>8, <1>14

LEMMA MergeKeeps ==
    ASSUME NEW key, NEW cs, Keyed(key, cs)
    PROVE  MergedTo(MergedBy(key, cs), cs)
<1>1. PICK r, ks : r = MergedBy(key, cs) /\ Grouped(r, ks, key, cs)
  BY MergeGroups DEF Keyed
<1>2. /\ r \in Seq(Evidence) /\ DOMAIN ks = DOMAIN r
      /\ \A i \in DOMAIN cs : \E n \in DOMAIN r : ks[n] = key[i]
      /\ \A m, n \in DOMAIN r : ks[m] = ks[n] => m = n
  BY <1>1 DEF Grouped
<1>3. ASSUME NEW n \in DOMAIN r, NEW i \in DOMAIN cs, key[i] = ks[n] PROVE r[n].url = cs[i].url
  <2>1. PICK j \in DOMAIN cs : key[j] = ks[n] /\ r[n].url = cs[j].url
    BY <1>1 DEF Grouped
  <2> QED  BY <1>3, <2>1 DEF Keyed
<1>4. ASSUME NEW n \in DOMAIN r
      PROVE  /\ \E i \in DOMAIN cs : key[i] = ks[n] /\ r[n].id = cs[i].id
             /\ r[n].own = "AuspexOwned" <=> \E i \in DOMAIN cs : key[i] = ks[n] /\ cs[i].own = "AuspexOwned"
  BY <1>1 DEF Grouped
<1>5. OneEach(r)
  <2> SUFFICES ASSUME NEW m \in DOMAIN r, NEW n \in DOMAIN r, r[m].url # 0, r[m].url = r[n].url PROVE m = n
    BY DEF OneEach
  <2>1. PICK i \in DOMAIN cs : key[i] = ks[m]
    BY <1>4
  <2>2. PICK j \in DOMAIN cs : key[j] = ks[n]
    BY <1>4
  <2>3. cs[i].url = r[m].url /\ cs[j].url = r[n].url
    BY <1>3, <2>1, <2>2
  <2>4. key[i] = key[j]
    BY <2>3 DEF Keyed
  <2> QED  BY <1>2, <2>1, <2>2, <2>4
<1>6. Urls(r) = Urls(cs)
  <2>1. \A n \in DOMAIN r : \E i \in DOMAIN cs : r[n].url = cs[i].url
    BY <1>1 DEF Grouped
  <2>2. \A i \in DOMAIN cs : \E n \in DOMAIN r : r[n].url = cs[i].url
    BY <1>2, <1>3
  <2> QED  BY <2>1, <2>2 DEF Urls
<1>7. UrlsOfOurs(r) = UrlsOfOurs(cs)
  <2>1. \A n \in DOMAIN r : r[n].own = "AuspexOwned" =>
            \E i \in DOMAIN cs : cs[i].own = "AuspexOwned" /\ r[n].url = cs[i].url
    BY <1>3, <1>4
  <2>2. \A i \in DOMAIN cs : cs[i].own = "AuspexOwned" =>
            \E n \in DOMAIN r : r[n].own = "AuspexOwned" /\ r[n].url = cs[i].url
    BY <1>2, <1>3, <1>4
  <2> QED  BY <2>1, <2>2 DEF UrlsOfOurs
<1> QED
  BY <1>1, <1>2, <1>4, <1>5, <1>6, <1>7 DEF MergedTo

\* What is alone under its key stays as it is, and nothing else becomes like it.
Alone(key, cs, i) == \A j \in DOMAIN cs : key[j] = key[i] => j = i
KeptAt(r, n, cs, i) ==
    /\ n \in DOMAIN r
    /\ r[n].url = cs[i].url /\ r[n].id = cs[i].id /\ (r[n].own = "AuspexOwned" <=> cs[i].own = "AuspexOwned")
    /\ \A m \in DOMAIN r \ {n} : /\ \E j \in DOMAIN cs \ {i} : r[m].url = cs[j].url
                                 /\ \E j \in DOMAIN cs \ {i} : r[m].id = cs[j].id

LEMMA AloneIsKept ==
    ASSUME NEW key, NEW cs, KeysFor(key, cs), NEW i \in DOMAIN cs, Alone(key, cs, i)
    PROVE  \E n : KeptAt(MergedBy(key, cs), n, cs, i)
<1>1. PICK r, ks : r = MergedBy(key, cs) /\ Grouped(r, ks, key, cs)
  BY MergeGroups
<1>2. PICK n \in DOMAIN r : ks[n] = key[i]
  BY <1>1 DEF Grouped
<1>3. /\ \E j \in DOMAIN cs : key[j] = key[i] /\ r[n].url = cs[j].url
      /\ \E j \in DOMAIN cs : key[j] = key[i] /\ r[n].id = cs[j].id
      /\ r[n].own = "AuspexOwned" <=> \E j \in DOMAIN cs : key[j] = key[i] /\ cs[j].own = "AuspexOwned"
  <2>1. /\ \E j \in DOMAIN cs : key[j] = ks[n] /\ r[n].url = cs[j].url
        /\ \E j \in DOMAIN cs : key[j] = ks[n] /\ r[n].id = cs[j].id
        /\ r[n].own = "AuspexOwned" <=> \E j \in DOMAIN cs : key[j] = ks[n] /\ cs[j].own = "AuspexOwned"
    BY <1>1 DEF Grouped
  <2> QED  BY <1>2, <2>1
<1>4. /\ r[n].url = cs[i].url /\ r[n].id = cs[i].id
      /\ r[n].own = "AuspexOwned" <=> cs[i].own = "AuspexOwned"
  BY <1>3 DEF Alone
<1>5. ASSUME NEW m \in DOMAIN r \ {n}
      PROVE  /\ \E j \in DOMAIN cs \ {i} : r[m].url = cs[j].url
             /\ \E j \in DOMAIN cs \ {i} : r[m].id = cs[j].id
  <2>0. \A u, v \in DOMAIN r : ks[u] = ks[v] => u = v
    BY <1>1 DEF Grouped
  <2>1. ks[m] # key[i]
    BY <1>2, <2>0
  <2>2. /\ \E j \in DOMAIN cs : key[j] = ks[m] /\ r[m].url = cs[j].url
        /\ \E j \in DOMAIN cs : key[j] = ks[m] /\ r[m].id = cs[j].id
    BY <1>1 DEF Grouped
  <2> QED  BY <2>1, <2>2
<1>6. KeptAt(r, n, cs, i)
  BY <1>2, <1>4, <1>5 DEF KeptAt
<1> QED  BY <1>1, <1>6

\* Evidence before the probes.
Unprobed(cs) == cs \in Seq(Evidence) /\ \A i \in DOMAIN cs : cs[i].id = 0

EvidenceKeys(cs) == [i \in DOMAIN cs |-> candidate_evidence_key(cs[i])]
IdentityKeys(cs) == [i \in DOMAIN cs |-> candidate_identity_key(cs[i])]

\* The keys of two candidates are one when their address is, or their pid without an address.

LEMMA EvidenceKeysOf ==
    ASSUME NEW c \in Evidence, NEW d \in Evidence
    PROVE  /\ candidate_evidence_key(c) \in MergeKeys
           /\ candidate_evidence_key(c) > MaxLocalStarts
           /\ candidate_evidence_key(c) = candidate_evidence_key(d) => c.url = d.url
           /\ c.url # 0 /\ c.url = d.url => candidate_evidence_key(c) = candidate_evidence_key(d)
<1>1. PICK a \in Nat, b \in Nat, e \in Nat : a = MaxLocalStarts /\ b = MaxPid /\ e = MaxControlPort
  BY LocalDiscoveryAssumption
<1>2. PICK u \in 0..e, v \in 0..e, p \in 0..b, q \in 0..b :
          u = c.url /\ v = d.url /\ p = c.pid /\ q = d.pid
  BY <1>1 DEF Evidence, ControlPorts, RuntimePids
<1>3. (u = 0 => p # 0) /\ (v = 0 => q # 0)
  BY <1>2 DEF Evidence
<1>4. /\ candidate_evidence_key(c) = IF u # 0 THEN a + b + u ELSE a + p
      /\ candidate_evidence_key(d) = IF v # 0 THEN a + b + v ELSE a + q
  BY <1>1, <1>2 DEF candidate_evidence_key
<1>5. MergeKeys = 1..(a + b + e)
  BY <1>1 DEF MergeKeys
<1>6. candidate_evidence_key(c) \in MergeKeys /\ candidate_evidence_key(c) > a
  <2>1. (IF u # 0 THEN a + b + u ELSE a + p) \in 1..(a + b + e)
    BY <1>1, <1>2, <1>3
  <2>2. (IF u # 0 THEN a + b + u ELSE a + p) > a
    BY <1>1, <1>2, <1>3
  <2> QED  BY <1>4, <1>5, <2>1, <2>2
<1>7. candidate_evidence_key(c) = candidate_evidence_key(d) => u = v
  BY <1>1, <1>2, <1>3, <1>4
<1>8. u # 0 /\ u = v => candidate_evidence_key(c) = candidate_evidence_key(d)
  BY <1>4
<1> QED
  BY <1>1, <1>2, <1>6, <1>7, <1>8

LEMMA KeysAreKeys ==
    ASSUME NEW cs \in Seq(Evidence)
    PROVE  KeysFor(EvidenceKeys(cs), cs) /\ KeysFor(IdentityKeys(cs), cs)
<1>1. \A i \in DOMAIN cs : cs[i] \in Evidence /\ cs[i].id \in 0..MaxLocalStarts
  BY DEF Evidence
<1>2. \A i \in DOMAIN cs : candidate_evidence_key(cs[i]) \in MergeKeys
  BY <1>1, EvidenceKeysOf
<1>3. \A k \in 0..MaxLocalStarts : k # 0 => k \in MergeKeys
  BY LocalDiscoveryAssumption DEF MergeKeys
<1>4. \A i \in DOMAIN cs : candidate_identity_key(cs[i]) \in MergeKeys
  BY <1>1, <1>2, <1>3 DEF candidate_identity_key
<1> QED  BY <1>2, <1>4 DEF KeysFor, EvidenceKeys, IdentityKeys

LEMMA UnprobedKeys ==
    ASSUME NEW cs, Unprobed(cs)
    PROVE  Keyed(EvidenceKeys(cs), cs) /\ Keyed(IdentityKeys(cs), cs)
<1>1. cs \in Seq(Evidence) /\ \A i \in DOMAIN cs : cs[i] \in Evidence /\ cs[i].id = 0
  BY DEF Unprobed
<1>2. \A i \in DOMAIN cs : candidate_identity_key(cs[i]) = candidate_evidence_key(cs[i])
  BY <1>1 DEF candidate_identity_key
<1>3. IdentityKeys(cs) = EvidenceKeys(cs)
  BY <1>2 DEF IdentityKeys, EvidenceKeys
<1>4. PICK key : key = EvidenceKeys(cs)
  OBVIOUS
<1>5. \A i \in DOMAIN cs : key[i] = candidate_evidence_key(cs[i])
  BY <1>4 DEF EvidenceKeys
<1>6. KeysFor(key, cs)
  BY <1>1, <1>4, KeysAreKeys
<1>7. Keyed(key, cs)
  BY <1>1, <1>5, <1>6, EvidenceKeysOf DEF Keyed
<1> QED  BY <1>3, <1>4, <1>7

\* Both merges of evidence before the probes.
LEMMA BothMerge ==
    ASSUME NEW cs, Unprobed(cs)
    PROVE  LET r == merge_local_omegon_candidates(cs)
           IN  Unprobed(r) /\ OneEach(r) /\ Urls(r) = Urls(cs) /\ UrlsOfOurs(r) = UrlsOfOurs(cs)
<1>1. PICK once, r : once = MergedBy(EvidenceKeys(cs), cs) /\ r = MergedBy(IdentityKeys(once), once)
  OBVIOUS
<1>2. r = merge_local_omegon_candidates(cs)
  BY <1>1 DEF merge_local_omegon_candidates, EvidenceKeys, IdentityKeys
<1>3. \A s, t : MergedTo(t, s) => (Unprobed(s) => Unprobed(t))
  BY DEF MergedTo, Unprobed
<1>4. MergedTo(once, cs)
  BY <1>1, UnprobedKeys, MergeKeeps
<1>5. MergedTo(r, once)
  BY <1>1, <1>3, <1>4, UnprobedKeys, MergeKeeps
<1>6. Unprobed(r)
  BY <1>3, <1>4, <1>5
<1> QED
  BY <1>2, <1>4, <1>5, <1>6 DEF MergedTo

\* A process that listens: on a port of its own, under an identity of its own.
GoodRuntime(k) ==
    k.up => /\ k.port \in ControlPorts /\ k.arg \in {0} \cup ControlPorts
            /\ k.id \in 1..MaxLocalStarts /\ k.born \in 1..starts /\ (k.ours => k.arg = k.port)

RuntimesAreApart ==
    /\ DOMAIN runtime = RuntimePids
    /\ owned \in {0} \cup RuntimePids /\ starts \in 0..MaxLocalStarts
    /\ \A p \in RuntimePids : GoodRuntime(runtime[p])
    /\ \A p, q \in RuntimePids :
          /\ runtime[p].up /\ runtime[q].up /\ p # q
          => runtime[p].port # runtime[q].port /\ runtime[p].id # runtime[q].id

\* The address of the process that was recorded, when ps ran.
RecordedUrls(pid, worked) ==
    IF worked /\ pid # 0 THEN IF runtime[pid].up THEN {runtime[pid].arg} \ {0} ELSE {} ELSE {}

OneOf(S) == CHOOSE p \in S : TRUE

LEMMA WhoAnswers ==
    ASSUME RuntimesAreApart, NEW port \in ControlPorts, NEW answers \in BOOLEAN
    PROVE  \/ ProbedAt(port, answers) = 0 /\ (answers => PidsListening(port) = {})
           \/ \E p \in RuntimePids : /\ answers /\ runtime[p].up /\ runtime[p].port = port
                                     /\ ProbedAt(port, answers) = runtime[p].id
                                     /\ runtime[p].id \in 1..MaxLocalStarts
<1>1. CASE answers /\ PidsListening(port) # {}
  <2>1. PICK p : p = OneOf(PidsListening(port))
    OBVIOUS
  <2>2. p \in PidsListening(port)
    BY <1>1, <2>1 DEF OneOf
  <2>3. ProbedAt(port, answers) = runtime[p].id
    BY <1>1, <2>1 DEF ProbedAt, OneOf
  <2>4. p \in RuntimePids /\ runtime[p].up /\ runtime[p].port = port
    BY <2>2 DEF PidsListening
  <2>5. runtime[p].id \in 1..MaxLocalStarts
    BY <2>4 DEF RuntimesAreApart, GoodRuntime
  <2> QED  BY <1>1, <2>3, <2>4, <2>5
<1>2. CASE ~(answers /\ PidsListening(port) # {})
  BY <1>2 DEF ProbedAt
<1> QED  BY <1>1, <1>2

\* A probe of the port of a runtime that is up is answered by it or not at all; a probe of
\* another port never gives its identity.
LEMMA ListenerIsThere ==
    ASSUME RuntimesAreApart, NEW p \in RuntimePids, runtime[p].up,
           NEW port \in ControlPorts, NEW answers \in BOOLEAN
    PROVE  /\ runtime[p].port = port => ProbedAt(port, answers) = IF answers THEN runtime[p].id ELSE 0
           /\ runtime[p].port # port => ProbedAt(port, answers) # runtime[p].id
<1>1. runtime[p].id \in 1..MaxLocalStarts
  BY DEF RuntimesAreApart, GoodRuntime
<1>2. runtime[p].port = port => p \in PidsListening(port)
  BY DEF PidsListening
<1>3. ASSUME NEW q \in RuntimePids, runtime[q].up, runtime[q].port = port
      PROVE  IF runtime[p].port = port THEN q = p ELSE runtime[q].id # runtime[p].id
  BY <1>3 DEF RuntimesAreApart
<1> QED  BY <1>1, <1>2, <1>3, WhoAnswers

Joins(a, b, c) == c = a \o b

LEMMA TwoLists ==
    ASSUME NEW a, NEW b, Unprobed(a), Unprobed(b), NEW c, Joins(a, b, c)
    PROVE  /\ Unprobed(c) /\ Urls(c) = Urls(a) \cup Urls(b)
           /\ UrlsOfOurs(c) = UrlsOfOurs(a) \cup UrlsOfOurs(b)
<1>1. a \in Seq(Evidence) /\ b \in Seq(Evidence)
  BY DEF Unprobed
<1>2. PICK m \in Nat, n \in Nat : m = Len(a) /\ n = Len(b)
  BY <1>1
<1>3. /\ DOMAIN c = 1..(m + n) /\ DOMAIN a = 1..m /\ DOMAIN b = 1..n
      /\ \A i \in 1..m : c[i] = a[i]
      /\ \A j \in 1..n : c[m + j] = b[j]
  BY <1>1, <1>2, Concatenation DEF Joins
<1>4. \A i \in 1..(m + n) : i \in 1..m \/ \E j \in 1..n : i = m + j
  <2> SUFFICES ASSUME NEW i \in 1..(m + n), i \notin 1..m PROVE \E j \in 1..n : i = m + j
    OBVIOUS
  <2>1. i - m \in 1..n /\ i = m + (i - m)
    BY <1>2
  <2> QED  BY <2>1
<1>5. (\A i \in 1..m : i \in 1..(m + n)) /\ (\A j \in 1..n : m + j \in 1..(m + n))
  BY <1>2
<1>6. c \in Seq(Evidence)
  BY <1>1 DEF Joins
<1>7. \A i \in 1..(m + n) : (\E k \in 1..m : c[i] = a[k]) \/ (\E k \in 1..n : c[i] = b[k])
  BY <1>3, <1>4
<1>8. /\ \A k \in 1..m : \E i \in 1..(m + n) : c[i] = a[k]
      /\ \A k \in 1..n : \E i \in 1..(m + n) : c[i] = b[k]
  BY <1>3, <1>5
<1>9. Unprobed(c)
  <2>1. (\A k \in 1..m : a[k].id = 0) /\ (\A k \in 1..n : b[k].id = 0)
    BY <1>3 DEF Unprobed
  <2>2. ASSUME NEW i \in 1..(m + n) PROVE c[i].id = 0
    <3>1. CASE \E k \in 1..m : c[i] = a[k]
      BY <2>1, <3>1
    <3>2. CASE \E k \in 1..n : c[i] = b[k]
      BY <2>1, <3>2
    <3> QED  BY <1>7, <3>1, <3>2
  <2> QED  BY <1>3, <1>6, <2>2 DEF Unprobed
<1>10. Urls(c) = Urls(a) \cup Urls(b)
  <2>1. \A i \in 1..(m + n) : c[i].url \in {a[k].url : k \in 1..m} \cup {b[k].url : k \in 1..n}
    BY <1>7
  <2>2. /\ \A k \in 1..m : a[k].url \in {c[i].url : i \in 1..(m + n)}
        /\ \A k \in 1..n : b[k].url \in {c[i].url : i \in 1..(m + n)}
    BY <1>8
  <2>3. {c[i].url : i \in 1..(m + n)} = {a[k].url : k \in 1..m} \cup {b[k].url : k \in 1..n}
    BY <2>1, <2>2
  <2> QED  BY <1>3, <2>3 DEF Urls
<1>11. UrlsOfOurs(c) = UrlsOfOurs(a) \cup UrlsOfOurs(b)
  <2> DEFINE O(s, l) == {s[i].url : i \in {j \in 1..l : s[j].own = "AuspexOwned"}}
  <2>1. ASSUME NEW i \in 1..(m + n), c[i].own = "AuspexOwned" PROVE c[i].url \in O(a, m) \cup O(b, n)
    <3>1. CASE \E k \in 1..m : c[i] = a[k]
      BY <2>1, <3>1
    <3>2. CASE \E k \in 1..n : c[i] = b[k]
      BY <2>1, <3>2
    <3> QED  BY <1>7, <3>1, <3>2
  <2>2. /\ \A k \in 1..m : a[k].own = "AuspexOwned" => a[k].url \in O(c, m + n)
        /\ \A k \in 1..n : b[k].own = "AuspexOwned" => b[k].url \in O(c, m + n)
    BY <1>8
  <2>3. O(c, m + n) = O(a, m) \cup O(b, n)
    BY <2>1, <2>2
  <2> QED  BY <1>3, <2>3 DEF UrlsOfOurs
<1> QED  BY <1>9, <1>10, <1>11

LEMMA OwnedPidSaysLittle ==
    ASSUME NEW pid \in {0} \cup RuntimePids, NEW cs, cs = OwnedPidCandidates(pid)
    PROVE  Unprobed(cs) /\ Urls(cs) = {} /\ UrlsOfOurs(cs) = {}
<1>1. CASE pid = 0
  <2>1. cs = <<>>
    BY <1>1 DEF OwnedPidCandidates
  <2>2. cs \in Seq(Evidence) /\ DOMAIN cs = {}
    BY <2>1
  <2> QED  BY <2>2 DEF Unprobed, Urls, UrlsOfOurs
<1>2. CASE pid # 0
  <2>1. PICK c : c = Candidate("AuspexOwned", pid, 0)
    OBVIOUS
  <2>2. c \in Evidence /\ c.url = 0 /\ c.id = 0
    BY <1>2, <2>1, LocalDiscoveryAssumption DEF Candidate, Evidence
  <2>3. cs = <<c>>
    BY <1>2, <2>1 DEF OwnedPidCandidates
  <2>4. cs \in Seq(Evidence) /\ DOMAIN cs = {1} /\ cs[1] = c
    BY <2>2, <2>3
  <2> QED  BY <2>2, <2>4 DEF Unprobed, Urls, UrlsOfOurs
<1> QED  BY <1>1, <1>2

LEMMA ProcessesSayWhatTheyAre ==
    ASSUME RuntimesAreApart, NEW pid \in {0} \cup RuntimePids, NEW worked \in BOOLEAN
    PROVE  LET cs == ProcessCandidates(pid, worked)
           IN  Unprobed(cs) /\ UrlsOfOurs(cs) = RecordedUrls(pid, worked)
<1>1. PICK I : I = {p \in RuntimePids : worked /\ runtime[p].up}
  OBVIOUS
<1>2. PICK N \in Nat : N = MaxPid
  BY LocalDiscoveryAssumption
<1>3. I \subseteq 1..N
  BY <1>1, <1>2 DEF RuntimePids
<1>4. PICK pids, up : pids = [p \in 1..N |-> p] /\ up = SelectAt(pids, I)
  OBVIOUS
<1>5. /\ Len(up) \in Nat /\ DOMAIN up = 1..Len(up)
      /\ \A n \in 1..Len(up) : up[n] \in I
      /\ \A i \in I : \E n \in 1..Len(up) : up[n] = i
  <2>1. Numbers(pids, N)
    BY <1>4 DEF Numbers
  <2>2. Lists(up, I)
    BY <1>3, <1>4, <2>1, InOrder, Zenon
  <2> QED  BY <2>2 DEF Lists
<1>6. PICK l \in Nat : l = Len(up) /\ DOMAIN up = 1..l
  BY <1>5
<1>7. PICK cs : cs = [n \in 1..l |-> Candidate(IF up[n] = pid THEN "AuspexOwned" ELSE "UserOwned",
                                               up[n], runtime[up[n]].arg)]
  OBVIOUS
<1>8. cs = ProcessCandidates(pid, worked)
  BY <1>1, <1>2, <1>4, <1>6, <1>7 DEF ProcessCandidates, RuntimePids
<1>9. \A n \in 1..l : /\ cs[n].own = (IF up[n] = pid THEN "AuspexOwned" ELSE "UserOwned")
                      /\ cs[n].url = runtime[up[n]].arg /\ cs[n].id = 0
  BY <1>7 DEF Candidate
<1>10. \A n \in 1..l : worked /\ up[n] \in RuntimePids /\ runtime[up[n]].up
  BY <1>1, <1>5, <1>6
<1>11. ASSUME NEW n \in 1..l PROVE cs[n] \in Evidence
  <2>1. PICK p \in RuntimePids : p = up[n] /\ runtime[p].up
    BY <1>10
  <2>2. PICK a \in {0} \cup ControlPorts : a = runtime[p].arg
    BY <2>1 DEF RuntimesAreApart, GoodRuntime
  <2>3. PICK own \in {"AuspexOwned", "UserOwned"} : own = IF up[n] = pid THEN "AuspexOwned" ELSE "UserOwned"
    OBVIOUS
  <2>4. cs[n] = [own |-> own, pid |-> p, url |-> a, id |-> 0]
    BY <1>7, <2>1, <2>2, <2>3 DEF Candidate
  <2>5. p # 0 /\ 0 \in 0..MaxLocalStarts
    BY LocalDiscoveryAssumption DEF RuntimePids
  <2> QED  BY <2>4, <2>5 DEF Evidence
<1>12. DOMAIN cs = 1..l /\ cs \in Seq(Evidence)
  BY <1>7, <1>11
<1>13. Unprobed(cs)
  BY <1>9, <1>12 DEF Unprobed
<1>14. UrlsOfOurs(cs) = RecordedUrls(pid, worked)
  <2>1. UrlsOfOurs(cs) = {cs[n].url : n \in {k \in 1..l : up[k] = pid}} \ {0}
    BY <1>9, <1>12 DEF UrlsOfOurs
  <2>2. CASE pid # 0 /\ worked
    <3>1. pid \in RuntimePids
      BY <2>2
    <3>2. CASE runtime[pid].up
      <4>1. pid \in I
        BY <1>1, <2>2, <3>1, <3>2
      <4>2. PICK k \in 1..l : up[k] = pid
        BY <1>5, <1>6, <4>1
      <4> QED  BY <1>9, <2>1, <2>2, <3>2, <4>2 DEF RecordedUrls
    <3>3. CASE ~runtime[pid].up
      BY <1>10, <2>1, <2>2, <3>3 DEF RecordedUrls
    <3> QED  BY <3>2, <3>3
  <2>3. CASE pid = 0 \/ ~worked
    <3>1. \A k \in 1..l : worked /\ up[k] # 0
      BY <1>10 DEF RuntimePids
    <3>2. \A k \in 1..l : up[k] # pid
      BY <2>3, <3>1
    <3> QED  BY <2>1, <2>3, <3>2 DEF RecordedUrls
  <2> QED  BY <2>2, <2>3
<1> QED  BY <1>8, <1>13, <1>14

LEMMA PortsSayNothingOfOwners ==
    ASSUME NEW ports, ports \subseteq ControlPorts
    PROVE  LET cs == discover_known_control_port_candidates(ports)
           IN  Unprobed(cs) /\ Urls(cs) = ports /\ UrlsOfOurs(cs) = {}
<1>1. PICK N \in Nat : N = MaxControlPort
  BY LocalDiscoveryAssumption
<1>2. ports \subseteq 1..N
  BY <1>1 DEF ControlPorts
<1>3. PICK all, sorted : all = [q \in 1..N |-> q] /\ sorted = SelectAt(all, ports)
  OBVIOUS
<1>4. /\ Len(sorted) \in Nat /\ DOMAIN sorted = 1..Len(sorted)
      /\ \A n \in 1..Len(sorted) : sorted[n] \in ports
      /\ \A i \in ports : \E n \in 1..Len(sorted) : sorted[n] = i
  <2>1. Numbers(all, N)
    BY <1>3 DEF Numbers
  <2>2. Lists(sorted, ports)
    BY <1>2, <1>3, <2>1, InOrder, Zenon
  <2> QED  BY <2>2 DEF Lists
<1>5. PICK l \in Nat : l = Len(sorted) /\ DOMAIN sorted = 1..l
  BY <1>4
<1>6. PICK cs : cs = [n \in 1..l |-> Candidate("Unknown", 0, sorted[n])]
  OBVIOUS
<1>7. cs = discover_known_control_port_candidates(ports)
  BY <1>1, <1>3, <1>5, <1>6 DEF discover_known_control_port_candidates, ControlPorts
<1>8. DOMAIN cs = 1..l /\ \A n \in 1..l : cs[n].own = "Unknown" /\ cs[n].url = sorted[n] /\ cs[n].id = 0
  BY <1>6 DEF Candidate
<1>9. 0 \notin ControlPorts /\ 0 \in 0..MaxLocalStarts
  BY LocalDiscoveryAssumption DEF ControlPorts
<1>10. ASSUME NEW n \in 1..l PROVE cs[n] \in Evidence
  <2>1. PICK u \in ControlPorts : u = sorted[n] /\ u # 0
    BY <1>4, <1>5, <1>9
  <2>2. cs[n] = [own |-> "Unknown", pid |-> 0, url |-> u, id |-> 0]
    BY <1>6, <2>1 DEF Candidate
  <2> QED  BY <1>9, <2>1, <2>2 DEF Evidence
<1>11. cs \in Seq(Evidence)
  BY <1>6, <1>8, <1>10
<1>12. Unprobed(cs)
  BY <1>8, <1>11 DEF Unprobed
<1>13. Urls(cs) = ports
  BY <1>4, <1>5, <1>8, <1>9 DEF Urls
<1>14. UrlsOfOurs(cs) = {}
  BY <1>8 DEF UrlsOfOurs
<1> QED  BY <1>7, <1>12, <1>13, <1>14

\* What is probed: every address once.
Candidates(cs) ==
    /\ cs \in Seq(Evidence) /\ OneEach(cs) /\ Urls(cs) = ControlPorts
    /\ \A i \in DOMAIN cs : cs[i].url # 0

IsAddressed(some, found) == some = SelectAt(found, {i \in DOMAIN found : found[i].url # 0})

LEMMA AddressedOnly ==
    ASSUME NEW found, Unprobed(found), OneEach(found), NEW some, IsAddressed(some, found)
    PROVE  /\ Unprobed(some) /\ OneEach(some) /\ Urls(some) = Urls(found)
           /\ UrlsOfOurs(some) = UrlsOfOurs(found) /\ \A i \in DOMAIN some : some[i].url # 0
<1>1. PICK I : I = {i \in DOMAIN found : found[i].url # 0}
  OBVIOUS
<1>0. some = SelectAt(found, I)
  BY <1>1 DEF IsAddressed
<1>2. found \in Seq(Evidence) /\ \A i \in DOMAIN found : found[i] \in Evidence /\ found[i].id = 0
  BY DEF Unprobed
<1>3. PICK n \in Nat : n = Len(found) /\ DOMAIN found = 1..n
  BY <1>2
<1>4. some \in Seq(Evidence) /\ Selected(some, found, n, I)
  BY <1>0, <1>2, <1>3, SelectAtTakes
<1>5. PICK l \in Nat : l = Len(some) /\ DOMAIN some = 1..l
  BY <1>4
<1>6. PICK p : Takes(p, l, n, I) /\ \A k \in 1..l : some[k] = found[p[k]]
  BY <1>4, <1>5 DEF Selected
<1>7. /\ \A k \in 1..l : p[k] \in I
      /\ \A i \in I : \E k \in 1..l : p[k] = i
      /\ \A k, m \in 1..l : k < m => p[k] < p[m]
  BY <1>1, <1>3, <1>6 DEF Takes
<1>8. (\A k \in 1..l : \E i \in I : some[k] = found[i]) /\ (\A i \in I : \E k \in 1..l : some[k] = found[i])
  BY <1>6, <1>7
<1>9. \A k \in 1..l : some[k].url # 0 /\ some[k].id = 0
  BY <1>1, <1>2, <1>8
<1>10. OneEach(some)
  <2> SUFFICES ASSUME NEW k \in 1..l, NEW m \in 1..l, some[k].url = some[m].url PROVE k = m
    BY <1>5 DEF OneEach
  <2>1. p[k] \in DOMAIN found /\ p[m] \in DOMAIN found /\ found[p[k]].url # 0
    BY <1>1, <1>7
  <2>2. p[k] = p[m]
    BY <1>6, <2>1 DEF OneEach
  <2>3. p[k] \in Nat
    BY <1>3, <2>1
  <2> QED  BY <1>5, <1>7, <2>2, <2>3
<1>11. Urls(some) = Urls(found)
  <2>1. Urls(some) = {some[k].url : k \in 1..l} \ {0}
    BY <1>5 DEF Urls
  <2>2. Urls(found) = {found[i].url : i \in I} \ {0}
    BY <1>1 DEF Urls
  <2>3. {some[k].url : k \in 1..l} = {found[i].url : i \in I}
    BY <1>8
  <2> QED  BY <2>1, <2>2, <2>3
<1>12. UrlsOfOurs(some) = UrlsOfOurs(found)
  <2>1. UrlsOfOurs(some) = {some[k].url : k \in {j \in 1..l : some[j].own = "AuspexOwned"}} \ {0}
    BY <1>5 DEF UrlsOfOurs
  <2>2. UrlsOfOurs(found) = {found[i].url : i \in {j \in I : found[j].own = "AuspexOwned"}} \ {0}
    BY <1>1 DEF UrlsOfOurs
  <2>3. {some[k].url : k \in {j \in 1..l : some[j].own = "AuspexOwned"}}
        = {found[i].url : i \in {j \in I : found[j].own = "AuspexOwned"}}
    BY <1>8
  <2> QED  BY <2>1, <2>2, <2>3
<1>13. Unprobed(some)
  BY <1>4, <1>5, <1>9 DEF Unprobed
<1> QED  BY <1>5, <1>9, <1>10, <1>11, <1>12, <1>13

LEMMA AttachCandidates ==
    ASSUME RuntimesAreApart, NEW pid \in {0} \cup RuntimePids, NEW worked \in BOOLEAN
    PROVE  LET cs == discover_attach_candidates(pid, worked)
           IN  Candidates(cs) /\ Unprobed(cs) /\ UrlsOfOurs(cs) = RecordedUrls(pid, worked)
<1>1. PICK a, b, c, d : /\ a = OwnedPidCandidates(pid) /\ b = ProcessCandidates(pid, worked)
                        /\ c = discover_known_control_port_candidates({DefaultControlPort})
                        /\ d = discover_known_control_port_candidates(ControlPorts)
  OBVIOUS
<1>2. Unprobed(a) /\ Urls(a) = {} /\ UrlsOfOurs(a) = {}
  BY <1>1, OwnedPidSaysLittle
<1>3. Unprobed(b) /\ UrlsOfOurs(b) = RecordedUrls(pid, worked)
  BY <1>1, ProcessesSayWhatTheyAre
<1>4. {DefaultControlPort} \subseteq ControlPorts
  BY LocalDiscoveryAssumption DEF DefaultControlPort, ControlPorts
<1>5. Unprobed(c) /\ UrlsOfOurs(c) = {}
  BY <1>1, <1>4, PortsSayNothingOfOwners
<1>6. Unprobed(d) /\ Urls(d) = ControlPorts /\ UrlsOfOurs(d) = {}
  BY <1>1, PortsSayNothingOfOwners
<1>7. \A s : Unprobed(s) => Urls(s) \subseteq ControlPorts
  BY DEF Unprobed, Urls, Evidence
<1>8. PICK ab : ab = a \o b /\ Joins(a, b, ab)
  BY DEF Joins
<1>9. Unprobed(ab) /\ UrlsOfOurs(ab) = RecordedUrls(pid, worked)
  <2>1. Unprobed(ab) /\ UrlsOfOurs(ab) = UrlsOfOurs(a) \cup UrlsOfOurs(b)
    BY <1>2, <1>3, <1>8, TwoLists, Zenon
  <2> QED  BY <1>2, <1>3, <2>1
<1>10. PICK abc : abc = ab \o c /\ Joins(ab, c, abc)
  BY DEF Joins
<1>11. Unprobed(abc) /\ UrlsOfOurs(abc) = RecordedUrls(pid, worked)
  <2>1. Unprobed(abc) /\ UrlsOfOurs(abc) = UrlsOfOurs(ab) \cup UrlsOfOurs(c)
    BY <1>5, <1>9, <1>10, TwoLists, Zenon
  <2> QED  BY <1>5, <1>9, <2>1
<1>12. PICK local : local = merge_local_omegon_candidates(abc)
  OBVIOUS
<1>13. local = discover_local_omegon_candidates(pid, worked)
  BY <1>1, <1>8, <1>10, <1>12 DEF discover_local_omegon_candidates
<1>14. Unprobed(local) /\ UrlsOfOurs(local) = RecordedUrls(pid, worked)
  BY <1>11, <1>12, BothMerge
<1>15. PICK all : all = local \o d /\ Joins(local, d, all)
  BY DEF Joins
<1>16. Unprobed(all) /\ UrlsOfOurs(all) = RecordedUrls(pid, worked) /\ Urls(all) = ControlPorts
  <2>1. /\ Unprobed(all) /\ Urls(all) = Urls(local) \cup Urls(d)
        /\ UrlsOfOurs(all) = UrlsOfOurs(local) \cup UrlsOfOurs(d)
    BY <1>6, <1>14, <1>15, TwoLists, Zenon
  <2>2. Urls(local) \subseteq ControlPorts
    BY <1>7, <1>14
  <2> QED  BY <1>6, <1>14, <2>1, <2>2
<1>17. PICK found, some : /\ found = merge_local_omegon_candidates(all)
                          /\ some = SelectAt(found, {i \in DOMAIN found : found[i].url # 0})
  OBVIOUS
<1>18. some = discover_attach_candidates(pid, worked)
  BY <1>1, <1>13, <1>15, <1>17 DEF discover_attach_candidates, default_detect_scan_ports
<1>19. /\ Unprobed(found) /\ OneEach(found) /\ Urls(found) = ControlPorts
       /\ UrlsOfOurs(found) = RecordedUrls(pid, worked)
  BY <1>16, <1>17, BothMerge
<1>20. /\ Unprobed(some) /\ OneEach(some) /\ Urls(some) = ControlPorts
       /\ UrlsOfOurs(some) = RecordedUrls(pid, worked) /\ \A i \in DOMAIN some : some[i].url # 0
  BY <1>17, <1>19, AddressedOnly DEF IsAddressed
<1> QED  BY <1>18, <1>20 DEF Candidates, Unprobed

\* What candidate i says of a runtime p that was up all the time: its address, its identity
\* once its probe was answered, its owner; and no other candidate speaks of it.
Shows(cs, read, p, i, known) ==
    /\ i \in DOMAIN cs /\ cs[i].url = runtime[p].port
    /\ cs[i].id = IF known /\ runtime[p].port \notin read.silent THEN runtime[p].id ELSE 0
    /\ known \/ runtime[p].port \notin read.silent
    /\ ~read.reused => (cs[i].own = "AuspexOwned" <=> read.pid = p)
    /\ \A j \in DOMAIN cs \ {i} : cs[j].url # runtime[p].port /\ cs[j].id # runtime[p].id

Reads == [began : 0..MaxLocalStarts, pid : {0} \cup RuntimePids, reused : BOOLEAN,
          silent : SUBSET ControlPorts]

Gathered(cs, n, read) ==
    /\ Candidates(cs) /\ n \in 0..Len(cs)
    /\ \A p \in RuntimePids : SteadySince(read, p) => \E i \in DOMAIN cs : Shows(cs, read, p, i, i <= n)

\* What cards say.
Listed(cs, read) ==
    /\ cs \in Seq(Evidence) /\ \A i \in DOMAIN cs : cs[i].url # 0
    /\ \A i, j \in DOMAIN cs : cs[i].id # 0 /\ cs[i].id = cs[j].id => i = j
    /\ \A p \in RuntimePids : SteadySince(read, p) => \E i \in DOMAIN cs : Shows(cs, read, p, i, TRUE)

\* The candidate a click goes on with is at the address of the card's runtime.
Found(card, cs) ==
    /\ Len(cs) = 1 /\ cs \in Seq(Evidence) /\ cs[1].url # 0
    /\ \A p \in RuntimePids :
          SteadySince(listing, p) /\ runtime[p].port = card.url => cs[1].url = runtime[p].port

ScanRecords ==
    [phase : {"idle", "ps", "probe", "attach"}, for : Evidence \cup {NoCard}, read : Reads,
     list : Seq(Evidence), probed : Nat, attached : 0..MaxLocalStarts]

Clicked(s) == s.phase # "idle" /\ s.for # NoCard

\* The inductive invariant.
DiscoveryInv ==
    /\ RuntimesAreApart
    /\ scan \in ScanRecords /\ listing \in Reads
    /\ scan.phase # "idle" => scan.attached = 0
    /\ scan.phase \in {"ps", "probe"} => scan.read.began <= starts
    /\ scan.phase = "ps" => scan.read.silent = {} /\ scan.probed = 0
    /\ scan.phase = "probe" => Gathered(scan.list, scan.probed, scan.read)
    /\ scan.phase = "attach" => Found(scan.for, scan.list)
    /\ listing.began <= starts
    /\ Listed(cards, listing)
    /\ Clicked(scan) => \E i \in DOMAIN cards : scan.for = cards[i]
    /\ Clicked(scan) /\ scan.phase # "attach" => listing.began <= scan.read.began

\* The candidate of such a runtime is alone under its keys.
LEMMA SteadyIsAlone ==
    ASSUME RuntimesAreApart, NEW cs \in Seq(Evidence), \A i \in DOMAIN cs : cs[i].url # 0,
           NEW read, NEW p \in RuntimePids, runtime[p].up, NEW i, Shows(cs, read, p, i, TRUE)
    PROVE  Alone(EvidenceKeys(cs), cs, i) /\ Alone(IdentityKeys(cs), cs, i)
<1>1. PICK ek, ik : ek = EvidenceKeys(cs) /\ ik = IdentityKeys(cs)
  OBVIOUS
<1>2. i \in DOMAIN cs /\ \A j \in DOMAIN cs : cs[j] \in Evidence /\ cs[j].url # 0 /\ cs[j].id \in 0..MaxLocalStarts
  BY DEF Shows, Evidence
<1>3. \A j \in DOMAIN cs : /\ ek[j] = candidate_evidence_key(cs[j])
                          /\ ik[j] = IF cs[j].id # 0 THEN cs[j].id ELSE ek[j]
  BY <1>1 DEF EvidenceKeys, IdentityKeys, candidate_identity_key
<1>4. \A j \in DOMAIN cs : ek[j] > MaxLocalStarts /\ ek[j] \in MergeKeys /\ (ek[j] = ek[i] => cs[j].url = cs[i].url)
  BY <1>2, <1>3, EvidenceKeysOf
<1>5. ASSUME NEW j \in DOMAIN cs \ {i} PROVE cs[j].url # cs[i].url /\ (cs[i].id # 0 => cs[j].id # cs[i].id)
  BY DEF Shows
<1>6. Alone(ek, cs, i)
  BY <1>4, <1>5 DEF Alone
<1>7. ASSUME NEW j \in DOMAIN cs \ {i}, ik[j] = ik[i] PROVE FALSE
  <2>1. ek[j] \in Nat /\ ek[i] \in Nat /\ MaxLocalStarts \in Nat
    BY <1>2, <1>4, LocalDiscoveryAssumption DEF MergeKeys
  <2>2. CASE cs[i].id = 0
    BY <1>2, <1>3, <1>4, <1>5, <1>7, <2>1, <2>2
  <2>3. CASE cs[i].id # 0
    BY <1>2, <1>3, <1>4, <1>5, <1>7, <2>1, <2>3
  <2> QED  BY <2>2, <2>3
<1>8. Alone(ik, cs, i)
  BY <1>7 DEF Alone
<1> QED  BY <1>1, <1>6, <1>8

LEMMA KeptStillShows ==
    ASSUME NEW cs, NEW r, NEW n, NEW i, KeptAt(r, n, cs, i),
           NEW read, NEW p, Shows(cs, read, p, i, TRUE)
    PROVE  Shows(r, read, p, n, TRUE)
BY DEF KeptAt, Shows

LEMMA AddressesStay ==
    ASSUME NEW key, NEW cs, KeysFor(key, cs), \A i \in DOMAIN cs : cs[i].url # 0
    PROVE  /\ MergedBy(key, cs) \in Seq(Evidence)
           /\ \A n \in DOMAIN MergedBy(key, cs) : MergedBy(key, cs)[n].url # 0
<1>1. PICK r, ks : r = MergedBy(key, cs) /\ Grouped(r, ks, key, cs)
  BY MergeGroups
<1>2. r \in Seq(Evidence) /\ \A n \in DOMAIN r : \E i \in DOMAIN cs : r[n].url = cs[i].url
  BY <1>1 DEF Grouped
<1>3. \A n \in DOMAIN r : r[n].url # 0
  BY <1>2
<1> QED  BY <1>1, <1>2, <1>3

\* The last two merges keep what is said of a runtime that was up all the time.
LEMMA EnrichedIsShown ==
    ASSUME RuntimesAreApart, NEW cs, NEW n, NEW read, Gathered(cs, n, read), n = Len(cs)
    PROVE  Listed(merge_local_omegon_candidates(cs), read)
<1>1. PICK once, r : once = MergedBy(EvidenceKeys(cs), cs) /\ r = MergedBy(IdentityKeys(once), once)
  OBVIOUS
<1>2. r = merge_local_omegon_candidates(cs)
  BY <1>1 DEF merge_local_omegon_candidates, EvidenceKeys, IdentityKeys
<1>3. cs \in Seq(Evidence) /\ \A i \in DOMAIN cs : cs[i].url # 0
  BY DEF Gathered, Candidates
<1>4. once \in Seq(Evidence) /\ \A i \in DOMAIN once : once[i].url # 0
  BY <1>1, <1>3, KeysAreKeys, AddressesStay
<1>5. r \in Seq(Evidence) /\ \A i \in DOMAIN r : r[i].url # 0
  BY <1>1, <1>4, KeysAreKeys, AddressesStay
<1>6. ASSUME NEW k \in DOMAIN r, NEW m \in DOMAIN r, r[k].id # 0, r[k].id = r[m].id PROVE k = m
  <2>1. PICK key : key = IdentityKeys(once)
    OBVIOUS
  <2>2. KeysFor(key, once)
    BY <1>4, <2>1, KeysAreKeys
  <2>3. PICK ks : Grouped(r, ks, key, once)
    BY <1>1, <2>1, <2>2, MergeGroups
  <2>4. \A i \in DOMAIN once : once[i].id # 0 => key[i] = once[i].id
    BY <2>1 DEF IdentityKeys, candidate_identity_key
  <2>5. \A l \in DOMAIN r : \E i \in DOMAIN once : key[i] = ks[l] /\ r[l].id = once[i].id
    BY <2>3 DEF Grouped
  <2>6. ks[k] = r[k].id /\ ks[m] = r[m].id
    <3>1. PICK i \in DOMAIN once : key[i] = ks[k] /\ r[k].id = once[i].id
      BY <2>5
    <3>2. PICK j \in DOMAIN once : key[j] = ks[m] /\ r[m].id = once[j].id
      BY <2>5
    <3>3. once[i].id # 0 /\ once[j].id # 0
      BY <1>6, <3>1, <3>2
    <3>4. key[i] = once[i].id /\ key[j] = once[j].id
      BY <2>4, <3>3, Zenon
    <3> QED  BY <3>1, <3>2, <3>4
  <2>7. \A u, v \in DOMAIN r : ks[u] = ks[v] => u = v
    BY <2>3 DEF Grouped
  <2> QED  BY <1>6, <2>6, <2>7
<1>7. ASSUME NEW p \in RuntimePids, SteadySince(read, p) PROVE \E i \in DOMAIN r : Shows(r, read, p, i, TRUE)
  <2>1. PICK i \in DOMAIN cs : Shows(cs, read, p, i, i <= n)
    BY <1>7 DEF Gathered
  <2>2. i <= n
    BY <1>3
  <2>3. Shows(cs, read, p, i, TRUE) /\ runtime[p].up
    BY <1>7, <2>1, <2>2 DEF SteadySince, Shows
  <2>4. PICK j : KeptAt(once, j, cs, i)
    BY <1>1, <1>3, <2>3, SteadyIsAlone, KeysAreKeys, AloneIsKept
  <2>5. Shows(once, read, p, j, TRUE)
    BY <2>3, <2>4, KeptStillShows
  <2>6. j \in DOMAIN once
    BY <2>5 DEF Shows
  <2>7. PICK k : KeptAt(r, k, once, j)
    BY <1>1, <1>4, <2>3, <2>5, <2>6, SteadyIsAlone, KeysAreKeys, AloneIsKept
  <2>8. Shows(r, read, p, k, TRUE)
    BY <2>5, <2>7, KeptStillShows
  <2> QED  BY <2>8 DEF Shows
<1> QED  BY <1>2, <1>5, <1>6, <1>7 DEF Listed

LEMMA DiscoveryInitially == LdInit => DiscoveryInv
<1> SUFFICES ASSUME LdInit PROVE DiscoveryInv
  OBVIOUS
<1>1. \A p \in RuntimePids : runtime[p].up = FALSE
  BY DEF LdInit, Gone
<1>2. DOMAIN runtime = RuntimePids /\ owned = 0 /\ starts = 0 /\ scan = NoScan /\ cards = <<>> /\ listing = NothingRead
  BY DEF LdInit
<1>3. 0 \in 0..MaxLocalStarts /\ MaxLocalStarts \in Nat
  BY LocalDiscoveryAssumption
<1>4. RuntimesAreApart
  BY <1>1, <1>2, <1>3 DEF RuntimesAreApart, GoodRuntime
<1>5. NothingRead \in Reads /\ NothingRead.began = 0
  BY <1>3 DEF NothingRead, Reads
<1>6. <<>> \in Seq(Evidence) /\ DOMAIN <<>> = {}
  OBVIOUS
<1>7. NoScan \in ScanRecords /\ NoScan.phase = "idle"
  BY <1>3, <1>5, <1>6 DEF NoScan, ScanRecords
<1>8. Listed(cards, listing)
  BY <1>1, <1>2, <1>6 DEF Listed, SteadySince
<1> QED  BY <1>2, <1>3, <1>4, <1>5, <1>7, <1>8 DEF DiscoveryInv, Clicked

\* A process starts or ends, and the discovery and the cards are as they were.
LEMMA ProcessesMove ==
    ASSUME DiscoveryInv, RuntimesAreApart', UNCHANGED <<scan, cards, listing>>,
           starts' \in {starts, starts + 1},
           \A q \in RuntimePids : runtime'[q].up /\ runtime'[q].born <= starts => runtime'[q] = runtime[q]
    PROVE  DiscoveryInv'
<1>1. starts \in Nat /\ starts <= starts'
  BY LocalDiscoveryAssumption DEF DiscoveryInv, RuntimesAreApart
<1>2. ASSUME NEW read, read.began \in 0..MaxLocalStarts, read.began <= starts, NEW q \in RuntimePids, SteadySince(read, q)'
      PROVE  SteadySince(read, q) /\ runtime'[q] = runtime[q]
  <2>1. runtime'[q].up /\ runtime'[q].born <= read.began
    BY <1>2 DEF SteadySince
  <2>2. runtime'[q].born \in Nat /\ read.began \in Nat
    BY <1>2, <2>1, LocalDiscoveryAssumption DEF RuntimesAreApart, GoodRuntime
  <2>3. runtime'[q] = runtime[q]
    BY <1>1, <1>2, <2>1, <2>2
  <2> QED  BY <2>1, <2>3 DEF SteadySince
<1>3. ASSUME NEW read, read.began \in 0..MaxLocalStarts, read.began <= starts, NEW cs, NEW n, Gathered(cs, n, read)
      PROVE  Gathered(cs, n, read)'
  <2>1. \A q \in RuntimePids : \A i, k : runtime'[q] = runtime[q] => (Shows(cs, read, q, i, k) => Shows(cs, read, q, i, k)')
    BY DEF Shows
  <2> QED  BY <1>2, <1>3, <2>1 DEF Gathered, Candidates
<1>4. ASSUME NEW read, read.began \in 0..MaxLocalStarts, read.began <= starts, NEW cs, Listed(cs, read)
      PROVE  Listed(cs, read)'
  <2>1. \A q \in RuntimePids : \A i, k : runtime'[q] = runtime[q] => (Shows(cs, read, q, i, k) => Shows(cs, read, q, i, k)')
    BY DEF Shows
  <2> QED  BY <1>2, <1>4, <2>1 DEF Listed
<1>5. PICK s, c, l : s = scan /\ c = cards /\ l = listing
  OBVIOUS
<1>6. scan' = s /\ cards' = c /\ listing' = l
  BY <1>5
<1>7. l.began \in 0..MaxLocalStarts /\ l.began <= starts /\ s.read.began \in 0..MaxLocalStarts
      /\ s \in ScanRecords /\ l \in Reads
  BY <1>5 DEF DiscoveryInv, Reads, ScanRecords
<1>8. Listed(c, l)'
  BY <1>4, <1>5, <1>7 DEF DiscoveryInv
<1>9. ASSUME s.phase = "probe" PROVE Gathered(s.list, s.probed, s.read)'
  BY <1>3, <1>5, <1>7, <1>9 DEF DiscoveryInv
<1>10. ASSUME s.phase = "attach" PROVE Found(s.for, s.list)'
  <2>1. Found(s.for, s.list)
    BY <1>5, <1>10 DEF DiscoveryInv
  <2>2. \A q \in RuntimePids : SteadySince(l, q)' => SteadySince(l, q) /\ runtime'[q] = runtime[q]
    BY <1>2, <1>7
  <2> QED  BY <1>5, <1>6, <2>1, <2>2 DEF Found, SteadySince
<1>11. /\ s.phase # "idle" => s.attached = 0
       /\ s.phase \in {"ps", "probe"} => s.read.began <= starts
       /\ s.phase = "ps" => s.read.silent = {} /\ s.probed = 0
       /\ Clicked(s) => \E i \in DOMAIN c : s.for = c[i]
       /\ Clicked(s) /\ s.phase # "attach" => l.began <= s.read.began
  BY <1>5 DEF DiscoveryInv
<1>12. l.began <= starts' /\ (s.phase \in {"ps", "probe"} => s.read.began <= starts')
  <2>1. l.began \in Nat /\ s.read.began \in Nat /\ starts' \in Nat
    BY <1>1, <1>7, LocalDiscoveryAssumption
  <2> QED  BY <1>1, <1>7, <1>11, <2>1
<1> QED
  BY <1>6, <1>7, <1>8, <1>9, <1>10, <1>11, <1>12 DEF DiscoveryInv, Clicked

LEMMA StartKeepsDiscovery ==
    ASSUME DiscoveryInv, NEW p \in RuntimePids, NEW port \in ControlPorts, NEW arg \in {0} \cup ControlPorts,
           NEW id \in 1..MaxLocalStarts, NEW ours \in BOOLEAN, StartsRuntime(p, port, arg, id, ours)
    PROVE  DiscoveryInv'
<1>1. PICK k : k = [up |-> TRUE, arg |-> arg, port |-> port, id |-> id, born |-> starts + 1, ours |-> ours]
  OBVIOUS
<1>2. runtime' = [runtime EXCEPT ![p] = k] /\ starts' = starts + 1 /\ UNCHANGED <<scan, cards, listing>>
  BY <1>1 DEF StartsRuntime
<1>3. k.up = TRUE /\ k.arg = arg /\ k.port = port /\ k.id = id /\ k.born = starts + 1 /\ k.ours = ours
  BY <1>1
<1>4. /\ starts < MaxLocalStarts /\ (ours => arg = port) /\ PidsListening(port) = {} /\ ~runtime[p].up
      /\ \A q \in RuntimePids : runtime[q].id # id
  BY DEF StartsRuntime
<1>5. /\ DOMAIN runtime = RuntimePids /\ owned \in {0} \cup RuntimePids /\ starts \in 0..MaxLocalStarts
      /\ \A q \in RuntimePids : GoodRuntime(runtime[q])
      /\ \A q, r \in RuntimePids :
            /\ runtime[q].up /\ runtime[r].up /\ q # r
            => runtime[q].port # runtime[r].port /\ runtime[q].id # runtime[r].id
  BY DEF DiscoveryInv, RuntimesAreApart
<1>6. DOMAIN runtime' = RuntimePids /\ runtime'[p] = k /\ \A q \in RuntimePids : q # p => runtime'[q] = runtime[q]
  BY <1>2, <1>5
<1>7. owned' \in {0} \cup RuntimePids /\ starts' \in 0..MaxLocalStarts
  <2>1. owned' = p \/ owned' = owned
    BY DEF StartsRuntime
  <2>2. starts' \in 0..MaxLocalStarts
    BY <1>2, <1>4, <1>5, LocalDiscoveryAssumption
  <2> QED  BY <1>5, <2>1, <2>2
<1>8. \A q \in RuntimePids : runtime[q].up => runtime[q].port # port /\ runtime[q].id # id /\ runtime[q].born \in 1..starts
  BY <1>4, <1>5 DEF PidsListening, GoodRuntime
<1>9. \A i \in 1..starts : i \in 1..(starts + 1)
  BY <1>5, LocalDiscoveryAssumption
<1>10. ASSUME NEW q \in RuntimePids PROVE GoodRuntime(runtime[q])'
  <2>1. CASE q = p
    <3>1. starts + 1 \in 1..(starts + 1)
      BY <1>5
    <3> QED  BY <1>2, <1>3, <1>4, <1>6, <2>1, <3>1 DEF GoodRuntime
  <2>2. CASE q # p
    BY <1>2, <1>5, <1>6, <1>8, <1>9, <2>2 DEF GoodRuntime
  <2> QED  BY <2>1, <2>2
<1>11. ASSUME NEW q \in RuntimePids, NEW r \in RuntimePids, runtime'[q].up, runtime'[r].up, q # r
       PROVE  runtime'[q].port # runtime'[r].port /\ runtime'[q].id # runtime'[r].id
  <2>1. CASE q # p /\ r # p
    BY <1>5, <1>6, <1>11, <2>1
  <2>2. CASE q = p
    BY <1>3, <1>6, <1>8, <1>11, <2>2
  <2>3. CASE r = p
    BY <1>3, <1>6, <1>8, <1>11, <2>3
  <2> QED  BY <2>1, <2>2, <2>3
<1>12. RuntimesAreApart'
  BY <1>6, <1>7, <1>10, <1>11 DEF RuntimesAreApart
<1>13. ~(starts + 1 <= starts)
  BY <1>5, LocalDiscoveryAssumption
<1>14. \A q \in RuntimePids : runtime'[q].up /\ runtime'[q].born <= starts => runtime'[q] = runtime[q]
  BY <1>3, <1>6, <1>13
<1> QED  BY <1>2, <1>12, <1>14, ProcessesMove

LEMMA StopKeepsDiscovery ==
    ASSUME DiscoveryInv, NEW p \in RuntimePids, NEW cleared \in BOOLEAN, StopsRuntime(p, cleared)
    PROVE  DiscoveryInv'
<1>1. runtime' = [runtime EXCEPT ![p] = Gone] /\ UNCHANGED <<scan, cards, listing, starts>>
  BY DEF StopsRuntime
<1>2. owned' = 0 \/ owned' = owned
  BY DEF StopsRuntime
<1>3. Gone.up = FALSE
  BY DEF Gone
<1>4. /\ DOMAIN runtime = RuntimePids /\ owned \in {0} \cup RuntimePids /\ starts \in 0..MaxLocalStarts
      /\ \A q \in RuntimePids : GoodRuntime(runtime[q])
      /\ \A q, r \in RuntimePids :
            /\ runtime[q].up /\ runtime[r].up /\ q # r
            => runtime[q].port # runtime[r].port /\ runtime[q].id # runtime[r].id
  BY DEF DiscoveryInv, RuntimesAreApart
<1>5. /\ DOMAIN runtime' = RuntimePids /\ ~runtime'[p].up
      /\ \A q \in RuntimePids : q # p => runtime'[q] = runtime[q]
  BY <1>1, <1>3, <1>4
<1>6. \A q \in RuntimePids : GoodRuntime(runtime[q])'
  BY <1>1, <1>4, <1>5 DEF GoodRuntime
<1>7. RuntimesAreApart'
  BY <1>1, <1>2, <1>4, <1>5, <1>6 DEF RuntimesAreApart
<1>8. \A q \in RuntimePids : runtime'[q].up => runtime'[q] = runtime[q]
  BY <1>5
<1> QED  BY <1>1, <1>7, <1>8, ProcessesMove

\* The processes are as they were: what is known of them stays.
LEMMA SameRuntimes ==
    ASSUME UNCHANGED <<runtime, owned, starts>>, RuntimesAreApart
    PROVE  /\ RuntimesAreApart'
           /\ \A cs, n, read : Gathered(cs, n, read) => Gathered(cs, n, read)'
           /\ \A cs, read : Listed(cs, read) => Listed(cs, read)'
<1>1. RuntimesAreApart'
  BY DEF RuntimesAreApart, GoodRuntime
<1>2. /\ \A read, p : SteadySince(read, p)' = SteadySince(read, p)
      /\ \A cs, read, p, i, k : Shows(cs, read, p, i, k)' = Shows(cs, read, p, i, k)
  BY DEF SteadySince, Shows
<1>3. ASSUME NEW cs, NEW n, NEW read, Gathered(cs, n, read) PROVE Gathered(cs, n, read)'
  BY <1>2, <1>3 DEF Gathered, Candidates
<1>4. ASSUME NEW cs, NEW read, Listed(cs, read) PROVE Listed(cs, read)'
  BY <1>2, <1>4 DEF Listed
<1> QED  BY <1>1, <1>3, <1>4

LEMMA ScanIsTyped == NoScan \in ScanRecords /\ NoScan.phase = "idle" /\ NoScan.attached = 0
<1>1. 0 \in 0..MaxLocalStarts
  BY LocalDiscoveryAssumption
<1>2. NothingRead \in Reads
  BY <1>1 DEF NothingRead, Reads
<1>3. <<>> \in Seq(Evidence)
  OBVIOUS
<1> QED  BY <1>1, <1>2, <1>3 DEF NoScan, ScanRecords

LEMMA BeginKeepsDiscovery ==
    ASSUME DiscoveryInv, NEW for, for = NoCard \/ (\E i \in DOMAIN cards : for = cards[i]), StartDiscovery(for)
    PROVE  DiscoveryInv'
<1>1. PICK read : read = [NothingRead EXCEPT !.began = starts, !.pid = owned]
  OBVIOUS
<1>2. starts \in 0..MaxLocalStarts /\ owned \in {0} \cup RuntimePids /\ starts \in Nat
  BY LocalDiscoveryAssumption DEF DiscoveryInv, RuntimesAreApart
<1>3. read = [began |-> starts, pid |-> owned, reused |-> FALSE, silent |-> {}]
  BY <1>1 DEF NothingRead
<1>4. read \in Reads /\ read.began = starts /\ read.silent = {}
  BY <1>2, <1>3 DEF Reads
<1>5. PICK s : s = [NoScan EXCEPT !.phase = "ps", !.for = for, !.read = read]
  OBVIOUS
<1>6. scan' = s /\ UNCHANGED <<runtime, owned, cards, listing, starts>>
  BY <1>1, <1>5 DEF StartDiscovery
<1>7. s.phase = "ps" /\ s.for = for /\ s.read = read /\ s.attached = 0 /\ s.probed = 0
  BY <1>5 DEF NoScan
<1>8. for \in Evidence \cup {NoCard}
  BY DEF DiscoveryInv, Listed
<1>9. s \in ScanRecords
  BY <1>4, <1>5, <1>8, ScanIsTyped DEF ScanRecords
<1>10. RuntimesAreApart' /\ Listed(cards, listing)'
  <2>1. PICK c, l : c = cards /\ l = listing
    OBVIOUS
  <2>2. RuntimesAreApart' /\ Listed(c, l)'
    BY <1>6, <2>1, SameRuntimes DEF DiscoveryInv
  <2> QED  BY <1>6, <2>1, <2>2
<1>11. listing' \in Reads /\ listing'.began <= starts'
  BY <1>6 DEF DiscoveryInv
<1>12. Clicked(s) => \E i \in DOMAIN cards : for = cards[i]
  BY <1>7 DEF Clicked
<1> QED
  BY <1>2, <1>4, <1>6, <1>7, <1>9, <1>10, <1>11, <1>12 DEF DiscoveryInv, Clicked

\* What pid file and process table say, before the first probe.
LEMMA ReadIsGathered ==
    ASSUME RuntimesAreApart, NEW pid \in {0} \cup RuntimePids, NEW worked \in BOOLEAN,
           NEW cs, Candidates(cs), Unprobed(cs), UrlsOfOurs(cs) = RecordedUrls(pid, worked),
           NEW listed \in BOOLEAN, listed <=> (worked /\ pid # 0 /\ runtime[pid].up),
           NEW read \in Reads, read.silent = {},
           read.pid = (IF listed /\ runtime[pid].ours THEN pid ELSE 0),
           read.reused <=> (listed /\ ~runtime[pid].ours)
    PROVE  Gathered(cs, 0, read)
<1>1. cs \in Seq(Evidence) /\ OneEach(cs) /\ Urls(cs) = ControlPorts /\ \A i \in DOMAIN cs : cs[i].id = 0 /\ cs[i].url # 0
  BY DEF Candidates, Unprobed
<1>2. ASSUME NEW p \in RuntimePids, SteadySince(read, p) PROVE \E i \in DOMAIN cs : Shows(cs, read, p, i, i <= 0)
  <2>1. /\ runtime[p].up /\ runtime[p].port \in ControlPorts /\ runtime[p].id \in 1..MaxLocalStarts
        /\ (runtime[p].ours => runtime[p].arg = runtime[p].port)
    BY <1>2 DEF SteadySince, RuntimesAreApart, GoodRuntime
  <2>2. PICK i \in DOMAIN cs : cs[i].url = runtime[p].port
    BY <1>1, <2>1 DEF Urls
  <2>3. ~(i <= 0)
    BY <1>1
  <2>4. \A j \in DOMAIN cs \ {i} : cs[j].url # runtime[p].port /\ cs[j].id # runtime[p].id
    BY <1>1, <2>1, <2>2 DEF OneEach
  <2>5. cs[i].own = "AuspexOwned" <=> runtime[p].port \in RecordedUrls(pid, worked)
    BY <1>1, <2>2, <2>4 DEF UrlsOfOurs
  <2>6. ASSUME ~read.reused, runtime[p].port \in RecordedUrls(pid, worked) PROVE read.pid = p
    <3>1. worked /\ pid # 0 /\ runtime[pid].up /\ runtime[pid].arg = runtime[p].port
      BY <2>6 DEF RecordedUrls
    <3>2. pid \in RuntimePids /\ runtime[pid].ours /\ read.pid = pid
      BY <2>6, <3>1
    <3>3. runtime[pid].port = runtime[p].port
      BY <3>1, <3>2 DEF RuntimesAreApart, GoodRuntime
    <3>4. pid = p
      BY <2>1, <3>1, <3>2, <3>3 DEF RuntimesAreApart
    <3> QED  BY <3>2, <3>4
  <2>7. ASSUME read.pid = p PROVE runtime[p].port \in RecordedUrls(pid, worked)
    <3>1. p # 0 /\ runtime[p].port # 0
      BY <2>1 DEF RuntimePids, ControlPorts
    <3>2. listed /\ runtime[p].ours /\ pid = p
      BY <2>7, <3>1
    <3> QED  BY <2>1, <3>1, <3>2 DEF RecordedUrls
  <2>8. ~read.reused => (cs[i].own = "AuspexOwned" <=> read.pid = p)
    BY <2>5, <2>6, <2>7
  <2> QED  BY <1>1, <2>2, <2>3, <2>4, <2>8 DEF Shows
<1>3. 0 \in 0..Len(cs)
  BY <1>1
<1> QED  BY <1>2, <1>3 DEF Gathered

LEMMA ReadKeepsDiscovery ==
    ASSUME DiscoveryInv, NEW worked \in BOOLEAN, ReadProcesses(worked)
    PROVE  DiscoveryInv'
<1>1. PICK s, pid : s = scan /\ pid = s.read.pid
  OBVIOUS
<1>2. s \in ScanRecords /\ s.read \in Reads /\ s.phase = "ps" /\ RuntimesAreApart /\ pid \in {0} \cup RuntimePids
      /\ s.read.silent = {} /\ s.probed = 0 /\ s.read.began <= starts /\ s.attached = 0
  BY <1>1 DEF DiscoveryInv, ReadProcesses, ScanRecords, Reads
<1>3. PICK listed \in BOOLEAN : listed = (worked /\ pid # 0 /\ runtime[pid].up)
  BY Zenon
<1>31. PICK b \in BOOLEAN : b = (listed /\ ~runtime[pid].ours)
  BY Zenon
<1>32. PICK named : named = IF listed /\ runtime[pid].ours THEN pid ELSE 0
  OBVIOUS
<1>33. named \in {0} \cup RuntimePids
  BY <1>2, <1>32
<1>4. PICK cs : cs = discover_attach_candidates(pid, worked)
  OBVIOUS
<1>5. Candidates(cs) /\ Unprobed(cs) /\ UrlsOfOurs(cs) = RecordedUrls(pid, worked)
  BY <1>2, <1>4, AttachCandidates
<1>6. PICK now : now = [s.read EXCEPT !.pid = named, !.reused = b]
  OBVIOUS
<1>7. now \in Reads /\ now.began = s.read.began /\ now.pid = named /\ now.reused = b /\ now.silent = {}
  BY <1>2, <1>31, <1>33, <1>6 DEF Reads
<1>8. UNCHANGED <<runtime, owned, cards, listing, starts>>
  BY DEF ReadProcesses
<1>9. PICK t : t = [s EXCEPT !.phase = "probe", !.list = cs, !.read = now]
  OBVIOUS
<1>10. scan' = t
  BY <1>1, <1>2, <1>3, <1>31, <1>32, <1>4, <1>6, <1>9 DEF ReadProcesses, ScanRecords, Reads
<1>11. cs \in Seq(Evidence)
  BY <1>5 DEF Candidates
<1>12. /\ t \in ScanRecords /\ t.phase = "probe" /\ t.list = cs /\ t.read = now
       /\ t.probed = 0 /\ t.attached = 0 /\ t.for = s.for
  BY <1>2, <1>7, <1>9, <1>11 DEF ScanRecords
<1>13. /\ listed <=> (worked /\ pid # 0 /\ runtime[pid].up)
       /\ now.reused <=> (listed /\ ~runtime[pid].ours)
       /\ now.pid = (IF listed /\ runtime[pid].ours THEN pid ELSE 0)
  BY <1>3, <1>31, <1>32, <1>7, Zenon
<1>14. Gathered(cs, 0, now)
  BY <1>2, <1>3, <1>5, <1>7, <1>13, ReadIsGathered
<1>15. PICK c, l : c = cards /\ l = listing
  OBVIOUS
<1>16. RuntimesAreApart' /\ Gathered(cs, 0, now)' /\ Listed(c, l)'
  BY <1>8, <1>14, <1>15, SameRuntimes DEF DiscoveryInv
<1>17. /\ l \in Reads /\ l.began <= starts
       /\ Clicked(s) => (\E i \in DOMAIN c : s.for = c[i]) /\ l.began <= s.read.began
  BY <1>1, <1>2, <1>15 DEF DiscoveryInv
<1>18. Clicked(s) = Clicked(t)
  BY <1>2, <1>12 DEF Clicked
<1>19. cards' = c /\ listing' = l /\ starts' = starts
  BY <1>8, <1>15
<1> QED
  BY <1>2, <1>7, <1>10, <1>12, <1>16, <1>17, <1>18, <1>19 DEF DiscoveryInv, Clicked

\* One probe: x is the answer of the address of candidate i.
ProbedTo(cs, i, x, ds) == ds = [cs EXCEPT ![i].id = x]

LEMMA ProbeIsGathered ==
    ASSUME RuntimesAreApart, NEW cs, NEW n, NEW read \in Reads, Gathered(cs, n, read),
           NEW i \in DOMAIN cs, i = n + 1, NEW answers \in BOOLEAN, NEW port, port = cs[i].url,
           NEW x, x = ProbedAt(port, answers), NEW ds, ProbedTo(cs, i, x, ds),
           NEW now \in Reads, now.began = read.began, now.pid = read.pid, now.reused = read.reused,
           now.silent = IF answers THEN read.silent ELSE read.silent \cup {port}
    PROVE  Gathered(ds, i, now)
<1>1. cs \in Seq(Evidence) /\ n \in 0..Len(cs) /\ port \in ControlPorts /\ \A j \in DOMAIN cs : cs[j] \in Evidence
  BY DEF Gathered, Candidates, Evidence
<1>2. x \in 0..MaxLocalStarts
  BY <1>1, WhoAnswers, LocalDiscoveryAssumption
<1>3. PICK c : c = [cs[i] EXCEPT !.id = x]
  OBVIOUS
<1>4. c \in Evidence /\ c.url = cs[i].url /\ c.own = cs[i].own /\ c.id = x
  BY <1>1, <1>2, <1>3 DEF Evidence
<1>5. ds \in Seq(Evidence) /\ DOMAIN ds = DOMAIN cs /\ ds[i] = c /\ \A j \in DOMAIN cs \ {i} : ds[j] = cs[j]
  <2>1. ds = [cs EXCEPT ![i] = c]
    BY <1>1, <1>3 DEF ProbedTo
  <2> QED  BY <1>1, <1>4, <2>1
<1>6. /\ DOMAIN ds = DOMAIN cs /\ \A j \in DOMAIN ds : ds[j].url = cs[j].url /\ ds[j].own = cs[j].own
  BY <1>4, <1>5
<1>7. Candidates(ds)
  <2>1. OneEach(cs) /\ Urls(cs) = ControlPorts /\ \A j \in DOMAIN cs : cs[j].url # 0
    BY DEF Gathered, Candidates
  <2>2. OneEach(ds) /\ \A j \in DOMAIN ds : ds[j].url # 0
    BY ONLY <1>6, <2>1 DEF OneEach
  <2>3. {ds[j].url : j \in DOMAIN ds} = {cs[j].url : j \in DOMAIN cs}
    BY ONLY <1>6
  <2> QED  BY <1>5, <2>1, <2>2, <2>3 DEF Candidates, Urls
<1>8. ASSUME NEW p \in RuntimePids, SteadySince(now, p) PROVE \E k \in DOMAIN ds : Shows(ds, now, p, k, k <= i)
  <2>1. SteadySince(read, p) /\ runtime[p].up
    BY <1>8 DEF SteadySince
  <2>2. PICK k \in DOMAIN cs : Shows(cs, read, p, k, k <= n)
    BY <2>1 DEF Gathered
  <2>3. /\ runtime[p].port = port => x = IF answers THEN runtime[p].id ELSE 0
        /\ runtime[p].port # port => x # runtime[p].id
    BY <1>1, <2>1, ListenerIsThere
  <2>4. /\ cs[k].url = runtime[p].port
        /\ ~now.reused => (ds[k].own = "AuspexOwned" <=> now.pid = p)
        /\ \A j \in DOMAIN cs \ {k} : cs[j].url # runtime[p].port /\ cs[j].id # runtime[p].id
    BY <1>6, <2>2 DEF Shows
  <2>5. \A j \in DOMAIN ds \ {k} : ds[j].url # runtime[p].port /\ ds[j].id # runtime[p].id
    <3>1. CASE k = i
      BY <1>5, <2>4, <3>1
    <3>2. CASE k # i
      BY <1>4, <1>5, <2>3, <2>4, <3>2
    <3> QED  BY <3>1, <3>2
  <2>6. CASE k = i
    <3>1. ~(k <= n) /\ k <= i
      BY <1>1, <2>6
    <3>2. runtime[p].port \notin read.silent
      BY <2>2, <3>1 DEF Shows
    <3>3. ds[k].id = x /\ runtime[p].port = port
      BY <1>4, <1>5, <2>4, <2>6
    <3>4. runtime[p].port \in now.silent <=> ~answers
      BY <3>2, <3>3
    <3> QED  BY <1>6, <2>3, <2>4, <2>5, <3>1, <3>3, <3>4 DEF Shows
  <2>7. CASE k # i
    <3>1. k <= n <=> k <= i
      BY <1>1, <2>2, <2>7
    <3>2. ds[k] = cs[k] /\ runtime[p].port # port
      BY <1>5, <2>4, <2>7
    <3>3. runtime[p].port \in now.silent <=> runtime[p].port \in read.silent
      BY <3>2
    <3>4. /\ cs[k].id = IF k <= n /\ runtime[p].port \notin read.silent THEN runtime[p].id ELSE 0
          /\ k <= n \/ runtime[p].port \notin read.silent
      BY <2>2 DEF Shows
    <3> QED  BY <1>6, <2>4, <2>5, <3>1, <3>2, <3>3, <3>4 DEF Shows
  <2> QED  BY <2>6, <2>7
<1>9. i \in 0..Len(ds)
  BY <1>5
<1> QED  BY <1>7, <1>8, <1>9 DEF Gathered

LEMMA ProbeKeepsDiscovery ==
    ASSUME DiscoveryInv, NEW answers \in BOOLEAN, ProbeNext(answers)
    PROVE  DiscoveryInv'
<1>1. PICK s, cs, n, read : s = scan /\ cs = s.list /\ n = s.probed /\ read = s.read
  OBVIOUS
<1>2. /\ s \in ScanRecords /\ read \in Reads /\ s.phase = "probe" /\ RuntimesAreApart
      /\ s.read.began <= starts /\ s.attached = 0 /\ Gathered(cs, n, read)
  BY <1>1 DEF DiscoveryInv, ProbeNext, ScanRecords
<1>3. PICK i, port, x : i = n + 1 /\ port = cs[i].url /\ x = ProbedAt(port, answers)
  OBVIOUS
<1>4. i \in DOMAIN cs
  BY <1>1, <1>3 DEF ProbeNext
<1>5. PICK ds : ProbedTo(cs, i, x, ds)
  BY DEF ProbedTo
<1>6. PICK silent : silent = IF answers THEN read.silent ELSE read.silent \cup {port}
  OBVIOUS
<1>7. PICK now : now = [read EXCEPT !.silent = silent]
  OBVIOUS
<1>8. port \in ControlPorts /\ cs \in Seq(Evidence) /\ i \in Nat
  BY <1>2, <1>3, <1>4 DEF Gathered, Candidates, Evidence
<1>9. /\ now \in Reads /\ now.began = read.began /\ now.pid = read.pid
      /\ now.reused = read.reused /\ now.silent = silent
  BY <1>2, <1>6, <1>7, <1>8 DEF Reads
<1>10. Gathered(ds, i, now)
  BY <1>2, <1>3, <1>4, <1>5, <1>6, <1>9, ProbeIsGathered
<1>11. UNCHANGED <<runtime, owned, cards, listing, starts>>
  BY DEF ProbeNext
<1>12. PICK t : t = [s EXCEPT !.probed = i, !.list = ds, !.read = now]
  OBVIOUS
<1>13. scan' = t
  BY <1>1, <1>2, <1>3, <1>5, <1>6, <1>7, <1>12 DEF ProbeNext, ProbedTo, ScanRecords, Reads
<1>14. ds \in Seq(Evidence)
  BY <1>10 DEF Gathered, Candidates
<1>15. /\ t \in ScanRecords /\ t.phase = "probe" /\ t.list = ds /\ t.read = now
       /\ t.probed = i /\ t.attached = 0 /\ t.for = s.for
  BY <1>2, <1>8, <1>9, <1>12, <1>14 DEF ScanRecords
<1>16. PICK c, l : c = cards /\ l = listing
  OBVIOUS
<1>17. RuntimesAreApart' /\ Gathered(ds, i, now)' /\ Listed(c, l)'
  BY <1>2, <1>10, <1>11, <1>16, SameRuntimes DEF DiscoveryInv
<1>18. /\ l \in Reads /\ l.began <= starts
       /\ Clicked(s) => (\E j \in DOMAIN c : s.for = c[j]) /\ l.began <= s.read.began
  BY <1>1, <1>2, <1>16 DEF DiscoveryInv
<1>19. Clicked(s) = Clicked(t)
  BY <1>2, <1>15 DEF Clicked
<1>20. cards' = c /\ listing' = l /\ starts' = starts
  BY <1>11, <1>16
<1> QED
  BY <1>1, <1>2, <1>9, <1>13, <1>15, <1>17, <1>18, <1>19, <1>20 DEF DiscoveryInv, Clicked

LEMMA ShowKeepsDiscovery ==
    ASSUME DiscoveryInv, ShowCards
    PROVE  DiscoveryInv'
<1>1. PICK s, c, l : s = scan /\ c = merge_local_omegon_candidates(s.list) /\ l = s.read
  OBVIOUS
<1>2. /\ s \in ScanRecords /\ s.phase = "probe" /\ s.probed = Len(s.list) /\ RuntimesAreApart
      /\ l.began <= starts /\ Gathered(s.list, s.probed, l) /\ l \in Reads
  BY <1>1 DEF DiscoveryInv, ShowCards, AllProbed, ScanRecords
<1>3. Listed(c, l)
  BY <1>1, <1>2, EnrichedIsShown
<1>4. cards' = c /\ listing' = l /\ scan' = NoScan /\ UNCHANGED <<runtime, owned, starts>>
  BY <1>1 DEF ShowCards
<1>5. RuntimesAreApart' /\ Listed(c, l)'
  BY <1>2, <1>3, <1>4, SameRuntimes
<1> QED
  BY <1>2, <1>4, <1>5, ScanIsTyped DEF DiscoveryInv, Clicked

\* The one candidate a click on such a card finds again.
LEMMA OneIsFound ==
    ASSUME RuntimesAreApart, NEW card \in Evidence, NEW again, NEW read, NEW p \in RuntimePids, runtime[p].up,
           again \in Seq(Evidence), card.url = runtime[p].port, card.id \in {0, runtime[p].id},
           NEW k, Shows(again, read, p, k, TRUE)
    PROVE  FoundAgain(card, again) = <<again[k]>>
<1>1. PICK I : I = {i \in DOMAIN again : (card.id # 0 /\ again[i].id = card.id) \/ again[i].url = card.url}
  OBVIOUS
<1>2. k \in DOMAIN again /\ again[k].url = runtime[p].port
      /\ \A j \in DOMAIN again \ {k} : again[j].url # runtime[p].port /\ again[j].id # runtime[p].id
  BY DEF Shows
<1>3. I = {k}
  BY <1>1, <1>2
<1>4. k \in Nat
  BY <1>2
<1>5. First(I) = k
  <2>1. I \subseteq Nat /\ I # {}
    BY <1>3, <1>4
  <2>2. First(I) \in I
    BY <2>1, FirstIsFirst
  <2> QED  BY <1>3, <2>2
<1> QED  BY <1>1, <1>3, <1>5 DEF FoundAgain

LEMMA FindKeepsDiscovery ==
    ASSUME DiscoveryInv, FindCard
    PROVE  DiscoveryInv'
<1>1. PICK s, card, again, read : s = scan /\ card = s.for /\ again = merge_local_omegon_candidates(s.list) /\ read = s.read
  OBVIOUS
<1>2. /\ s \in ScanRecords /\ s.phase = "probe" /\ s.probed = Len(s.list) /\ RuntimesAreApart
      /\ read.began <= starts /\ Gathered(s.list, s.probed, read) /\ read \in Reads /\ card # NoCard
  BY <1>1 DEF DiscoveryInv, FindCard, AllProbed, ScanRecords
<1>3. Listed(again, read)
  BY <1>1, <1>2, EnrichedIsShown
<1>4. PICK c, l : c = cards /\ l = listing
  OBVIOUS
<1>5. Clicked(s)
  BY <1>1, <1>2 DEF Clicked
<1>6. l \in Reads /\ l.began <= starts /\ Listed(c, l) /\ l.began <= read.began /\ \E i \in DOMAIN c : card = c[i]
  BY <1>1, <1>2, <1>4, <1>5 DEF DiscoveryInv
<1>7. PICK found : found = FoundAgain(card, again)
  OBVIOUS
<1>8. UNCHANGED <<runtime, owned, cards, listing, starts>>
      /\ scan' = IF found = <<>> THEN NoScan ELSE [NoScan EXCEPT !.phase = "attach", !.for = card, !.list = found]
  BY <1>1, <1>7 DEF FindCard
<1>9. RuntimesAreApart' /\ Listed(c, l)' /\ cards' = c /\ listing' = l /\ starts' = starts
  BY <1>2, <1>4, <1>6, <1>8, SameRuntimes
<1>10. CASE found = <<>>
  <2>1. scan' = NoScan
    BY <1>8, <1>10
  <2> QED  BY <1>2, <1>6, <1>9, <2>1, ScanIsTyped DEF DiscoveryInv, Clicked
<1>11. CASE found # <<>>
  <2>1. PICK t : t = [NoScan EXCEPT !.phase = "attach", !.for = card, !.list = found]
    OBVIOUS
  <2>2. scan' = t
    BY <1>8, <1>11, <2>1
  <2>3. PICK I : I = {i \in DOMAIN again : (card.id # 0 /\ again[i].id = card.id) \/ again[i].url = card.url}
    OBVIOUS
  <2>4. again \in Seq(Evidence) /\ I \subseteq DOMAIN again /\ I \subseteq Nat /\ \A i \in DOMAIN again : again[i].url # 0
    BY <1>3, <2>3 DEF Listed
  <2>5. I # {} /\ found = <<again[First(I)]>>
    BY <1>7, <1>11, <2>3 DEF FoundAgain
  <2>6. First(I) \in DOMAIN again
    BY <2>4, <2>5, FirstIsFirst
  <2>7. Len(found) = 1 /\ found \in Seq(Evidence) /\ found[1] = again[First(I)] /\ found[1].url # 0
    BY <2>4, <2>5, <2>6
  <2>8. PICK i \in DOMAIN c : card = c[i]
    BY <1>6
  <2>9. card \in Evidence
    BY <1>6, <2>8 DEF Listed
  <2>10. t.phase = "attach" /\ t.for = card /\ t.list = found /\ t.attached = 0 /\ t \in ScanRecords
    BY <2>1, <2>7, <2>9, ScanIsTyped DEF NoScan, ScanRecords
  <2>11. ASSUME NEW p \in RuntimePids, SteadySince(l, p), runtime[p].port = card.url PROVE found[1].url = runtime[p].port
    <3>1. runtime[p].up /\ runtime[p].born \in Nat
      BY <1>2, <2>11 DEF SteadySince, RuntimesAreApart, GoodRuntime
    <3>2. l.began \in Nat /\ read.began \in Nat
      BY <1>2, <1>6, LocalDiscoveryAssumption DEF Reads
    <3>3. SteadySince(read, p)
      BY <1>6, <2>11, <3>1, <3>2 DEF SteadySince
    <3>4. PICK k \in DOMAIN again : Shows(again, read, p, k, TRUE)
      BY <1>3, <3>3 DEF Listed
    <3>5. PICK j \in DOMAIN c : Shows(c, l, p, j, TRUE)
      BY <1>6, <2>11 DEF Listed
    <3>6. j = i
      BY <2>8, <2>11, <3>5 DEF Shows
    <3>7. card.id \in {0, runtime[p].id}
      BY <2>8, <3>5, <3>6 DEF Shows
    <3>8. found = <<again[k]>>
      <4>1. /\ RuntimesAreApart /\ card \in Evidence /\ runtime[p].up /\ again \in Seq(Evidence)
            /\ card.url = runtime[p].port /\ card.id \in {0, runtime[p].id}
            /\ Shows(again, read, p, k, TRUE)
        BY <1>2, <2>4, <2>9, <2>11, <3>1, <3>4, <3>7
      <4>2. FoundAgain(card, again) = <<again[k]>>
        BY ONLY <4>1, k \in DOMAIN again, p \in RuntimePids, OneIsFound, ZenonT(30)
      <4> QED  BY <1>7, <4>2
    <3>9. again[k].url = runtime[p].port
      BY <3>4 DEF Shows
    <3> QED  BY <3>8, <3>9
  <2>12. \A p \in RuntimePids : SteadySince(l, p)' = SteadySince(l, p) /\ runtime'[p] = runtime[p]
    BY <1>8 DEF SteadySince
  <2>13. Found(card, found)'
    BY <1>9, <2>7, <2>11, <2>12 DEF Found
  <2>14. \E j \in DOMAIN c : card = c[j]
    BY <2>8
  <2> QED  BY <1>2, <1>6, <1>9, <2>2, <2>10, <2>13, <2>14 DEF DiscoveryInv, Clicked
<1> QED  BY <1>10, <1>11

\* Who answers the probe of the address that was found is attached.
LEMMA AttachKeepsDiscovery ==
    ASSUME DiscoveryInv, NEW answers \in BOOLEAN, Attach(answers)
    PROVE  DiscoveryInv'
<1>1. PICK s, c, l : s = scan /\ c = cards /\ l = listing
  OBVIOUS
<1>2. s.phase = "attach" /\ Found(s.for, s.list) /\ RuntimesAreApart /\ Listed(c, l) /\ l \in Reads /\ l.began <= starts
  BY <1>1 DEF DiscoveryInv, Attach
<1>3. PICK port, x : port = s.list[1].url /\ x = ProbedAt(port, answers)
  OBVIOUS
<1>4. port \in ControlPorts
  BY <1>2, <1>3 DEF Found, Evidence
<1>5. x \in 0..MaxLocalStarts
  BY <1>2, <1>3, <1>4, WhoAnswers, LocalDiscoveryAssumption
<1>6. PICK t : t = [NoScan EXCEPT !.attached = x]
  OBVIOUS
<1>7. scan' = t /\ UNCHANGED <<runtime, owned, cards, listing, starts>>
  BY <1>1, <1>3, <1>6 DEF Attach
<1>8. t \in ScanRecords /\ t.phase = "idle"
  BY <1>5, <1>6, ScanIsTyped DEF ScanRecords
<1>9. RuntimesAreApart' /\ Listed(c, l)' /\ cards' = c /\ listing' = l /\ starts' = starts
  BY <1>1, <1>2, <1>7, SameRuntimes
<1> QED  BY <1>2, <1>7, <1>8, <1>9 DEF DiscoveryInv, Clicked

LEMMA DiscoveryStep == DiscoveryInv /\ [LdNext]_ldVars => DiscoveryInv'
<1> SUFFICES ASSUME DiscoveryInv, [LdNext]_ldVars PROVE DiscoveryInv'
  OBVIOUS
<1>1. ASSUME UNCHANGED ldVars PROVE DiscoveryInv'
  <2>1. UNCHANGED <<runtime, owned, starts, scan, cards, listing>>
    BY <1>1 DEF ldVars
  <2>2. starts' \in {starts, starts + 1} /\ \A q \in RuntimePids : runtime'[q] = runtime[q]
    BY <2>1
  <2>3. RuntimesAreApart'
    BY <2>1, SameRuntimes DEF DiscoveryInv
  <2> QED  BY <2>1, <2>2, <2>3, ProcessesMove
<1>2. ASSUME NEW p \in RuntimePids, NEW port \in ControlPorts, NEW arg \in {0} \cup ControlPorts,
             NEW id \in 1..MaxLocalStarts, NEW ours \in BOOLEAN, StartsRuntime(p, port, arg, id, ours)
      PROVE  DiscoveryInv'
  BY <1>2, StartKeepsDiscovery
<1>3. ASSUME NEW p \in RuntimePids, NEW cleared \in BOOLEAN, StopsRuntime(p, cleared) PROVE DiscoveryInv'
  BY <1>3, StopKeepsDiscovery
<1>4. ASSUME StartDiscovery(NoCard) PROVE DiscoveryInv'
  BY <1>4, BeginKeepsDiscovery
<1>5. ASSUME NEW i \in DOMAIN cards, StartDiscovery(cards[i]) PROVE DiscoveryInv'
  <2>1. PICK for : for = cards[i]
    OBVIOUS
  <2> QED  BY <1>5, <2>1, BeginKeepsDiscovery
<1>6. ASSUME NEW worked \in BOOLEAN, ReadProcesses(worked) PROVE DiscoveryInv'
  BY <1>6, ReadKeepsDiscovery
<1>7. ASSUME NEW answers \in BOOLEAN, ProbeNext(answers) PROVE DiscoveryInv'
  BY <1>7, ProbeKeepsDiscovery
<1>8. ASSUME NEW answers \in BOOLEAN, Attach(answers) PROVE DiscoveryInv'
  BY <1>8, AttachKeepsDiscovery
<1> QED
  BY <1>1, <1>2, <1>3, <1>4, <1>5, <1>6, <1>7, <1>8, ShowKeepsDiscovery, FindKeepsDiscovery DEF LdNext

\* For any number of processes, ports, starts and discoveries: a runtime that has been up
\* since before the list was gathered has exactly one card, with its identity unless its probe
\* had no answer, and it is called Auspex's exactly when Auspex started it and ps worked,
\* although pid file, process table and probes are read one after the other while processes
\* come, go and reuse pids (local_omegon_discovery.rs).
THEOREM EveryRuntimeHasItsCard == LdSpec => []CardsAreTheRuntimes
<1>1. DiscoveryInv => CardsAreTheRuntimes
  <2> SUFFICES ASSUME DiscoveryInv PROVE CardsAreTheRuntimes
    OBVIOUS
  <2>1. PICK c, l : c = cards /\ l = listing
    OBVIOUS
  <2>2. RuntimesAreApart /\ Listed(c, l)
    BY <2>1 DEF DiscoveryInv
  <2>3. ASSUME NEW p \in RuntimePids, SteadySince(l, p)
        PROVE  \E i \in DOMAIN c :
                  /\ {j \in DOMAIN c : c[j].url = runtime[p].port} = {i}
                  /\ c[i].id = IF runtime[p].port \in l.silent THEN 0 ELSE runtime[p].id
                  /\ \A j \in DOMAIN c : c[j].id = runtime[p].id => j = i
    <3>1. PICK i \in DOMAIN c : Shows(c, l, p, i, TRUE)
      BY <2>2, <2>3 DEF Listed
    <3>2. {j \in DOMAIN c : c[j].url = runtime[p].port} = {i}
      BY <3>1 DEF Shows
    <3> QED  BY <3>1, <3>2 DEF Shows
  <2>4. OneCardPerRuntime
    BY <2>1, <2>3 DEF OneCardPerRuntime, CardsAt
  <2>5. ASSUME NEW p \in RuntimePids, NEW i \in DOMAIN c, SteadySince(l, p), ~l.reused, c[i].url = runtime[p].port
        PROVE  c[i].own = "AuspexOwned" <=> l.pid = p
    <3>1. PICK j \in DOMAIN c : Shows(c, l, p, j, TRUE)
      BY <2>2, <2>5 DEF Listed
    <3>2. j = i
      BY <2>5, <3>1 DEF Shows
    <3> QED  BY <2>5, <3>1, <3>2 DEF Shows
  <2>6. OwnedIsOurs
    BY <2>1, <2>5 DEF OwnedIsOurs
  <2>7. \A i, j \in DOMAIN cards : cards[i].id # 0 /\ cards[i].id = cards[j].id => i = j
    BY <2>1, <2>2 DEF Listed
  <2> QED  BY <2>4, <2>6, <2>7 DEF CardsAreTheRuntimes
<1> QED
  BY <1>1, DiscoveryInitially, DiscoveryStep, PTL DEF LdSpec

\* For any number of processes, ports, starts and discoveries: a click on the card of a runtime
\* that has been up since the cards were gathered attaches that runtime or nothing, although
\* the click gathers everything again and probes once more (attach_local_omegon_candidate).
THEOREM ClicksAttachTheirRuntime == LdSpec => ClickedIsAttached
<1>1. ASSUME DiscoveryInv, [LdNext]_ldVars, NEW p \in RuntimePids, scan.phase = "attach", scan'.attached # 0,
             SteadySince(listing, p), scan.for.url = runtime[p].port
      PROVE  scan'.attached = runtime[p].id
  <2>1. PICK s : s = scan
    OBVIOUS
  <2>2. s.phase = "attach" /\ s.attached = 0 /\ Found(s.for, s.list) /\ RuntimesAreApart
    BY <1>1, <2>1 DEF DiscoveryInv
  <2>3. scan' # scan
    BY <1>1, <2>1, <2>2
  <2>4. PICK answers \in BOOLEAN : Attach(answers)
    BY <1>1, <2>1, <2>2, <2>3
       DEF LdNext, ldVars, StartsRuntime, StopsRuntime, StartDiscovery, ReadProcesses, ProbeNext, ShowCards, FindCard, AllProbed
  <2>5. PICK x : x = ProbedAt(s.list[1].url, answers)
    OBVIOUS
  <2>6. scan'.attached = x
    BY <2>1, <2>4, <2>5 DEF Attach, NoScan
  <2>7. s.list[1].url = runtime[p].port /\ runtime[p].up
    BY <1>1, <2>1, <2>2 DEF Found, SteadySince
  <2>8. runtime[p].port \in ControlPorts
    BY <2>2, <2>7 DEF RuntimesAreApart, GoodRuntime
  <2>9. x = IF answers THEN runtime[p].id ELSE 0
    BY <2>2, <2>5, <2>7, <2>8, ListenerIsThere
  <2> QED  BY <1>1, <2>6, <2>9
<1>2. DiscoveryInv /\ [LdNext]_ldVars
      => [\A p \in RuntimePids :
             /\ scan.phase = "attach" /\ scan'.attached # 0
             /\ SteadySince(listing, p) /\ scan.for.url = runtime[p].port
             => scan'.attached = runtime[p].id]_ldVars
  BY <1>1
<1> QED
  BY <1>2, DiscoveryInitially, DiscoveryStep, PTL DEF LdSpec, ClickedIsAttached

----------------------------------------------------------------------------
(***************************************************************************)
(* The transcript and its ledger.                                          *)
(*                                                                         *)
(* Every handler leaves whole blocks behind, and what is said in the chat  *)
(* is only added to.  The refresh that ends every handler puts an entry of *)
(* every new block into the ledger: the form the block has then is the one *)
(* the entry keeps, so a block's later forms have to go on from it, and a  *)
(* block whose text is streamed may only give it up to the chat.  A        *)
(* message is in the text that is streamed from its first delta on, as     *)
(* long as nothing of it was lost, so it is in the chat once it is         *)
(* complete.                                                               *)
(***************************************************************************)
BlockKinds == {"text", "thinking", "tool", "system", "aborted"}
BlockIds == ToolIds \cup {Nil}
Origins == {"Dispatcher", "System", "Child", Nil}
ToolShowsItsOwn(b) == b.result # Nil => b.kind = "tool" /\ b.result = b.id
WholeBlock(b) ==
    /\ ToolShowsItsOwn(b)
    /\ b.kind # "tool" => b.id = Nil
    /\ b.kind = "text" => b.origin \in {Nil, "Dispatcher"}
TurnBlocks ==
    {b \in [kind : BlockKinds, id : BlockIds, body : Seq(Nat), origin : Origins, result : BlockIds] :
        WholeBlock(b)}
TurnRecords == [number : Nat, blocks : Seq(TurnBlocks)]
Roles == {"Assistant", "User", "System", Nil}
ChatLines == [role : Roles, body : Seq(Nat)]
Views ==
    [turns : Seq(TurnRecords), active : Nat \cup {Nil}, chat : Seq(ChatLines), role : Roles,
     text : Seq(Nat), running : BOOLEAN, ended : Nat]

\* What the ledger holds: of the blocks, and of telemetry.
LedgerIds ==
    [key : {"remote", "mock"}, turn : Nat, part : {"block", "telemetry"}, index : Nat]
LedgerBlocks ==
    [kind : BlockKinds \cup {"telemetry"}, id : BlockIds, body : Seq(Nat), origin : Origins,
     result : BlockIds]
LedgerEntries == [id : LedgerIds, content : LedgerBlocks]

\* Stores: what was seen is what is there, and each id is there once.
IdsOf(entries) == {entries[i].id : i \in DOMAIN entries}
EachOnce(entries) == \A i, j \in DOMAIN entries : entries[i].id = entries[j].id => i = j
Stores ==
    {s \in [entries : Seq(LedgerEntries), seen : SUBSET LedgerIds] :
        s.seen = IdsOf(s.entries) /\ EachOnce(s.entries)}

\* What a store holds, and that it keeps what it held and takes nothing but what is offered.
EntryListed(entries) == {entries[i] : i \in DOMAIN entries}
Held(s) == EntryListed(s.entries)
Keeps(s, r, offered) == Held(s) \subseteq Held(r) /\ Held(r) \subseteq Held(s) \cup offered

LEMMA EntryIsAppended ==
    ASSUME NEW s \in Stores, NEW e \in LedgerEntries
    PROVE  /\ append_entry(s, e) \in Stores /\ append_entry(s, e).seen = s.seen \cup {e.id}
           /\ Keeps(s, append_entry(s, e), {e})
<1>1. /\ s = [entries |-> s.entries, seen |-> s.seen] /\ s.entries \in Seq(LedgerEntries)
      /\ s.seen = IdsOf(s.entries) /\ EachOnce(s.entries)
  BY DEF Stores
<1>2. CASE e.id \in s.seen
  BY <1>2 DEF append_entry, Keeps
<1>3. CASE e.id \notin s.seen
  <2>1. PICK l : l = s.entries /\ l \in Seq(LedgerEntries) /\ Len(l) \in Nat
    BY <1>1
  <2>n. PICK n \in Nat : n = Len(l)
    BY <2>1
  <2>2. PICK m : m = Append(l, e)
    OBVIOUS
  <2>3. /\ m \in Seq(LedgerEntries) /\ Len(m) = n + 1 /\ DOMAIN m = 1..(n + 1) /\ DOMAIN l = 1..n
        /\ m[n + 1] = e /\ \A i \in 1..n : m[i] = l[i]
    BY <2>n, <2>1, <2>2
  <2>4. \A i \in 1..(n + 1) : i \in 1..n \/ i = n + 1
    BY <2>n
  <2>5. \A i \in 1..n : i \in 1..(n + 1)
    BY <2>n
  <2>6. IdsOf(m) = IdsOf(l) \cup {e.id}
    <3>1. \A i \in 1..(n + 1) : m[i].id \in IdsOf(l) \cup {e.id}
      BY <2>3, <2>4 DEF IdsOf
    <3>2. \A i \in 1..n : l[i].id \in IdsOf(m)
      BY <2>3, <2>5 DEF IdsOf
    <3>3. e.id \in IdsOf(m)
      BY <2>n, <2>3 DEF IdsOf
    <3> QED  BY <2>3, <3>1, <3>2, <3>3 DEF IdsOf
  <2>7. \A i \in 1..n : m[i].id # e.id
    BY <1>1, <1>3, <2>1, <2>3 DEF IdsOf
  <2>8. EachOnce(m)
    <3> SUFFICES ASSUME NEW i \in 1..(n + 1), NEW j \in 1..(n + 1), m[i].id = m[j].id PROVE i = j
      BY <2>3 DEF EachOnce
    <3>1. CASE i \in 1..n /\ j \in 1..n
      BY <1>1, <2>1, <2>3, <3>1 DEF EachOnce
    <3>2. CASE i = n + 1 /\ j \in 1..n
      BY <2>3, <2>7, <3>2
    <3>3. CASE i \in 1..n /\ j = n + 1
      BY <2>3, <2>7, <3>3
    <3> QED  BY <2>4, <3>1, <3>2, <3>3
  <2>9. e.id \in LedgerIds /\ s.seen \in SUBSET LedgerIds
    BY DEF LedgerEntries, Stores
  <2>10. append_entry(s, e) = [entries |-> m, seen |-> s.seen \cup {e.id}]
    BY <1>3, <2>1, <2>2 DEF append_entry
  <2>11. PICK ids : ids = s.seen \cup {e.id} /\ ids \in SUBSET LedgerIds /\ ids = IdsOf(m)
    BY <1>1, <2>1, <2>6, <2>9
  <2>12. [entries |-> m, seen |-> ids] \in Stores
    BY <2>3, <2>8, <2>11 DEF Stores
  <2>13. PICK r : r = append_entry(s, e)
    OBVIOUS
  <2>14. r.entries = m /\ s.entries = l
    BY <2>1, <2>10, <2>13
  <2>15. Keeps(s, r, {e})
    <3>1. \A i \in 1..n : l[i] = m[i] /\ i \in 1..(n + 1)
      BY <2>3, <2>5
    <3>2. \A i \in 1..(n + 1) : (i \in 1..n /\ m[i] = l[i]) \/ m[i] = e
      BY <2>3, <2>4
    <3>3. Held(s) = {l[i] : i \in 1..n} /\ Held(r) = {m[i] : i \in 1..(n + 1)}
      BY <2>3, <2>14 DEF Held, EntryListed
    <3> QED  BY <3>1, <3>2, <3>3 DEF Keeps
  <2> QED  BY <2>10, <2>11, <2>12, <2>13, <2>15
<1> QED  BY <1>2, <1>3

\* Step by step through a list, from a store.
Gathers(f, s, N, more, all) ==
    /\ f \in [0..N -> Stores] /\ f[0] = s
    /\ \A n \in 1..N : f[n - 1].seen \cup more[n] \subseteq f[n].seen /\ Keeps(f[n - 1], f[n], all)

LEMMA GatheredInTheEnd ==
    ASSUME NEW N \in Nat, NEW s \in Stores, NEW more, NEW all, NEW f, Gathers(f, s, N, more, all)
    PROVE  /\ f[N] \in Stores /\ s.seen \subseteq f[N].seen
           /\ \A n \in 1..N : more[n] \subseteq f[N].seen
           /\ Keeps(s, f[N], all)
<1> DEFINE P == {m \in Nat : m <= N => /\ s.seen \subseteq f[m].seen /\ Keeps(s, f[m], all)
                                     /\ \A n \in 1..m : more[n] \subseteq f[m].seen}
<1>1. 0 \in P
  BY DEF Gathers, Keeps
<1>2. ASSUME NEW m \in Nat, m \in P PROVE m + 1 \in P
  <2> SUFFICES ASSUME m + 1 <= N
               PROVE  /\ s.seen \subseteq f[m + 1].seen /\ Keeps(s, f[m + 1], all)
                      /\ \A n \in 1..(m + 1) : more[n] \subseteq f[m + 1].seen
    OBVIOUS
  <2>1. m + 1 \in 1..N /\ (m + 1) - 1 = m
    OBVIOUS
  <2>2. f[m].seen \cup more[m + 1] \subseteq f[m + 1].seen /\ Keeps(f[m], f[m + 1], all)
    BY <2>1 DEF Gathers
  <2>3. s.seen \subseteq f[m].seen /\ Keeps(s, f[m], all) /\ \A n \in 1..m : more[n] \subseteq f[m].seen
    BY <1>2
  <2>4. \A n \in 1..(m + 1) : n \in 1..m \/ n = m + 1
    OBVIOUS
  <2>5. Keeps(s, f[m + 1], all)
    BY <2>2, <2>3 DEF Keeps
  <2> QED  BY <2>2, <2>3, <2>4, <2>5
<1> HIDE DEF P
<1>3. Nat \subseteq P
  BY <1>1, <1>2, SetInduction
<1>4. N \in P /\ N \in 0..N
  BY <1>3
<1> QED  BY <1>4 DEF P, Gathers

\* All entries of a list.
LEMMA AllAreAppended ==
    ASSUME NEW s \in Stores, NEW entries \in Seq(LedgerEntries)
    PROVE  /\ append_all(s, entries) \in Stores /\ s.seen \subseteq append_all(s, entries).seen
           /\ IdsOf(entries) \subseteq append_all(s, entries).seen
           /\ Keeps(s, append_all(s, entries), EntryListed(entries))
<1> DEFINE Body(f, n) == IF n = 0 THEN s ELSE append_entry(f[n - 1], entries[n])
           Is(f) == f = [n \in 0..Len(entries) |-> Body(f, n)]
           F == CHOOSE f : Is(f)
<1>1. PICK N \in Nat : N = Len(entries)
  OBVIOUS
<1>2. \A n \in 1..N : entries[n] \in LedgerEntries
  BY <1>1
<1>3. PICK G : G = [n \in 1..N |-> [t \in Stores |-> append_entry(t, entries[n])]]
  OBVIOUS
<1>4. N \in Nat /\ s \in Stores /\ G \in [1..N -> [Stores -> Stores]]
  BY <1>2, <1>3, EntryIsAppended
<1>5. PICK f : Iterates(f, Stores, s, N, G)
  BY <1>4, Recursion, Zenon
<1>6. /\ f \in [0..N -> Stores] /\ f[0] = s /\ \A n \in 1..N : f[n] = G[n][f[n - 1]]
  BY <1>5 DEF Iterates
<1>7. \A n \in 1..N : n \in 0..N /\ n - 1 \in 0..N /\ n # 0
  BY <1>1
<1>8. \A n \in 1..N : f[n] = append_entry(f[n - 1], entries[n])
  BY <1>3, <1>6, <1>7
<1>9. \A n \in 0..N : f[n] = Body(f, n)
  <2>1. \A n \in 0..N : n = 0 \/ n \in 1..N
    BY <1>1
  <2> QED  BY <1>6, <1>7, <1>8, <2>1
<1>10. f = [n \in 0..N |-> f[n]]
  BY <1>6
<1> HIDE DEF Body
<1>11. Is(f)
  BY <1>1, <1>9, <1>10
<1>12. Is(F)
  BY <1>11
<1> HIDE DEF F
<1>13. F = [n \in 0..N |-> F[n]] /\ \A n \in 0..N : F[n] = Body(F, n)
  BY <1>1, <1>12
<1> HIDE DEF Is
<1>14. F[0] = s /\ \A n \in 1..N : F[n] = append_entry(F[n - 1], entries[n])
  BY <1>1, <1>7, <1>13 DEF Body
<1>15. F \in [0..N -> Stores]
  <2> DEFINE P == {n \in Nat : n <= N => F[n] \in Stores}
  <2>1. 0 \in P
    BY <1>14
  <2>2. ASSUME NEW n \in Nat, n \in P PROVE n + 1 \in P
    <3> SUFFICES ASSUME n + 1 <= N PROVE F[n + 1] \in Stores
      OBVIOUS
    <3>1. n + 1 \in 1..N /\ (n + 1) - 1 = n /\ F[n] \in Stores
      BY <1>1, <2>2
    <3>2. F[n + 1] = append_entry(F[n], entries[n + 1])
      BY <1>14, <3>1
    <3>3. PICK t \in Stores, e \in LedgerEntries : t = F[n] /\ e = entries[n + 1]
      BY <1>2, <3>1
    <3>4. append_entry(t, e) \in Stores
      BY EntryIsAppended
    <3> QED  BY <3>2, <3>3, <3>4
  <2> HIDE DEF P
  <2>3. Nat \subseteq P
    BY <2>1, <2>2, SetInduction
  <2>4. \A n \in 0..N : F[n] \in Stores
    BY <1>1, <2>3 DEF P
  <2> QED  BY <1>13, <2>4
<1>16. PICK more : more = [n \in 1..N |-> {entries[n].id}]
  OBVIOUS
<1>17a. PICK all : all = EntryListed(entries)
  OBVIOUS
<1>17. Gathers(F, s, N, more, all)
  <2>1. ASSUME NEW n \in 1..N
        PROVE  F[n - 1].seen \cup more[n] \subseteq F[n].seen /\ Keeps(F[n - 1], F[n], all)
    <3>1. PICK t \in Stores : t = F[n - 1]
      BY <1>7, <1>15
    <3>2. PICK e \in LedgerEntries : e = entries[n]
      BY <1>2
    <3>3. F[n] = append_entry(t, e) /\ more[n] = {e.id}
      BY <1>14, <1>16, <3>1, <3>2
    <3>4. append_entry(t, e).seen = t.seen \cup {e.id} /\ Keeps(t, append_entry(t, e), {e})
      BY EntryIsAppended
    <3>5. e \in all
      BY <1>1, <1>17a, <3>2 DEF EntryListed
    <3>6. Keeps(t, append_entry(t, e), all)
      BY <3>4, <3>5 DEF Keeps
    <3> QED  BY <3>1, <3>3, <3>4, <3>6
  <2> QED  BY <1>14, <1>15, <2>1 DEF Gathers
<1>18. /\ F[N] \in Stores /\ s.seen \subseteq F[N].seen
       /\ \A n \in 1..N : more[n] \subseteq F[N].seen
       /\ Keeps(s, F[N], all)
  BY <1>1, <1>17, GatheredInTheEnd
<1>19. append_all(s, entries) = F[N]
  BY <1>1 DEF append_all, F, Is, Body
<1>20. \A n \in 1..N : entries[n].id \in F[N].seen
  BY <1>16, <1>18
<1> QED
  BY <1>1, <1>17a, <1>18, <1>19, <1>20 DEF IdsOf

\* The entries of a turn, and of all turns.
TurnsAreIn(key, turns, seen) ==
    \A t \in DOMAIN turns : \A i \in DOMAIN turns[t].blocks : BlockId(key, turns[t].number, i) \in seen

BlockShown(key, turns) ==
    {e \in LedgerEntries : \E t \in DOMAIN turns : \E i \in DOMAIN turns[t].blocks :
                              e = BlockEntry(key, turns[t].number, i, turns[t].blocks[i])}

LEMMA EntriesOfATurn ==
    ASSUME NEW key \in {"remote", "mock"}, NEW turn \in TurnRecords
    PROVE  /\ BlockEntries(key, turn) \in Seq(LedgerEntries)
           /\ \A i \in DOMAIN turn.blocks : BlockId(key, turn.number, i) \in IdsOf(BlockEntries(key, turn))
           /\ \A e \in EntryListed(BlockEntries(key, turn)) :
                \E i \in DOMAIN turn.blocks : e = BlockEntry(key, turn.number, i, turn.blocks[i])
<1>b. PICK blocks : blocks = turn.blocks /\ blocks \in Seq(TurnBlocks)
  BY DEF TurnRecords
<1>n. PICK number \in Nat : number = turn.number
  BY DEF TurnRecords
<1>1. PICK n \in Nat : n = Len(blocks)
  BY <1>b
<1>2. \A i \in 1..n : blocks[i] \in TurnBlocks
  BY <1>b, <1>n, <1>1
<1>3. PICK es : es = [i \in 1..n |-> BlockEntry(key, number, i, blocks[i])]
  OBVIOUS
<1>4. es = BlockEntries(key, turn)
  BY <1>b, <1>n, <1>1, <1>3 DEF BlockEntries
<1>5. ASSUME NEW i \in 1..n PROVE es[i] \in LedgerEntries /\ es[i].id = BlockId(key, number, i)
  <2>1. es[i] = [id |-> BlockId(key, number, i), content |-> blocks[i]]
    BY <1>3 DEF BlockEntry
  <2>2. BlockId(key, number, i) \in LedgerIds
    BY <1>b, <1>n, <1>1 DEF BlockId, LedgerIds
  <2>3. blocks[i] \in LedgerBlocks
    <3>1. PICK c \in TurnBlocks : c = blocks[i]
      BY <1>2
    <3>2. c \in LedgerBlocks
      BY DEF TurnBlocks, LedgerBlocks
    <3> QED  BY <3>1, <3>2
  <2>4. PICK id \in LedgerIds, content \in LedgerBlocks : id = BlockId(key, number, i) /\ content = blocks[i]
    BY <2>2, <2>3
  <2>5. es[i] = [id |-> id, content |-> content]
    BY <2>1, <2>4
  <2>6. [id |-> id, content |-> content] \in LedgerEntries
    BY DEF LedgerEntries
  <2>7. [id |-> id, content |-> content].id = id
    OBVIOUS
  <2>8. es[i] \in LedgerEntries
    BY <2>4, <2>5, <2>6
  <2>9. es[i].id = id
    BY <2>5, <2>7
  <2> QED  BY <2>4, <2>8, <2>9
<1>6. DOMAIN es = 1..n /\ es \in Seq(LedgerEntries) /\ DOMAIN blocks = 1..n
  <2>1. DOMAIN es = 1..n /\ es = [i \in 1..n |-> es[i]] /\ DOMAIN blocks = 1..n
    BY <1>b, <1>1, <1>3
  <2>2. \A i \in 1..n : es[i] \in LedgerEntries
    BY <1>5
  <2>3. es \in [1..n -> LedgerEntries]
    BY <2>1, <2>2
  <2> QED  BY <1>1, <2>1, <2>3
<1>7. \A i \in 1..n : BlockId(key, number, i) \in IdsOf(es)
  BY <1>5, <1>6 DEF IdsOf
<1>8. \A e \in EntryListed(es) : \E i \in 1..n : e = BlockEntry(key, number, i, blocks[i])
  BY <1>3, <1>6 DEF EntryListed
<1> QED  BY <1>b, <1>n, <1>1, <1>4, <1>6, <1>7, <1>8

LEMMA SnapshotIsAppended ==
    ASSUME NEW s \in Stores, NEW key \in {"remote", "mock"}, NEW turns \in Seq(TurnRecords)
    PROVE  LET r == append_transcript_snapshot(s, key, turns)
           IN  /\ r \in Stores /\ s.seen \subseteq r.seen /\ TurnsAreIn(key, turns, r.seen)
               /\ Keeps(s, r, BlockShown(key, turns))
<1> DEFINE Body(f, n) == IF n = 0 THEN s ELSE append_all(f[n - 1], BlockEntries(key, turns[n]))
           Is(f) == f = [n \in 0..Len(turns) |-> Body(f, n)]
           F == CHOOSE f : Is(f)
<1>1. PICK N \in Nat : N = Len(turns) /\ DOMAIN turns = 1..N
  OBVIOUS
<1>2. \A n \in 1..N : turns[n] \in TurnRecords
  BY <1>1
<1>3. PICK e : e = [n \in 1..N |-> BlockEntries(key, turns[n])]
  OBVIOUS
<1>4. \A n \in 1..N : /\ e[n] \in Seq(LedgerEntries) /\ e[n] = BlockEntries(key, turns[n])
                      /\ \A i \in DOMAIN turns[n].blocks : BlockId(key, turns[n].number, i) \in IdsOf(e[n])
                      /\ \A x \in EntryListed(e[n]) : \E i \in DOMAIN turns[n].blocks :
                           x = BlockEntry(key, turns[n].number, i, turns[n].blocks[i])
  BY <1>2, <1>3, EntriesOfATurn
<1>5. PICK G : G = [n \in 1..N |-> [t \in Stores |-> append_all(t, e[n])]]
  OBVIOUS
<1>6. N \in Nat /\ s \in Stores /\ G \in [1..N -> [Stores -> Stores]]
  BY <1>4, <1>5, AllAreAppended
<1>7. PICK f : Iterates(f, Stores, s, N, G)
  BY <1>6, Recursion, Zenon
<1>8. /\ f \in [0..N -> Stores] /\ f[0] = s /\ \A n \in 1..N : f[n] = G[n][f[n - 1]]
  BY <1>7 DEF Iterates
<1>9. \A n \in 1..N : n \in 0..N /\ n - 1 \in 0..N /\ n # 0
  BY <1>1
<1>10. \A n \in 1..N : f[n] = append_all(f[n - 1], e[n])
  BY <1>5, <1>8, <1>9
<1>11. \A n \in 0..N : f[n] = Body(f, n)
  <2>1. \A n \in 0..N : n = 0 \/ n \in 1..N
    BY <1>1
  <2> QED  BY <1>4, <1>8, <1>9, <1>10, <2>1
<1>12. f = [n \in 0..N |-> f[n]]
  BY <1>8
<1> HIDE DEF Body
<1>13. Is(f)
  BY <1>1, <1>11, <1>12
<1>14. Is(F)
  BY <1>13
<1> HIDE DEF F
<1>15. F = [n \in 0..N |-> F[n]] /\ \A n \in 0..N : F[n] = Body(F, n)
  BY <1>1, <1>14
<1> HIDE DEF Is
<1>16. F[0] = s /\ \A n \in 1..N : F[n] = append_all(F[n - 1], e[n])
  BY <1>1, <1>4, <1>9, <1>15 DEF Body
<1>17. F \in [0..N -> Stores]
  <2> DEFINE P == {n \in Nat : n <= N => F[n] \in Stores}
  <2>1. 0 \in P
    BY <1>16
  <2>2. ASSUME NEW n \in Nat, n \in P PROVE n + 1 \in P
    <3> SUFFICES ASSUME n + 1 <= N PROVE F[n + 1] \in Stores
      OBVIOUS
    <3>1. n + 1 \in 1..N /\ (n + 1) - 1 = n /\ F[n] \in Stores
      BY <1>1, <2>2
    <3>2. F[n + 1] = append_all(F[n], e[n + 1])
      BY <1>16, <3>1
    <3> QED  BY <1>4, <3>1, <3>2, AllAreAppended
  <2> HIDE DEF P
  <2>3. Nat \subseteq P
    BY <2>1, <2>2, SetInduction
  <2>4. \A n \in 0..N : F[n] \in Stores
    BY <1>1, <2>3 DEF P
  <2> QED  BY <1>15, <2>4
<1>18. PICK more : more = [n \in 1..N |-> IdsOf(e[n])]
  OBVIOUS
<1>18a. PICK all : all = BlockShown(key, turns)
  OBVIOUS
<1>18b. \A n \in 1..N : EntryListed(e[n]) \subseteq all
  <2> SUFFICES ASSUME NEW n \in 1..N, NEW x \in EntryListed(e[n]) PROVE x \in all
    OBVIOUS
  <2>1. PICK l : l = e[n]
    OBVIOUS
  <2>2. l \in Seq(LedgerEntries) /\ x \in EntryListed(l)
    BY <1>4, <2>1
  <2>3. x \in LedgerEntries
    BY <2>2 DEF EntryListed
  <2> QED  BY <1>1, <1>4, <1>18a, <2>3 DEF BlockShown
<1>19. Gathers(F, s, N, more, all)
  <2>1. ASSUME NEW n \in 1..N
        PROVE  F[n - 1].seen \cup more[n] \subseteq F[n].seen /\ Keeps(F[n - 1], F[n], all)
    <3>1. PICK t \in Stores : t = F[n - 1]
      BY <1>9, <1>17
    <3>2. F[n] = append_all(t, e[n]) /\ more[n] = IdsOf(e[n])
      BY <1>16, <1>18, <3>1
    <3>3. PICK l \in Seq(LedgerEntries) : l = e[n]
      BY <1>4
    <3>4. /\ append_all(t, l) \in Stores /\ t.seen \subseteq append_all(t, l).seen
          /\ IdsOf(l) \subseteq append_all(t, l).seen /\ Keeps(t, append_all(t, l), EntryListed(l))
      BY AllAreAppended
    <3>5. Keeps(t, append_all(t, l), all)
      BY <1>18b, <3>3, <3>4 DEF Keeps
    <3> QED  BY <3>1, <3>2, <3>3, <3>4, <3>5
  <2> QED  BY <1>16, <1>17, <2>1 DEF Gathers
<1>20. /\ F[N] \in Stores /\ s.seen \subseteq F[N].seen
       /\ \A n \in 1..N : more[n] \subseteq F[N].seen
       /\ Keeps(s, F[N], all)
  BY <1>1, <1>19, GatheredInTheEnd
<1>21. append_transcript_snapshot(s, key, turns) = F[N]
  BY <1>1 DEF append_transcript_snapshot, F, Is, Body
<1>22. TurnsAreIn(key, turns, F[N].seen)
  BY <1>1, <1>4, <1>18, <1>20 DEF TurnsAreIn
<1> QED
  BY <1>18a, <1>20, <1>21, <1>22

\* The ledger in memory.
Audits == [store : Stores, last : Nat, sequence : Nat]

Telemetry == {e \in LedgerEntries : e.id.part = "telemetry"}

LEMMA RefreshCovers ==
    ASSUME NEW a \in Audits, NEW key \in {"remote", "mock"}, NEW v \in Views
    PROVE  LET r == Refreshed(a, key, v)
           IN  /\ r \in Audits /\ a.store.seen \subseteq r.store.seen /\ TurnsAreIn(key, v.turns, r.store.seen)
               /\ Keeps(a.store, r.store, BlockShown(key, v.turns) \cup Telemetry)
<1>1. a.store \in Stores /\ a.last \in Nat /\ a.sequence \in Nat
      /\ v.turns \in Seq(TurnRecords) /\ v.ended \in Nat
  BY DEF Audits, Views
<1>2. PICK s : s = append_transcript_snapshot(a.store, key, v.turns)
  OBVIOUS
<1>3. /\ s \in Stores /\ a.store.seen \subseteq s.seen /\ TurnsAreIn(key, v.turns, s.seen)
      /\ Keeps(a.store, s, BlockShown(key, v.turns))
  BY <1>1, <1>2, SnapshotIsAppended
<1>4. PICK b : b = [a EXCEPT !.store = append_transcript_snapshot(@, key, v.turns)]
  OBVIOUS
<1>5. b = [store |-> s, last |-> a.last, sequence |-> a.sequence]
  BY <1>2, <1>4 DEF Audits
<1>6. PICK r : r = append_telemetry_audit_entries(b, key, v)
  OBVIOUS
<1>7. r = Refreshed(a, key, v)
  BY <1>4, <1>6 DEF Refreshed
<1>8. CASE v.ended + 1 = b.last
  <2>1. r = b /\ r.store = s
    BY <1>5, <1>6, <1>8 DEF append_telemetry_audit_entries
  <2>2. r \in Audits
    BY <1>1, <1>3, <1>5, <2>1 DEF Audits
  <2> QED  BY <1>3, <1>7, <2>1, <2>2 DEF Keeps
<1>9. CASE v.ended + 1 # b.last
  <2>1. PICK e : e = TelemetryEntry(key, b.sequence + 1, Block("telemetry", Nil, <<v.ended>>, Nil))
    OBVIOUS
  <2>2. r = [store |-> append_entry(s, e), last |-> v.ended + 1, sequence |-> a.sequence + 1]
    BY <1>5, <1>6, <1>9, <2>1 DEF append_telemetry_audit_entries
  <2>3. e \in Telemetry
    <3>1. PICK n \in Nat : n = b.sequence + 1
      BY <1>1, <1>5
    <3>2. PICK body : body = <<v.ended>>
      OBVIOUS
    <3>3. body \in Seq(Nat)
      BY <1>1, <3>2
    <3>4. [kind |-> "telemetry", id |-> Nil, body |-> body, origin |-> Nil, result |-> Nil] \in LedgerBlocks
      BY <3>3 DEF LedgerBlocks, BlockIds, Origins
    <3>5. [key |-> key, turn |-> 0, part |-> "telemetry", index |-> n] \in LedgerIds
      BY <3>1 DEF LedgerIds
    <3> QED  BY <2>1, <3>1, <3>2, <3>4, <3>5 DEF TelemetryEntry, Block, LedgerEntries, Telemetry
  <2>4. /\ append_entry(s, e) \in Stores /\ s.seen \subseteq append_entry(s, e).seen
        /\ Keeps(s, append_entry(s, e), {e})
    BY <1>3, <2>3, EntryIsAppended DEF Telemetry
  <2>5. r \in Audits /\ r.store = append_entry(s, e)
    BY <1>1, <2>2, <2>4 DEF Audits
  <2>6. Keeps(a.store, r.store, BlockShown(key, v.turns) \cup Telemetry)
    BY <1>3, <2>3, <2>4, <2>5 DEF Keeps
  <2> QED  BY <1>3, <1>7, <2>4, <2>5, <2>6 DEF TurnsAreIn
<1> QED  BY <1>8, <1>9

\* What the file holds is a store.
LEMMA LedgerIsReadBack ==
    ASSUME NEW s \in Stores PROVE load_or_default(s.entries) \in Stores
  BY DEF load_or_default, Stores, IdsOf

----------------------------------------------------------------------------
\* What an entry tells of the block that is on screen under its id: the text of a completed
\* message is in the chat, that of another is where it began.
InChat(first, chat) == \E j \in DOMAIN chat : IsPrefix(first.body, chat[j].body)
StillReads(first, now, chat) ==
    /\ now.kind \in {"thinking", "tool"} => Len(first.body) = 0
    /\ now.kind = "text" /\ now.origin = "Dispatcher" => InChat(first, chat)
    /\ now.kind = "text" /\ now.origin # "Dispatcher" => IsPrefix(first.body, now.body)
    /\ now.kind = "aborted" => IsPrefix(first.body, now.body)

\* A block goes on as another: what was a first form of it still is.
Forth(lost, vc, wc, b, c) ==
    \A e \in LedgerBlocks :
        GoesOn(e, b) /\ (lost = 0 => StillReads(e, b, vc)) => GoesOn(e, c) /\ (lost = 0 => StillReads(e, c, wc))

\* A view goes on as another: its blocks keep their places, and a new block is its own first form.
Carries(lost, v, w) ==
    /\ \A t \in DOMAIN v.turns :
         /\ t \in DOMAIN w.turns /\ w.turns[t].number = v.turns[t].number
         /\ \A i \in DOMAIN v.turns[t].blocks :
              /\ i \in DOMAIN w.turns[t].blocks
              /\ Forth(lost, v.chat, w.chat, v.turns[t].blocks[i], w.turns[t].blocks[i])
    /\ \A t \in DOMAIN w.turns : \A i \in DOMAIN w.turns[t].blocks :
         \/ t \in DOMAIN v.turns /\ i \in DOMAIN v.turns[t].blocks
         \/ lost = 0 => StillReads(w.turns[t].blocks[i], w.turns[t].blocks[i], w.chat)

\* Turns are told apart by their numbers; an entry of a block is of one that is on screen, and
\* every block on screen has one that holds its first form.
Numbered(n, v) ==
    /\ \A t \in DOMAIN v.turns : v.turns[t].number <= n
    /\ \A t, u \in DOMAIN v.turns : v.turns[t].number = v.turns[u].number => t = u
Placed(s, v) ==
    \A e \in Held(s) : e.id.key = "remote" /\ e.id.part = "block" =>
        \E t \in DOMAIN v.turns : \E i \in DOMAIN v.turns[t].blocks :
            e.id = BlockId("remote", v.turns[t].number, i)
HasForm(lost, s, v, t, i) ==
    \E e \in Held(s) : /\ e.id = BlockId("remote", v.turns[t].number, i)
                       /\ GoesOn(e.content, v.turns[t].blocks[i])
                       /\ lost = 0 => StillReads(e.content, v.turns[t].blocks[i], v.chat)
FirstForms(lost, s, v) ==
    \A t \in DOMAIN v.turns : \A i \in DOMAIN v.turns[t].blocks : HasForm(lost, s, v, t, i)

LEMMA HeldIsEntry == \A s \in Stores : Held(s) \subseteq LedgerEntries
<1> SUFFICES ASSUME NEW s \in Stores PROVE Held(s) \subseteq LedgerEntries
  OBVIOUS
<1>1. PICK entries : entries = s.entries
  OBVIOUS
<1>2. entries \in Seq(LedgerEntries)
  BY <1>1 DEF Stores
<1> QED  BY <1>1, <1>2 DEF Held, EntryListed

LEMMA SeenIsHeld ==
    ASSUME NEW s \in Stores, NEW id \in s.seen
    PROVE  \E e \in Held(s) : e.id = id
<1>1. s.seen = IdsOf(s.entries)
  BY DEF Stores
<1> QED  BY <1>1 DEF Held, EntryListed, IdsOf

LEMMA IdsAreTold ==
    ASSUME NEW n, NEW m, NEW i, NEW j, BlockId("remote", n, i) = BlockId("remote", m, j)
    PROVE  n = m /\ i = j
<1>1. PICK a : a = BlockId("remote", n, i)
  OBVIOUS
<1>2. a.turn = n /\ a.index = i
  BY <1>1 DEF BlockId
<1>3. a.turn = m /\ a.index = j
  BY <1>1 DEF BlockId
<1> QED  BY <1>2, <1>3

\* The refresh behind a handler.
LEMMA LedgerGoesOn ==
    ASSUME NEW v \in Views, NEW w \in Views, NEW s \in Stores, NEW r \in Stores, NEW lost \in Nat,
           NEW n \in Nat, Numbered(n, w), Placed(s, v), FirstForms(lost, s, v), Carries(lost, v, w),
           Keeps(s, r, BlockShown("remote", w.turns) \cup Telemetry), TurnsAreIn("remote", w.turns, r.seen)
    PROVE  Placed(r, w) /\ FirstForms(lost, r, w)
<1>1. ASSUME NEW e \in Held(r), e.id.key = "remote", e.id.part = "block"
      PROVE  \E t \in DOMAIN w.turns : \E i \in DOMAIN w.turns[t].blocks :
                e.id = BlockId("remote", w.turns[t].number, i)
  <2>1. CASE e \in Held(s)
    <3>1. PICK t \in DOMAIN v.turns : \E i \in DOMAIN v.turns[t].blocks :
             e.id = BlockId("remote", v.turns[t].number, i)
      BY <1>1, <2>1 DEF Placed
    <3>2. PICK i \in DOMAIN v.turns[t].blocks : e.id = BlockId("remote", v.turns[t].number, i)
      BY <3>1
    <3>3. /\ t \in DOMAIN w.turns /\ w.turns[t].number = v.turns[t].number
          /\ i \in DOMAIN w.turns[t].blocks
      BY DEF Carries
    <3> QED  BY <3>2, <3>3
  <2>2. CASE e \in BlockShown("remote", w.turns)
    <3>1. PICK t \in DOMAIN w.turns : \E i \in DOMAIN w.turns[t].blocks :
             e = BlockEntry("remote", w.turns[t].number, i, w.turns[t].blocks[i])
      BY <2>2 DEF BlockShown
    <3>2. PICK i \in DOMAIN w.turns[t].blocks :
             e = BlockEntry("remote", w.turns[t].number, i, w.turns[t].blocks[i])
      BY <3>1
    <3>3. e.id = BlockId("remote", w.turns[t].number, i)
      BY <3>2 DEF BlockEntry
    <3> QED  BY <3>3
  <2>3. CASE e \in Telemetry
    BY <1>1, <2>3 DEF Telemetry
  <2> QED  BY <2>1, <2>2, <2>3 DEF Keeps
<1>2. ASSUME NEW t \in DOMAIN w.turns, NEW i \in DOMAIN w.turns[t].blocks
      PROVE  HasForm(lost, r, w, t, i)
  <2>1. CASE t \in DOMAIN v.turns /\ i \in DOMAIN v.turns[t].blocks
    <3>1. PICK e \in Held(s) : /\ e.id = BlockId("remote", v.turns[t].number, i)
                               /\ GoesOn(e.content, v.turns[t].blocks[i])
                               /\ lost = 0 => StillReads(e.content, v.turns[t].blocks[i], v.chat)
      <4>1. HasForm(lost, s, v, t, i)
        BY <2>1 DEF FirstForms
      <4> QED  BY <4>1 DEF HasForm
    <3>2. /\ w.turns[t].number = v.turns[t].number
          /\ Forth(lost, v.chat, w.chat, v.turns[t].blocks[i], w.turns[t].blocks[i])
      BY <2>1 DEF Carries
    <3>3. e.content \in LedgerBlocks
      <4>1. e \in LedgerEntries
        BY <3>1, HeldIsEntry
      <4> QED  BY <4>1 DEF LedgerEntries
    <3>4. GoesOn(e.content, w.turns[t].blocks[i]) /\ (lost = 0 => StillReads(e.content, w.turns[t].blocks[i], w.chat))
      BY <3>1, <3>2, <3>3, Zenon DEF Forth
    <3>5. e \in Held(r)
      BY DEF Keeps
    <3> QED  BY <3>1, <3>2, <3>4, <3>5 DEF HasForm
  <2>2. CASE ~(t \in DOMAIN v.turns /\ i \in DOMAIN v.turns[t].blocks)
    <3>0. PICK id : id = BlockId("remote", w.turns[t].number, i)
      OBVIOUS
    <3>1. id \in r.seen /\ id.key = "remote" /\ id.part = "block"
      BY <3>0 DEF TurnsAreIn, BlockId
    <3>2. PICK e \in Held(r) : e.id = id
      BY <3>1, SeenIsHeld
    <3>3. e \notin Held(s)
      <4> SUFFICES ASSUME e \in Held(s) PROVE FALSE
        OBVIOUS
      <4>1. PICK u \in DOMAIN v.turns : \E j \in DOMAIN v.turns[u].blocks :
               e.id = BlockId("remote", v.turns[u].number, j)
        BY <3>1, <3>2 DEF Placed
      <4>2. PICK j \in DOMAIN v.turns[u].blocks : e.id = BlockId("remote", v.turns[u].number, j)
        BY <4>1
      <4>3. u \in DOMAIN w.turns /\ w.turns[u].number = v.turns[u].number
        BY DEF Carries
      <4>4. w.turns[t].number = v.turns[u].number /\ i = j
        BY <3>0, <3>2, <4>2, IdsAreTold
      <4>5. t = u
        BY <4>3, <4>4 DEF Numbered
      <4> QED  BY <2>2, <4>4, <4>5
    <3>4. e \notin Telemetry
      BY <3>1, <3>2 DEF Telemetry
    <3>5. e \in BlockShown("remote", w.turns)
      BY <3>3, <3>4 DEF Keeps
    <3>6. PICK u \in DOMAIN w.turns : \E j \in DOMAIN w.turns[u].blocks :
             e = BlockEntry("remote", w.turns[u].number, j, w.turns[u].blocks[j])
      BY <3>5 DEF BlockShown
    <3>7. PICK j \in DOMAIN w.turns[u].blocks :
             e = BlockEntry("remote", w.turns[u].number, j, w.turns[u].blocks[j])
      BY <3>6
    <3>8. e.id = BlockId("remote", w.turns[u].number, j) /\ e.content = w.turns[u].blocks[j]
      BY <3>7 DEF BlockEntry
    <3>9. w.turns[t].number = w.turns[u].number /\ i = j
      BY <3>0, <3>2, <3>8, IdsAreTold
    <3>10. t = u
      BY <3>9 DEF Numbered
    <3>11. e.content = w.turns[t].blocks[i]
      BY <3>8, <3>9, <3>10
    <3>12. lost = 0 => StillReads(w.turns[t].blocks[i], w.turns[t].blocks[i], w.chat)
      BY <2>2 DEF Carries
    <3>13. GoesOn(e.content, e.content)
      BY DEF GoesOn
    <3> QED  BY <3>0, <3>2, <3>11, <3>12, <3>13 DEF HasForm
  <2> QED  BY <2>1, <2>2
<1>3. Placed(r, w)
  BY <1>1 DEF Placed
<1>4. FirstForms(lost, r, w)
  BY <1>2 DEF FirstForms
<1> QED  BY <1>3, <1>4

----------------------------------------------------------------------------
\* The view, of which a handler changes the blocks of the last turn.
OnlyTurns(v, w) ==
    /\ w \in Views /\ w.active = v.active /\ w.chat = v.chat /\ w.role = v.role
    /\ w.text = v.text /\ w.running = v.running /\ w.ended = v.ended

\* The chat keeps what was said; and nothing else of the conversation changes.
SaysMore(v, w) ==
    w \in Views /\ \A i \in DOMAIN v.chat : \E j \in DOMAIN w.chat : w.chat[j].body = v.chat[i].body
Alike(v, w) == SaysMore(v, w) /\ w.role = v.role /\ w.text = v.text /\ w.running = v.running

LEMMA ViewFields ==
    ASSUME NEW v \in Views
    PROVE  /\ v = [turns |-> v.turns, active |-> v.active, chat |-> v.chat, role |-> v.role,
                   text |-> v.text, running |-> v.running, ended |-> v.ended]
           /\ v.turns \in Seq(TurnRecords) /\ v.active \in Nat \cup {Nil} /\ v.chat \in Seq(ChatLines)
           /\ v.role \in Roles /\ v.text \in Seq(Nat) /\ v.running \in BOOLEAN /\ v.ended \in Nat
  BY DEF Views

LEMMA OnlyTurnsIsAlike == \A v, w : OnlyTurns(v, w) => Alike(v, w)
  BY DEF OnlyTurns, Alike, SaysMore

LEMMA AlikeTwice == \A u, v, w : Alike(u, v) /\ Alike(v, w) => Alike(u, w)
  BY DEF Alike, SaysMore

LEMMA BlocksOfView ==
    ASSUME NEW v \in Views, HasTurn(v)
    PROVE  Blocks(v) \in Seq(TurnBlocks)
<1>1. v.turns \in Seq(TurnRecords) /\ v.turns # <<>>
  BY DEF Views, HasTurn
<1>2. v.turns[Len(v.turns)] \in TurnRecords
  BY <1>1
<1> QED  BY <1>2 DEF Blocks, Last, TurnRecords

\* The blocks of the last turn are others, and nothing else of the turns.
Written(v, w, bs) ==
    /\ DOMAIN w.turns = DOMAIN v.turns /\ Len(w.turns) = Len(v.turns) /\ Len(v.turns) \in DOMAIN v.turns
    /\ w.turns[Len(v.turns)].blocks = bs
    /\ \A t \in DOMAIN v.turns :
             w.turns[t].number = v.turns[t].number /\ (t # Len(v.turns) => w.turns[t].blocks = v.turns[t].blocks)

LEMMA BlocksAreReplaced ==
    ASSUME NEW v \in Views, HasTurn(v), NEW bs \in Seq(TurnBlocks)
    PROVE  OnlyTurns(v, WithBlocks(v, bs)) /\ Written(v, WithBlocks(v, bs), bs)
<1>1. PICK turns : turns = v.turns
  OBVIOUS
<1>1a. turns \in Seq(TurnRecords) /\ turns # <<>>
  BY <1>1 DEF Views, HasTurn
<1>2. PICK n \in Nat : n = Len(turns) /\ n \in 1..n
  BY <1>1, <1>1a
<1>3. PICK t \in TurnRecords : t = turns[n]
  BY <1>1, <1>1a, <1>2
<1>4. PICK u : u = [t EXCEPT !.blocks = bs]
  OBVIOUS
<1>5. u = [number |-> t.number, blocks |-> bs] /\ u \in TurnRecords
  BY <1>4 DEF TurnRecords
<1>6. PICK all : all = [turns EXCEPT ![n] = u]
  OBVIOUS
<1>7. all \in Seq(TurnRecords)
  BY <1>1, <1>1a, <1>2, <1>5, <1>6
<1>8. PICK w : w = [v EXCEPT !.turns = all]
  OBVIOUS
<1>9. w = WithBlocks(v, bs)
  BY <1>1, <1>1a, <1>2, <1>3, <1>4, <1>6, <1>8 DEF WithBlocks
<1>10. w = [turns |-> all, active |-> v.active, chat |-> v.chat, role |-> v.role,
            text |-> v.text, running |-> v.running, ended |-> v.ended]
  BY <1>8 DEF Views
<1>11. w \in Views
  BY <1>7, <1>10, ViewFields DEF Views
<1>12. OnlyTurns(v, w)
  BY <1>10, <1>11 DEF OnlyTurns
<1>13. /\ DOMAIN all = DOMAIN turns /\ Len(all) = n /\ n \in DOMAIN turns /\ all[n] = u
       /\ \A k \in DOMAIN turns : k # n => all[k] = turns[k]
  BY <1>1a, <1>2, <1>5, <1>6
<1>14. u.blocks = bs /\ u.number = turns[n].number
  BY <1>3, <1>5
<1>15. w.turns = all
  BY <1>10
<1>16. Written(v, w, bs)
  BY <1>1, <1>2, <1>13, <1>14, <1>15 DEF Written
<1> QED  BY <1>9, <1>12, <1>16

LEMMA ViewStays == \A v \in Views : OnlyTurns(v, v)
  BY DEF OnlyTurns

\* A block is pushed to the last turn, or takes the place of its last block.
BlockPushed(v, w, block) ==
    \/ ~HasTurn(v) /\ w.turns = v.turns
    \/ HasTurn(v) /\ Written(v, w, Append(Blocks(v), block))
Replaced(v, w, block) ==
    HasTurn(v) /\ Blocks(v) # <<>> /\ Written(v, w, [Blocks(v) EXCEPT ![Len(Blocks(v))] = block])

LEMMA BlockIsPushed ==
    ASSUME NEW v \in Views, NEW block \in TurnBlocks
    PROVE  OnlyTurns(v, PushBlock(v, block)) /\ BlockPushed(v, PushBlock(v, block), block)
<1>1. CASE HasTurn(v)
  <2>1. Append(Blocks(v), block) \in Seq(TurnBlocks)
    BY <1>1, BlocksOfView
  <2>2. PICK bs \in Seq(TurnBlocks) : bs = Append(Blocks(v), block)
    BY <2>1
  <2>3. OnlyTurns(v, WithBlocks(v, bs)) /\ Written(v, WithBlocks(v, bs), bs)
    BY <1>1, BlocksAreReplaced
  <2> QED  BY <1>1, <2>2, <2>3 DEF PushBlock, BlockPushed
<1>2. CASE ~HasTurn(v)
  BY <1>2, ViewStays DEF PushBlock, BlockPushed
<1> QED  BY <1>1, <1>2

\* A last block of some kind is there.
LEMMA BlockIsThere ==
    ASSUME NEW v \in Views, LastBlock(v).kind # "none"
    PROVE  HasTurn(v) /\ Blocks(v) # <<>> /\ LastBlock(v) \in TurnBlocks
<1>1. HasTurn(v) /\ Blocks(v) # <<>>
  BY DEF LastBlock, Block
<1>2. PICK bs : bs = Blocks(v)
  OBVIOUS
<1>2a. bs \in Seq(TurnBlocks) /\ bs # <<>>
  BY <1>2, <1>1, BlocksOfView
<1>3. bs[Len(bs)] \in TurnBlocks
  BY <1>2, <1>2a
<1>4. LastBlock(v) = bs[Len(bs)]
  BY <1>1, <1>2, <1>2a DEF LastBlock, Last
<1> QED  BY <1>1, <1>3, <1>4

LEMMA LastIsReplaced ==
    ASSUME NEW v \in Views, LastBlock(v).kind # "none", NEW block \in TurnBlocks
    PROVE  OnlyTurns(v, ReplaceLast(v, block)) /\ Replaced(v, ReplaceLast(v, block), block)
<1>1. HasTurn(v) /\ Blocks(v) # <<>>
  BY BlockIsThere
<1>2. PICK bs : bs = Blocks(v)
  OBVIOUS
<1>2a. bs \in Seq(TurnBlocks) /\ bs # <<>>
  BY <1>2, <1>1, BlocksOfView
<1>3. PICK cs : cs = [bs EXCEPT ![Len(bs)] = block]
  OBVIOUS
<1>4. cs \in Seq(TurnBlocks)
  BY <1>2, <1>2a, <1>3
<1>5. ReplaceLast(v, block) = WithBlocks(v, cs)
  BY <1>2, <1>2a, <1>3 DEF ReplaceLast
<1>6. OnlyTurns(v, WithBlocks(v, cs)) /\ Written(v, WithBlocks(v, cs), cs)
  BY <1>1, <1>4, BlocksAreReplaced
<1>7. Replaced(v, WithBlocks(v, cs), block)
  BY <1>1, <1>2, <1>3, <1>6 DEF Replaced
<1> QED  BY <1>5, <1>6, <1>7

\* What these do to the places and the first forms.
Fuller(vc, wc) == \A i \in DOMAIN vc : \E j \in DOMAIN wc : wc[j].body = vc[i].body
SameNumbers(v, w) ==
    DOMAIN w.turns = DOMAIN v.turns /\ \A t \in DOMAIN v.turns : w.turns[t].number = v.turns[t].number
Moves(lost, v, w) == Carries(lost, v, w) /\ SameNumbers(v, w)

LEMMA ForthStays ==
    ASSUME NEW vc, NEW wc, Fuller(vc, wc), NEW lost, NEW b
    PROVE  Forth(lost, vc, wc, b, b)
<1>1. \A e : InChat(e, vc) => InChat(e, wc)
  <2> SUFFICES ASSUME NEW e, InChat(e, vc) PROVE InChat(e, wc)
    OBVIOUS
  <2>1. PICK i \in DOMAIN vc : IsPrefix(e.body, vc[i].body)
    BY DEF InChat
  <2>2. PICK j \in DOMAIN wc : wc[j].body = vc[i].body
    BY DEF Fuller
  <2> QED  BY <2>1, <2>2 DEF InChat
<1> QED  BY <1>1 DEF Forth, StillReads

LEMMA SameMoves ==
    ASSUME NEW v, NEW w, NEW lost, w.turns = v.turns, Fuller(v.chat, w.chat)
    PROVE  Moves(lost, v, w)
  BY ForthStays DEF Moves, Carries, SameNumbers

LEMMA LastOfBlocks ==
    ASSUME NEW v \in Views, HasTurn(v), Blocks(v) # <<>>
    PROVE  LastBlock(v) = Blocks(v)[Len(Blocks(v))]
  BY DEF LastBlock, Last

LEMMA PushedMoves ==
    ASSUME NEW v \in Views, NEW w \in Views, NEW b \in TurnBlocks, NEW lost \in Nat, BlockPushed(v, w, b),
           Fuller(v.chat, w.chat), lost = 0 => StillReads(b, b, w.chat)
    PROVE  Moves(lost, v, w) /\ (LastBlock(w) = b \/ LastBlock(w).kind = "none")
<1>1. CASE ~HasTurn(v) /\ w.turns = v.turns
  <2>1. LastBlock(w).kind = "none"
    BY <1>1 DEF LastBlock, HasTurn, Block
  <2> QED  BY <1>1, <2>1, SameMoves
<1>2. CASE HasTurn(v) /\ Written(v, w, Append(Blocks(v), b))
  <2>1. PICK bs : bs = Blocks(v)
    OBVIOUS
  <2>2. bs \in Seq(TurnBlocks)
    BY <1>2, <2>1, BlocksOfView
  <2>3. PICK cs : cs = Append(bs, b)
    OBVIOUS
  <2>4. PICK n \in Nat : n = Len(bs)
    BY <2>2
  <2>5. /\ cs \in Seq(TurnBlocks) /\ DOMAIN bs = 1..n /\ DOMAIN cs = 1..(n + 1) /\ cs[n + 1] = b
        /\ Len(cs) = n + 1 /\ cs # <<>> /\ \A i \in 1..n : cs[i] = bs[i] /\ i \in 1..(n + 1)
    BY <2>2, <2>3, <2>4
  <2>6. PICK l \in DOMAIN v.turns : l = Len(v.turns)
    BY <1>2 DEF Written
  <2>7. /\ DOMAIN w.turns = DOMAIN v.turns /\ Len(w.turns) = l /\ w.turns[l].blocks = cs
        /\ \A t \in DOMAIN v.turns :
             w.turns[t].number = v.turns[t].number /\ (t # l => w.turns[t].blocks = v.turns[t].blocks)
    BY <1>2, <2>1, <2>3, <2>6 DEF Written
  <2>8. v.turns[l].blocks = bs
    BY <2>1, <2>6 DEF Blocks, Last
  <2>9. ASSUME NEW t \in DOMAIN v.turns, NEW i \in DOMAIN v.turns[t].blocks
        PROVE  i \in DOMAIN w.turns[t].blocks /\ w.turns[t].blocks[i] = v.turns[t].blocks[i]
    <3>1. CASE t = l
      BY <2>5, <2>7, <2>8, <3>1
    <3>2. CASE t # l
      BY <2>7, <3>2
    <3> QED  BY <3>1, <3>2
  <2>10. ASSUME NEW t \in DOMAIN w.turns, NEW i \in DOMAIN w.turns[t].blocks
         PROVE  \/ t \in DOMAIN v.turns /\ i \in DOMAIN v.turns[t].blocks
                \/ lost = 0 => StillReads(w.turns[t].blocks[i], w.turns[t].blocks[i], w.chat)
    <3>1. CASE t = l
      <4>1. i \in 1..n \/ i = n + 1
        BY <2>4, <2>5, <2>7, <3>1
      <4> QED  BY <2>5, <2>6, <2>7, <2>8, <3>1, <4>1
    <3>2. CASE t # l
      BY <2>7, <3>2
    <3> QED  BY <3>1, <3>2
  <2>11. Carries(lost, v, w)
    <3>1. \A t \in DOMAIN v.turns : \A i \in DOMAIN v.turns[t].blocks :
            /\ i \in DOMAIN w.turns[t].blocks
            /\ Forth(lost, v.chat, w.chat, v.turns[t].blocks[i], w.turns[t].blocks[i])
      BY <2>9, ForthStays
    <3> QED  BY <2>7, <2>10, <3>1 DEF Carries
  <2>12. SameNumbers(v, w)
    BY <2>7 DEF SameNumbers
  <2>13. LastBlock(w) = b
    <3>1. HasTurn(w) /\ Blocks(w) = cs
      <4>1. w.turns \in Seq(TurnRecords) /\ l \in DOMAIN w.turns
        BY <2>6, <2>7 DEF Views
      <4> QED  BY <2>7, <4>1 DEF HasTurn, Blocks, Last
    <3> QED  BY <2>5, <3>1, LastOfBlocks
  <2> QED  BY <2>11, <2>12, <2>13 DEF Moves
<1> QED  BY <1>1, <1>2 DEF BlockPushed

LEMMA ReplacedMoves ==
    ASSUME NEW v \in Views, NEW w \in Views, NEW b \in TurnBlocks, NEW lost \in Nat, Replaced(v, w, b),
           Fuller(v.chat, w.chat), Forth(lost, v.chat, w.chat, LastBlock(v), b)
    PROVE  Moves(lost, v, w) /\ LastBlock(w) = b
<1>1. HasTurn(v) /\ Blocks(v) # <<>> /\ Written(v, w, [Blocks(v) EXCEPT ![Len(Blocks(v))] = b])
  BY DEF Replaced
<1>2. PICK bs : bs = Blocks(v)
  OBVIOUS
<1>3. bs \in Seq(TurnBlocks) /\ bs # <<>>
  BY <1>1, <1>2, BlocksOfView
<1>4. PICK n \in Nat : n = Len(bs)
  BY <1>3
<1>5. PICK cs : cs = [bs EXCEPT ![n] = b]
  OBVIOUS
<1>6. /\ cs \in Seq(TurnBlocks) /\ DOMAIN bs = 1..n /\ DOMAIN cs = 1..n /\ n \in 1..n /\ cs[n] = b
      /\ Len(cs) = n /\ cs # <<>> /\ \A i \in 1..n : i # n => cs[i] = bs[i]
  BY <1>3, <1>4, <1>5
<1>7. PICK l \in DOMAIN v.turns : l = Len(v.turns)
  BY <1>1 DEF Written
<1>8. /\ DOMAIN w.turns = DOMAIN v.turns /\ Len(w.turns) = l /\ w.turns[l].blocks = cs
      /\ \A t \in DOMAIN v.turns :
             w.turns[t].number = v.turns[t].number /\ (t # l => w.turns[t].blocks = v.turns[t].blocks)
  BY <1>1, <1>2, <1>4, <1>5, <1>7 DEF Written
<1>9. v.turns[l].blocks = bs
  BY <1>2, <1>7 DEF Blocks, Last
<1>10. bs[n] = LastBlock(v)
  BY <1>1, <1>2, <1>4, LastOfBlocks
<1>11. ASSUME NEW t \in DOMAIN v.turns, NEW i \in DOMAIN v.turns[t].blocks
       PROVE  /\ i \in DOMAIN w.turns[t].blocks
              /\ Forth(lost, v.chat, w.chat, v.turns[t].blocks[i], w.turns[t].blocks[i])
  <2>1. CASE t = l /\ i = n
    BY <1>6, <1>8, <1>9, <1>10, <2>1
  <2>2. CASE ~(t = l /\ i = n)
    <3>1. i \in DOMAIN w.turns[t].blocks /\ w.turns[t].blocks[i] = v.turns[t].blocks[i]
      <4>1. CASE t = l
        BY <1>6, <1>8, <1>9, <2>2, <4>1
      <4>2. CASE t # l
        BY <1>8, <4>2
      <4> QED  BY <4>1, <4>2
    <3> QED  BY <3>1, ForthStays
  <2> QED  BY <2>1, <2>2
<1>12. ASSUME NEW t \in DOMAIN w.turns, NEW i \in DOMAIN w.turns[t].blocks
       PROVE  t \in DOMAIN v.turns /\ i \in DOMAIN v.turns[t].blocks
  <2>1. CASE t = l
    BY <1>6, <1>7, <1>8, <1>9, <2>1
  <2>2. CASE t # l
    BY <1>8, <2>2
  <2> QED  BY <2>1, <2>2
<1>13. Carries(lost, v, w)
  BY <1>8, <1>11, <1>12 DEF Carries
<1>14. SameNumbers(v, w)
  BY <1>8 DEF SameNumbers
<1>15. LastBlock(w) = b
  <2>1. w.turns \in Seq(TurnRecords) /\ l \in DOMAIN w.turns
    BY <1>7, <1>8 DEF Views
  <2>2. HasTurn(w) /\ Blocks(w) = cs
    BY <1>8, <2>1 DEF HasTurn, Blocks, Last
  <2> QED  BY <1>6, <2>2, LastOfBlocks
<1> QED  BY <1>13, <1>14, <1>15 DEF Moves

\* Beginnings.
LEMMA PrefixIs ==
    ASSUME NEW a \in Seq(Nat), NEW b \in Seq(Nat), Len(a) <= Len(b), \A i \in 1..Len(a) : a[i] = b[i]
    PROVE  IsPrefix(a, b)
<1>1. PICK n \in Nat : n = Len(a) /\ n <= Len(b)
  OBVIOUS
<1>2. PICK x : x = SubSeq(a, 1, n)
  OBVIOUS
<1>3. PICK y : y = SubSeq(b, 1, n)
  OBVIOUS
<1>4. x = [i \in 1..n |-> a[i]] /\ y = [i \in 1..n |-> b[i]]
  BY <1>1, <1>2, <1>3
<1>5. x = y
  BY <1>1, <1>4
<1> QED  BY <1>1, <1>2, <1>3, <1>5 DEF IsPrefix

LEMMA PrefixHas ==
    ASSUME NEW a \in Seq(Nat), NEW b \in Seq(Nat), IsPrefix(a, b)
    PROVE  Len(a) <= Len(b) /\ \A i \in 1..Len(a) : a[i] = b[i]
<1>1. PICK n \in Nat : n = Len(a)
  OBVIOUS
<1>2. n <= Len(b) /\ SubSeq(a, 1, n) = SubSeq(b, 1, n)
  BY <1>1 DEF IsPrefix
<1>3. PICK x : x = SubSeq(a, 1, n)
  OBVIOUS
<1>4. x = [i \in 1..n |-> a[i]]
  BY <1>1, <1>3
<1>5. x = [i \in 1..n |-> b[i]]
  BY <1>1, <1>2, <1>3
<1>6. \A i \in 1..n : a[i] = x[i]
  BY <1>4
<1>7. \A i \in 1..n : b[i] = x[i]
  BY <1>5
<1> QED  BY <1>1, <1>2, <1>6, <1>7

LEMMA PrefixOfMore ==
    ASSUME NEW a \in Seq(Nat), NEW b \in Seq(Nat), NEW m \in Nat, IsPrefix(a, b)
    PROVE  IsPrefix(a, Append(b, m))
<1>1. PICK c : c = Append(b, m)
  OBVIOUS
<1>1a. c \in Seq(Nat)
  BY <1>1
<1>2. Len(c) = Len(b) + 1 /\ \A i \in 1..Len(b) : c[i] = b[i]
  BY <1>1, <1>1a
<1>3. Len(a) <= Len(b) /\ \A i \in 1..Len(a) : a[i] = b[i]
  BY PrefixHas
<1>4. Len(a) <= Len(c) /\ \A i \in 1..Len(a) : a[i] = c[i]
  BY <1>2, <1>3
<1> QED  BY <1>1, <1>1a, <1>4, PrefixIs

LEMMA PrefixOfItself == \A a \in Seq(Nat) : IsPrefix(a, a)
  BY PrefixIs

\* Blocks without a result, and a block whose body changes.
LEMMA NewBlock ==
    ASSUME NEW kind \in BlockKinds, NEW id \in BlockIds, NEW body \in Seq(Nat), NEW origin \in Origins,
           kind = "tool" \/ id = Nil, kind = "text" => origin \in {Nil, "Dispatcher"}
    PROVE  Block(kind, id, body, origin) \in TurnBlocks
<1>1. Block(kind, id, body, origin)
      = [kind |-> kind, id |-> id, body |-> body, origin |-> origin, result |-> Nil]
  BY DEF Block
<1>2. Nil \in BlockIds
  BY DEF BlockIds
<1> QED  BY <1>1, <1>2 DEF TurnBlocks, WholeBlock, ToolShowsItsOwn

LEMMA NewBody ==
    ASSUME NEW b \in TurnBlocks, NEW body \in Seq(Nat), NEW c, c = [b EXCEPT !.body = body]
    PROVE  c \in TurnBlocks
<1>1. c = [kind |-> b.kind, id |-> b.id, body |-> body, origin |-> b.origin, result |-> b.result]
  BY DEF TurnBlocks
<1>2. /\ b.kind \in BlockKinds /\ b.id \in BlockIds /\ b.origin \in Origins /\ b.result \in BlockIds
      /\ ToolShowsItsOwn(b)
  BY DEF TurnBlocks, WholeBlock
<1> QED  BY <1>1, <1>2 DEF TurnBlocks, WholeBlock, ToolShowsItsOwn

\* A line of the chat.
LEMMA LineIsSaid ==
    ASSUME NEW v \in Views, NEW role \in Roles, NEW body \in Seq(Nat)
    PROVE  LET w == push_chat_message(v, role, body)
           IN  /\ Alike(v, w) /\ w.turns = v.turns /\ w.active = v.active /\ w.ended = v.ended
               /\ \E j \in DOMAIN w.chat : w.chat[j].body = body
<1>1. PICK chat : chat = v.chat
  OBVIOUS
<1>1a. chat \in Seq(ChatLines)
  BY <1>1, ViewFields
<1>2. PICK line : line = [role |-> role, body |-> body]
  OBVIOUS
<1>2a. line \in ChatLines
  BY <1>2 DEF ChatLines
<1>3. PICK more : more = Append(chat, line)
  OBVIOUS
<1>4. PICK n \in Nat : n = Len(chat)
  BY <1>1, <1>1a
<1>5. /\ more \in Seq(ChatLines) /\ DOMAIN more = 1..(n + 1) /\ DOMAIN chat = 1..n
      /\ more[n + 1] = line /\ \A i \in 1..n : more[i] = chat[i] /\ i \in 1..(n + 1)
  BY <1>1, <1>1a, <1>2, <1>2a, <1>3, <1>4
<1>6. PICK w : w = push_chat_message(v, role, body)
  OBVIOUS
<1>7. w = [turns |-> v.turns, active |-> v.active, chat |-> more, role |-> v.role,
           text |-> v.text, running |-> v.running, ended |-> v.ended]
  BY <1>1, <1>1a, <1>2, <1>2a, <1>3, <1>6 DEF push_chat_message, Views
<1>8. w \in Views
  BY <1>5, <1>7, ViewFields DEF Views
<1>9. Alike(v, w)
  BY <1>1, <1>1a, <1>5, <1>7, <1>8 DEF Alike, SaysMore
<1>10. n + 1 \in DOMAIN w.chat /\ w.chat[n + 1].body = body
  BY <1>2, <1>2a, <1>4, <1>5, <1>7
<1> QED  BY <1>6, <1>7, <1>9, <1>10

----------------------------------------------------------------------------
\* The handlers.
LEMMA NoticeApplies ==
    ASSUME NEW v \in Views, NEW origin \in Origins
    PROVE  Alike(v, push_system_notice(v, origin))
<1>1. PICK nothing : nothing = <<>>
  OBVIOUS
<1>1a. nothing \in Seq(Nat)
  BY <1>1
<1>2. "System" \in Roles /\ Nil \in BlockIds /\ "system" \in BlockKinds
  BY DEF Roles, BlockIds, BlockKinds
<1>3. PICK w : w = push_chat_message(v, "System", nothing)
  OBVIOUS
<1>4. Alike(v, w) /\ w \in Views
  <2>1. nothing \in Seq(Nat) /\ "System" \in Roles
    BY <1>1a, <1>2
  <2>2. Alike(v, w)
    BY <1>3, <2>1, LineIsSaid, Zenon
  <2> QED  BY <2>2 DEF Alike, SaysMore
<1>5. PICK b : b = Block("system", Nil, nothing, origin)
  OBVIOUS
<1>6. b \in TurnBlocks
  BY <1>1, <1>1a, <1>2, <1>5, NewBlock
<1>7. OnlyTurns(w, PushBlock(w, b))
  BY <1>4, <1>6, BlockIsPushed
<1>8. push_system_notice(v, origin) = PushBlock(w, b)
  BY <1>1, <1>1a, <1>3, <1>5 DEF push_system_notice
<1> QED  BY <1>4, <1>7, <1>8, OnlyTurnsIsAlike, AlikeTwice

LEMMA DeltaApplies ==
    ASSUME NEW v \in Views, NEW m \in Nat
    PROVE  LET w == MessageDelta(v, m)
           IN  SaysMore(v, w) /\ w.running = v.running /\ w.role # Nil /\ m \in ToSet(w.text)
<1>1. PICK text : text = Append(v.text, m)
  OBVIOUS
<1>2. text \in Seq(Nat) /\ m \in ToSet(text)
  <2>1. v.text \in Seq(Nat)
    BY ViewFields
  <2>2. Len(text) \in DOMAIN text /\ text[Len(text)] = m /\ text \in Seq(Nat)
    BY <1>1, <2>1
  <2> QED  BY <2>2 DEF ToSet
<1>3. PICK role : role = (IF v.role = Nil THEN "Assistant" ELSE v.role)
  OBVIOUS
<1>3a. role \in Roles /\ role # Nil
  BY <1>3, ViewFields, TranscriptAssumption DEF Roles
<1>4. PICK x : x = [v EXCEPT !.text = Append(@, m), !.role = IF @ = Nil THEN "Assistant" ELSE @]
  OBVIOUS
<1>5. x = [turns |-> v.turns, active |-> v.active, chat |-> v.chat, role |-> role,
           text |-> text, running |-> v.running, ended |-> v.ended]
  BY <1>1, <1>3, <1>3a, <1>4 DEF Views
<1>6. x \in Views
  BY <1>2, <1>3, <1>3a, <1>5, ViewFields DEF Views
<1>7. PICK w : w = MessageDelta(v, m)
  OBVIOUS
<1>8. PICK last : last = LastBlock(v)
  OBVIOUS
<1>9. w = IF last.kind = "text" /\ last.origin \in {Nil, "Dispatcher"}
          THEN ReplaceLast(x, [last EXCEPT !.body = x.text]) ELSE PushBlock(x, Block("text", Nil, x.text, Nil))
  BY <1>4, <1>7, <1>8 DEF MessageDelta
<1>10. x.text = text
  BY <1>5
<1>11. LastBlock(x) = last
  BY <1>5, <1>8 DEF LastBlock, HasTurn, Blocks
<1>12. OnlyTurns(x, w)
  <2>1. CASE last.kind = "text" /\ last.origin \in {Nil, "Dispatcher"}
    <3>1. last \in TurnBlocks
      BY <1>8, <2>1, BlockIsThere
    <3>2. PICK c : c = [last EXCEPT !.body = text]
      OBVIOUS
    <3>3. c \in TurnBlocks
      BY <1>2, <3>1, <3>2, NewBody
    <3>4. w = ReplaceLast(x, c)
      BY <1>9, <1>10, <2>1, <3>2
    <3> QED  BY <1>6, <1>11, <2>1, <3>3, <3>4, LastIsReplaced
  <2>2. CASE ~(last.kind = "text" /\ last.origin \in {Nil, "Dispatcher"})
    <3>1. Nil \in BlockIds /\ "text" \in BlockKinds /\ Nil \in Origins
      BY DEF BlockIds, BlockKinds, Origins
    <3>2. PICK b : b = Block("text", Nil, text, Nil)
      OBVIOUS
    <3>3. b \in TurnBlocks
      BY <1>2, <3>1, <3>2, NewBlock
    <3>4. w = PushBlock(x, b)
      BY <1>9, <1>10, <2>2, <3>2
    <3> QED  BY <1>6, <3>3, <3>4, BlockIsPushed
  <2> QED  BY <2>1, <2>2
<1>13. w \in Views /\ w.chat = v.chat /\ w.running = v.running /\ w.role = role /\ w.text = text
  BY <1>5, <1>12 DEF OnlyTurns
<1>14. SaysMore(v, w)
  BY <1>13 DEF SaysMore
<1> QED  BY <1>2, <1>3, <1>3a, <1>7, <1>13, <1>14

LEMMA CompletedApplies ==
    ASSUME NEW v \in Views
    PROVE  LET w == MessageCompleted(v)
           IN  /\ SaysMore(v, w) /\ w.running = v.running
               /\ v.role # Nil => \E j \in DOMAIN w.chat : w.chat[j].body = v.text
<1>1. PICK w : w = MessageCompleted(v)
  OBVIOUS
<1>2. CASE v.role = Nil
  <2>1. w = v
    BY <1>1, <1>2 DEF MessageCompleted
  <2> QED  BY <1>1, <1>2, <2>1 DEF SaysMore
<1>3. CASE v.role # Nil
  <2>1. v.role \in Roles /\ v.text \in Seq(Nat)
    BY ViewFields
  <2>2. PICK y : y = push_chat_message(v, v.role, v.text)
    OBVIOUS
  <2>3. Alike(v, y) /\ (\E j \in DOMAIN y.chat : y.chat[j].body = v.text) /\ y.turns = v.turns /\ y \in Views
    BY <2>1, <2>2, LineIsSaid DEF Alike, SaysMore
  <2>4. PICK nothing : nothing = <<>>
    OBVIOUS
  <2>4a. nothing \in Seq(Nat)
    BY <2>4
  <2>5. PICK x : x = [y EXCEPT !.role = Nil, !.text = nothing]
    OBVIOUS
  <2>6. x = [turns |-> y.turns, active |-> y.active, chat |-> y.chat, role |-> Nil,
             text |-> nothing, running |-> y.running, ended |-> y.ended]
    BY <2>3, <2>5 DEF Views
  <2>7. x \in Views
    BY <2>3, <2>4, <2>4a, <2>6, ViewFields DEF Views, Roles
  <2>8. PICK block : block = Block("text", Nil, v.text, "Dispatcher")
    OBVIOUS
  <2>9. block \in TurnBlocks
    BY <2>1, <2>8, NewBlock DEF BlockKinds, BlockIds, Origins
  <2>10. w = IF LastBlock(v).kind = "text" THEN ReplaceLast(x, block) ELSE PushBlock(x, block)
    BY <1>1, <1>3, <2>2, <2>4, <2>4a, <2>5, <2>8 DEF MessageCompleted
  <2>11. LastBlock(x) = LastBlock(v)
    BY <2>3, <2>6 DEF LastBlock, HasTurn, Blocks
  <2>12. OnlyTurns(x, w)
    <3>1. CASE LastBlock(v).kind = "text"
      <4>1. w = ReplaceLast(x, block) /\ LastBlock(x).kind # "none"
        BY <2>10, <2>11, <3>1
      <4> QED  BY <2>7, <2>9, <4>1, LastIsReplaced
    <3>2. CASE LastBlock(v).kind # "text"
      BY <2>7, <2>9, <2>10, <3>2, BlockIsPushed
    <3> QED  BY <3>1, <3>2
  <2>13. w \in Views /\ w.chat = y.chat /\ w.running = y.running
    BY <2>6, <2>12 DEF OnlyTurns
  <2>14. SaysMore(v, w) /\ w.running = v.running /\ \E j \in DOMAIN w.chat : w.chat[j].body = v.text
    BY <2>3, <2>13 DEF Alike, SaysMore
  <2> QED  BY <1>1, <2>14
<1> QED  BY <1>2, <1>3

LEMMA AbortedApplies ==
    ASSUME NEW v \in Views, NEW body \in Seq(Nat)
    PROVE  OnlyTurns(v, Aborted(v, body))
<1>1. PICK block : block = Block("aborted", Nil, body, Nil)
  OBVIOUS
<1>2. block \in TurnBlocks
  BY <1>1, NewBlock DEF BlockKinds, BlockIds, Origins
<1>3. CASE LastBlock(v).kind = "text" /\ LastBlock(v).origin = Nil
  <2>1. Aborted(v, body) = ReplaceLast(v, block) /\ LastBlock(v).kind # "none"
    BY <1>1, <1>3 DEF Aborted
  <2> QED  BY <1>2, <2>1, LastIsReplaced
<1>4. CASE ~(LastBlock(v).kind = "text" /\ LastBlock(v).origin = Nil)
  <2>1. Aborted(v, body) = PushBlock(v, block)
    BY <1>1, <1>4 DEF Aborted
  <2> QED  BY <1>2, <2>1, BlockIsPushed
<1> QED  BY <1>3, <1>4

LEMMA AbortApplies ==
    ASSUME NEW v \in Views
    PROVE  SaysMore(v, MessageAbort(v)) /\ MessageAbort(v).running = FALSE
<1>1. v.text \in Seq(Nat) /\ "System" \in Roles /\ Nil \in Roles
  BY ViewFields DEF Roles
<1>2. PICK w : w = IF v.role = "Assistant" THEN push_chat_message(v, "System", v.text) ELSE v
  OBVIOUS
<1>3. Alike(v, w) /\ w \in Views
  <2>1. CASE v.role = "Assistant"
    <3>1. w = push_chat_message(v, "System", v.text)
      BY <1>2, <2>1
    <3> QED  BY <1>1, <3>1, LineIsSaid DEF Alike, SaysMore
  <2>2. CASE v.role # "Assistant"
    BY <1>2, <2>2, ViewStays, OnlyTurnsIsAlike
  <2> QED  BY <2>1, <2>2
<1>4. PICK x : x = Aborted(w, v.text)
  OBVIOUS
<1>5. OnlyTurns(w, x) /\ x \in Views
  BY <1>1, <1>3, <1>4, AbortedApplies DEF OnlyTurns
<1>6. PICK nothing : nothing = <<>>
  OBVIOUS
<1>6a. nothing \in Seq(Nat)
  BY <1>6
<1>7. PICK y : y = [x EXCEPT !.role = Nil, !.text = nothing, !.running = FALSE]
  OBVIOUS
<1>8. y = [turns |-> x.turns, active |-> x.active, chat |-> x.chat, role |-> Nil,
           text |-> nothing, running |-> FALSE, ended |-> x.ended]
  BY <1>5, <1>7 DEF Views
<1>9. y \in Views
  BY <1>1, <1>5, <1>6, <1>6a, <1>8, ViewFields DEF Views
<1>10. y = MessageAbort(v)
  BY <1>2, <1>4, <1>6, <1>6a, <1>7 DEF MessageAbort
<1>11. y.chat = w.chat /\ y.running = FALSE
  BY <1>5, <1>8 DEF OnlyTurns
<1>12. SaysMore(v, y)
  BY <1>3, <1>9, <1>11 DEF Alike, SaysMore
<1> QED  BY <1>10, <1>11, <1>12

LEMMA TurnStartedApplies ==
    ASSUME NEW v \in Views, NEW n \in Nat
    PROVE  LET w == TurnStarted(v, n)
           IN  SaysMore(v, w) /\ w.role = v.role /\ w.text = v.text /\ w.running = TRUE
<1>1. PICK turns : turns = v.turns
  OBVIOUS
<1>1a. turns \in Seq(TurnRecords)
  BY <1>1, ViewFields
<1>2. PICK nothing : nothing = <<>>
  OBVIOUS
<1>2a. nothing \in Seq(TurnBlocks)
  BY <1>2
<1>3. PICK t : t = [number |-> n, blocks |-> nothing]
  OBVIOUS
<1>3a. t \in TurnRecords
  BY <1>3, <1>2, <1>2a DEF TurnRecords
<1>4. PICK more : more = Append(turns, t)
  OBVIOUS
<1>4a. more \in Seq(TurnRecords)
  BY <1>4, <1>1, <1>1a, <1>3, <1>3a
<1>5. PICK w : w = TurnStarted(v, n)
  OBVIOUS
<1>6. w = [turns |-> more, active |-> n, chat |-> v.chat, role |-> v.role,
           text |-> v.text, running |-> TRUE, ended |-> v.ended]
  BY <1>1, <1>1a, <1>2, <1>2a, <1>3, <1>3a, <1>4, <1>4a, <1>5 DEF TurnStarted, Views
<1>7. w \in Views
  BY <1>4, <1>4a, <1>6, ViewFields DEF Views
<1>8. SaysMore(v, w) /\ w.role = v.role /\ w.text = v.text /\ w.running = TRUE
  BY <1>6, <1>7 DEF SaysMore
<1> QED  BY <1>5, <1>8

LEMMA TurnEndedApplies ==
    ASSUME NEW v \in Views
    PROVE  SaysMore(v, TurnEnded(v)) /\ TurnEnded(v).running = FALSE
<1>1. v.text \in Seq(Nat) /\ Nil \in Roles
  BY ViewFields DEF Roles
<1>2. PICK w : w = IF v.role # Nil /\ v.text # <<>> /\ HasTurn(v) THEN Aborted(v, v.text) ELSE v
  OBVIOUS
<1>3. OnlyTurns(v, w) /\ w \in Views
  BY <1>1, <1>2, AbortedApplies, ViewStays DEF OnlyTurns
<1>4. PICK text \in Seq(Nat) : text = IF v.role = Nil THEN w.text ELSE <<>>
  <2>1. <<>> \in Seq(Nat) /\ w.text \in Seq(Nat)
    BY <1>3, ViewFields
  <2> QED  BY <2>1
<1>5. PICK y : y = [w EXCEPT !.role = Nil, !.text = IF v.role = Nil THEN @ ELSE <<>>,
                             !.active = Nil, !.running = FALSE, !.ended = @ + 1]
  OBVIOUS
<1>6. y = [turns |-> w.turns, active |-> Nil, chat |-> w.chat, role |-> Nil,
           text |-> text, running |-> FALSE, ended |-> w.ended + 1]
  BY <1>3, <1>4, <1>5 DEF Views
<1>7. w.ended + 1 \in Nat
  BY <1>3, ViewFields
<1>8. y \in Views
  BY <1>1, <1>3, <1>6, <1>7, ViewFields DEF Views
<1>9. y = TurnEnded(v)
  BY <1>2, <1>5 DEF TurnEnded
<1>10. SaysMore(v, y) /\ y.running = FALSE
  BY <1>3, <1>6, <1>8 DEF OnlyTurns, SaysMore
<1> QED  BY <1>9, <1>10

LEMMA StartApplies ==
    ASSUME NEW v \in Views, NEW role \in Roles
    PROVE  SaysMore(v, MessageStart(v, role)) /\ MessageStart(v, role).running = v.running
<1>1. PICK nothing : nothing = <<>>
  OBVIOUS
<1>1a. nothing \in Seq(Nat)
  BY <1>1
<1>2. PICK w : w = MessageStart(v, role)
  OBVIOUS
<1>3. w = [turns |-> v.turns, active |-> v.active, chat |-> v.chat, role |-> role,
           text |-> nothing, running |-> v.running, ended |-> v.ended]
  BY <1>1, <1>1a, <1>2 DEF MessageStart, Views
<1>4. w \in Views
  BY <1>1, <1>1a, <1>3, ViewFields DEF Views
<1> QED  BY <1>2, <1>3, <1>4 DEF SaysMore

LEMMA AgentCompletedApplies ==
    ASSUME NEW v \in Views
    PROVE  LET w == AgentCompleted(v)
           IN  SaysMore(v, w) /\ w.role = v.role /\ w.text = v.text /\ w.running = FALSE
<1>1. PICK w : w = AgentCompleted(v)
  OBVIOUS
<1>2. w = [turns |-> v.turns, active |-> v.active, chat |-> v.chat, role |-> v.role,
           text |-> v.text, running |-> FALSE, ended |-> v.ended]
  BY <1>1 DEF AgentCompleted, Views
<1>3. w \in Views
  BY <1>2, ViewFields DEF Views
<1>4. SaysMore(v, w) /\ w.role = v.role /\ w.text = v.text /\ w.running = FALSE
  BY <1>2, <1>3 DEF SaysMore
<1> QED  BY <1>1, <1>4

LEMMA FreshViewIsView == FreshView \in Views /\ FreshView.turns = <<>> /\ FreshView.running = FALSE
<1>1. PICK nothing : nothing = <<>>
  OBVIOUS
<1>1a. nothing \in Seq(Nat) /\ nothing \in Seq(TurnRecords)
  BY <1>1
<1>2. [role |-> "System", body |-> nothing] \in ChatLines
  BY <1>1, <1>1a DEF ChatLines, Roles
<1>3. PICK chat : chat = <<[role |-> "System", body |-> nothing]>>
  OBVIOUS
<1>3a. chat \in Seq(ChatLines)
  BY <1>3, <1>2
<1>4. FreshView = [turns |-> nothing, active |-> Nil, chat |-> chat, role |-> Nil, text |-> nothing,
                   running |-> FALSE, ended |-> 0]
  BY <1>1, <1>1a, <1>3, <1>3a DEF FreshView, Views
<1>5. Nil \in Roles /\ Nil \in Nat \cup {Nil} /\ 0 \in Nat
  BY DEF Roles
<1>6. FreshView \in Views
  BY <1>1, <1>1a, <1>3, <1>3a, <1>4, <1>5 DEF Views
<1> QED  BY <1>1, <1>1a, <1>4, <1>6

LEMMA ResetApplies ==
    ASSUME NEW v \in Views
    PROVE  SessionReset(v) \in Views /\ SessionReset(v).running = FALSE
<1>1. PICK f \in Views : f = FreshView /\ f.running = FALSE
  BY FreshViewIsView
<1>2. PICK n \in Nat : n = v.ended
  BY ViewFields
<1>3. PICK w : w = SessionReset(v)
  OBVIOUS
<1>4. w = [turns |-> f.turns, active |-> f.active, chat |-> f.chat, role |-> f.role,
           text |-> f.text, running |-> f.running, ended |-> n]
  BY <1>1, <1>2, <1>3 DEF SessionReset, Views
<1>5. w \in Views
  BY <1>4, ViewFields DEF Views
<1> QED  BY <1>1, <1>3, <1>4, <1>5

LEMMA ThinkingApplies == \A v \in Views : OnlyTurns(v, ThinkingDelta(v))
<1> SUFFICES ASSUME NEW v \in Views PROVE OnlyTurns(v, ThinkingDelta(v))
  OBVIOUS
<1>1. CASE LastBlock(v).kind = "thinking"
  <2>1. PICK b : b = LastBlock(v)
    OBVIOUS
  <2>1b. PICK body : body = <<1>>
    OBVIOUS
  <2>1a. b \in TurnBlocks /\ body \in Seq(Nat) /\ body = <<1>>
    BY <2>1, <2>1b, <1>1, BlockIsThere
  <2>2. PICK c : c = [b EXCEPT !.body = body]
    OBVIOUS
  <2>3. c \in TurnBlocks
    BY <2>1, <2>1a, <2>2, NewBody
  <2>4. ThinkingDelta(v) = ReplaceLast(v, c)
    BY <1>1, <2>1, <2>1a, <2>2 DEF ThinkingDelta
  <2> QED  BY <1>1, <2>3, <2>4, LastIsReplaced
<1>2. CASE LastBlock(v).kind # "thinking"
  <2>1. PICK body : body = <<>>
    OBVIOUS
  <2>1a. body \in Seq(Nat)
    BY <2>1
  <2>2. PICK b : b = Block("thinking", Nil, body, Nil)
    OBVIOUS
  <2>3. b \in TurnBlocks
    BY <2>1, <2>1a, <2>2, NewBlock DEF BlockKinds, BlockIds, Origins
  <2>4. ThinkingDelta(v) = PushBlock(v, b)
    BY <1>2, <2>1, <2>1a, <2>2 DEF ThinkingDelta
  <2> QED  BY <2>3, <2>4, BlockIsPushed
<1> QED  BY <1>1, <1>2

LEMMA ToolsApply ==
    ASSUME NEW v \in Views, NEW id \in ToolIds, NEW partial \in BOOLEAN
    PROVE  /\ OnlyTurns(v, ToolStarted(v, id)) /\ OnlyTurns(v, ToolUpdated(v, id, partial))
           /\ OnlyTurns(v, ToolEnded(v, id))
<1>1. OnlyTurns(v, ToolStarted(v, id))
  <2>1. PICK body : body = <<>>
    OBVIOUS
  <2>1a. body \in Seq(Nat)
    BY <2>1
  <2>2. PICK b : b = Block("tool", id, body, "Dispatcher")
    OBVIOUS
  <2>3. b \in TurnBlocks
    BY <2>1, <2>1a, <2>2, NewBlock DEF BlockKinds, BlockIds, Origins
  <2>4. ToolStarted(v, id) = PushBlock(v, b)
    BY <2>1, <2>1a, <2>2 DEF ToolStarted
  <2> QED  BY <2>3, <2>4, BlockIsPushed
<1>2. OnlyTurns(v, ToolUpdated(v, id, partial))
  <2>1. CASE partial /\ LastBlock(v).kind = "tool" /\ LastBlock(v).id = id
    <3>1. PICK b : b = LastBlock(v)
      OBVIOUS
    <3>1b. PICK body : body = <<1>>
      OBVIOUS
    <3>1a. b \in TurnBlocks /\ body \in Seq(Nat) /\ body = <<1>>
      BY <3>1, <3>1b, <2>1, BlockIsThere
    <3>2. PICK c : c = [b EXCEPT !.body = body]
      OBVIOUS
    <3>3. c \in TurnBlocks
      BY <3>1, <3>1a, <3>2, NewBody
    <3>4. ToolUpdated(v, id, partial) = ReplaceLast(v, c)
      BY <2>1, <3>1, <3>1a, <3>2 DEF ToolUpdated
    <3> QED  BY <2>1, <3>3, <3>4, LastIsReplaced
  <2>2. CASE ~(partial /\ LastBlock(v).kind = "tool" /\ LastBlock(v).id = id)
    BY <2>2, ViewStays DEF ToolUpdated
  <2> QED  BY <2>1, <2>2
<1>3. OnlyTurns(v, ToolEnded(v, id))
  <2>1. CASE LastBlock(v).kind = "tool" /\ LastBlock(v).id = id
    <3>1. PICK b \in TurnBlocks : b = LastBlock(v) /\ b.kind = "tool" /\ b.id = id
      BY <2>1, BlockIsThere
    <3>2. PICK c : c = [b EXCEPT !.result = id]
      OBVIOUS
    <3>3. c = [kind |-> b.kind, id |-> b.id, body |-> b.body, origin |-> b.origin, result |-> id]
      BY <3>2 DEF TurnBlocks
    <3>4. /\ b.kind \in BlockKinds /\ b.id \in BlockIds /\ b.origin \in Origins /\ b.body \in Seq(Nat)
          /\ id \in BlockIds
      BY <3>1 DEF TurnBlocks, BlockIds
    <3>5. c \in TurnBlocks
      BY <3>1, <3>3, <3>4 DEF TurnBlocks, WholeBlock, ToolShowsItsOwn
    <3>6. ToolEnded(v, id) = ReplaceLast(v, c)
      BY <2>1, <3>1, <3>2 DEF ToolEnded
    <3> QED  BY <2>1, <3>5, <3>6, LastIsReplaced
  <2>2. CASE ~(LastBlock(v).kind = "tool" /\ LastBlock(v).id = id)
    BY <2>2, ViewStays DEF ToolEnded
  <2> QED  BY <2>1, <2>2
<1> QED  BY <1>1, <1>2, <1>3

----------------------------------------------------------------------------
\* What the handlers do to the first forms.  The message that is being streamed is in the last block,
\* as far as it was streamed.
Opened(lost, v) ==
    lost = 0 /\ LastBlock(v).kind = "text" /\ LastBlock(v).origin = Nil =>
        v.role # Nil /\ LastBlock(v).body = v.text /\ Len(v.text) # 0

LEMMA SameTurns ==
    ASSUME NEW v, NEW x, x.turns = v.turns, NEW w, NEW b
    PROVE  /\ LastBlock(x) = LastBlock(v)
           /\ BlockPushed(x, w, b) => BlockPushed(v, w, b)
           /\ Replaced(x, w, b) => Replaced(v, w, b)
<1>1. (HasTurn(x) <=> HasTurn(v)) /\ Blocks(x) = Blocks(v)
  BY DEF HasTurn, Blocks
<1>2. \A bs : Written(x, w, bs) => Written(v, w, bs)
  BY DEF Written
<1> QED  BY <1>1, <1>2 DEF LastBlock, BlockPushed, Replaced

LEMMA AlikeIsFuller == \A v, w : SaysMore(v, w) => w \in Views /\ Fuller(v.chat, w.chat)
  BY DEF SaysMore, Fuller

LEMMA NoticeMoves ==
    ASSUME NEW v \in Views, NEW origin \in Origins, NEW lost \in Nat
    PROVE  LET w == push_system_notice(v, origin) IN Moves(lost, v, w) /\ LastBlock(w).kind # "text"
<1>0. PICK nothing : nothing = <<>>
  OBVIOUS
<1>1. nothing \in Seq(Nat) /\ nothing = <<>>
  BY <1>0
<1>2. PICK x : x = push_chat_message(v, "System", nothing)
  OBVIOUS
<1>3. SaysMore(v, x) /\ x.turns = v.turns
  <2>1. "System" \in Roles
    BY DEF Roles
  <2> QED  BY <1>1, <1>2, <2>1, LineIsSaid DEF Alike
<1>4. PICK b : b = Block("system", Nil, nothing, origin)
  OBVIOUS
<1>5. b \in TurnBlocks /\ b.kind = "system"
  <2>1. b \in TurnBlocks
    BY <1>4, NewBlock, <1>1 DEF BlockKinds, BlockIds
  <2> QED  BY <1>4, <2>1 DEF Block
<1>6. PICK w : w = PushBlock(x, b)
  OBVIOUS
<1>7. w \in Views /\ w.chat = x.chat /\ BlockPushed(x, w, b)
  BY <1>3, <1>5, <1>6, BlockIsPushed DEF SaysMore, OnlyTurns
<1>8. BlockPushed(v, w, b) /\ Fuller(v.chat, w.chat)
  BY <1>3, <1>7, SameTurns, AlikeIsFuller
<1>9. lost = 0 => StillReads(b, b, w.chat)
  BY <1>5 DEF StillReads
<1>10. Moves(lost, v, w) /\ LastBlock(w).kind # "text"
  BY <1>5, <1>7, <1>8, <1>9, PushedMoves
<1>11. w = push_system_notice(v, origin)
  BY <1>1, <1>2, <1>4, <1>6 DEF push_system_notice
<1> QED  BY <1>10, <1>11

LEMMA FullerStays == \A c : Fuller(c, c)
  BY DEF Fuller

\* A block that is pushed, and one that takes the place of the last.
LEMMA PushMoves ==
    ASSUME NEW v \in Views, NEW x \in Views, x.turns = v.turns, Fuller(v.chat, x.chat),
           NEW b \in TurnBlocks, NEW lost \in Nat, lost = 0 => StillReads(b, b, x.chat)
    PROVE  LET w == PushBlock(x, b)
           IN  Moves(lost, v, w) /\ (LastBlock(w) = b \/ LastBlock(w).kind = "none")
<1>1. PICK w : w = PushBlock(x, b)
  OBVIOUS
<1>2. w \in Views /\ w.chat = x.chat /\ BlockPushed(x, w, b)
  BY <1>1, BlockIsPushed DEF OnlyTurns
<1>3. BlockPushed(v, w, b)
  BY <1>2, SameTurns
<1> QED  BY <1>1, <1>2, <1>3, PushedMoves

LEMMA ReplaceMoves ==
    ASSUME NEW v \in Views, NEW x \in Views, x.turns = v.turns, Fuller(v.chat, x.chat),
           LastBlock(v).kind # "none", NEW b \in TurnBlocks, NEW lost \in Nat,
           Forth(lost, v.chat, x.chat, LastBlock(v), b)
    PROVE  LET w == ReplaceLast(x, b) IN Moves(lost, v, w) /\ LastBlock(w) = b
<1>1. PICK w : w = ReplaceLast(x, b)
  OBVIOUS
<1>2. LastBlock(x).kind # "none"
  BY SameTurns
<1>3. w \in Views /\ w.chat = x.chat /\ Replaced(x, w, b)
  BY <1>1, <1>2, LastIsReplaced DEF OnlyTurns
<1>4. Replaced(v, w, b)
  BY <1>3, SameTurns
<1> QED  BY <1>1, <1>3, <1>4, ReplacedMoves

\* A handler that leaves the last block, or puts one there that is no message.
Quiet(v, w) == LastBlock(w) = LastBlock(v) \/ LastBlock(w).kind # "text"

LEMMA StayMoves == \A v, lost : Moves(lost, v, v) /\ Quiet(v, v)
  BY SameMoves, FullerStays DEF Quiet

LEMMA ThinkingMoves ==
    ASSUME NEW v \in Views, NEW lost \in Nat
    PROVE  LET w == ThinkingDelta(v) IN Moves(lost, v, w) /\ Quiet(v, w)
<1>f. Fuller(v.chat, v.chat)
  BY FullerStays
<1>1. CASE LastBlock(v).kind = "thinking"
  <2>1. PICK b \in TurnBlocks : b = LastBlock(v)
    BY <1>1, BlockIsThere
  <2>2. PICK body : body = <<1>>
    OBVIOUS
  <2>3. PICK c : c = [b EXCEPT !.body = body]
    OBVIOUS
  <2>4. c \in TurnBlocks /\ c.kind = "thinking" /\ c.id = b.id /\ b.kind = "thinking"
    <3>1. body \in Seq(Nat)
      BY <2>2
    <3>2. c \in TurnBlocks
      BY <2>3, <3>1, NewBody
    <3> QED  BY <1>1, <2>1, <2>3, <3>2 DEF TurnBlocks
  <2>5. Forth(lost, v.chat, v.chat, b, c)
    BY <2>4 DEF Forth, GoesOn, StillReads
  <2>6. ThinkingDelta(v) = ReplaceLast(v, c)
    BY <1>1, <2>1, <2>2, <2>3 DEF ThinkingDelta
  <2>7. Moves(lost, v, ReplaceLast(v, c)) /\ LastBlock(ReplaceLast(v, c)) = c
    BY <1>f, <1>1, <2>1, <2>4, <2>5, ReplaceMoves
  <2> QED  BY <2>4, <2>6, <2>7 DEF Quiet
<1>2. CASE LastBlock(v).kind # "thinking"
  <2>0. PICK body : body = <<>>
    OBVIOUS
  <2>1. body \in Seq(Nat) /\ body = <<>> /\ Len(body) = 0
    BY <2>0
  <2>2. PICK b : b = Block("thinking", Nil, body, Nil)
    OBVIOUS
  <2>3. b \in TurnBlocks /\ b.kind = "thinking" /\ b.body = body /\ Len(body) = 0
    <3>1. b \in TurnBlocks
      BY <2>1, <2>2, NewBlock DEF BlockKinds, BlockIds, Origins
    <3> QED  BY <2>1, <2>2, <3>1 DEF Block
  <2>4. StillReads(b, b, v.chat)
    BY <2>3 DEF StillReads
  <2>5. ThinkingDelta(v) = PushBlock(v, b)
    BY <1>2, <2>1, <2>2 DEF ThinkingDelta
  <2>6. LET w == PushBlock(v, b) IN Moves(lost, v, w) /\ (LastBlock(w) = b \/ LastBlock(w).kind = "none")
    BY <1>f, <2>3, <2>4, PushMoves
  <2> QED  BY <2>3, <2>5, <2>6 DEF Quiet
<1> QED  BY <1>1, <1>2

LEMMA ToolsMove ==
    ASSUME NEW v \in Views, NEW id \in ToolIds, NEW partial \in BOOLEAN, NEW lost \in Nat
    PROVE  \A w \in {ToolStarted(v, id), ToolUpdated(v, id, partial), ToolEnded(v, id)} :
              Moves(lost, v, w) /\ Quiet(v, w)
<1>f. Fuller(v.chat, v.chat)
  BY FullerStays
<1>1. Moves(lost, v, ToolStarted(v, id)) /\ Quiet(v, ToolStarted(v, id))
  <2>0. PICK body : body = <<>>
    OBVIOUS
  <2>1. body \in Seq(Nat) /\ body = <<>> /\ Len(body) = 0
    BY <2>0
  <2>2. PICK b : b = Block("tool", id, body, "Dispatcher")
    OBVIOUS
  <2>3. b \in TurnBlocks /\ b.kind = "tool" /\ b.body = body /\ Len(body) = 0
    <3>1. b \in TurnBlocks
      BY <2>1, <2>2, NewBlock DEF BlockKinds, BlockIds, Origins
    <3> QED  BY <2>1, <2>2, <3>1 DEF Block
  <2>4. StillReads(b, b, v.chat)
    BY <2>3 DEF StillReads
  <2>5. ToolStarted(v, id) = PushBlock(v, b)
    BY <2>1, <2>2 DEF ToolStarted
  <2>6. LET w == PushBlock(v, b) IN Moves(lost, v, w) /\ (LastBlock(w) = b \/ LastBlock(w).kind = "none")
    BY <1>f, <2>3, <2>4, PushMoves
  <2> QED  BY <2>3, <2>5, <2>6 DEF Quiet
<1>t. ASSUME LastBlock(v).kind = "tool", NEW c \in TurnBlocks, c.kind = "tool", c.id = LastBlock(v).id
      PROVE  Moves(lost, v, ReplaceLast(v, c)) /\ Quiet(v, ReplaceLast(v, c))
  <2>1. PICK b \in TurnBlocks : b = LastBlock(v)
    BY <1>t, BlockIsThere
  <2>2. Forth(lost, v.chat, v.chat, b, c)
    BY <1>t, <2>1 DEF Forth, GoesOn, StillReads
  <2>3. Moves(lost, v, ReplaceLast(v, c)) /\ LastBlock(ReplaceLast(v, c)) = c
    BY <1>f, <1>t, <2>1, <2>2, ReplaceMoves
  <2> QED  BY <1>t, <2>3 DEF Quiet
<1>2. Moves(lost, v, ToolUpdated(v, id, partial)) /\ Quiet(v, ToolUpdated(v, id, partial))
  <2>1. CASE partial /\ LastBlock(v).kind = "tool" /\ LastBlock(v).id = id
    <3>1. PICK b \in TurnBlocks : b = LastBlock(v)
      BY <2>1, BlockIsThere
    <3>2. PICK body : body = <<1>>
      OBVIOUS
    <3>3. PICK c : c = [b EXCEPT !.body = body]
      OBVIOUS
    <3>4. c \in TurnBlocks /\ c.kind = b.kind /\ c.id = b.id
      <4>1. body \in Seq(Nat)
        BY <3>2
      <4>2. c \in TurnBlocks
        BY <3>3, <4>1, NewBody
      <4> QED  BY <3>3, <4>2 DEF TurnBlocks
    <3>5. ToolUpdated(v, id, partial) = ReplaceLast(v, c)
      BY <2>1, <3>1, <3>2, <3>3 DEF ToolUpdated
    <3> QED  BY <1>t, <2>1, <3>1, <3>4, <3>5
  <2>2. CASE ~(partial /\ LastBlock(v).kind = "tool" /\ LastBlock(v).id = id)
    BY <2>2, StayMoves DEF ToolUpdated
  <2> QED  BY <2>1, <2>2
<1>3. Moves(lost, v, ToolEnded(v, id)) /\ Quiet(v, ToolEnded(v, id))
  <2>1. CASE LastBlock(v).kind = "tool" /\ LastBlock(v).id = id
    <3>1. PICK b \in TurnBlocks : b = LastBlock(v) /\ b.kind = "tool" /\ b.id = id
      BY <2>1, BlockIsThere
    <3>2. PICK c : c = [b EXCEPT !.result = id]
      OBVIOUS
    <3>3. c = [kind |-> b.kind, id |-> b.id, body |-> b.body, origin |-> b.origin, result |-> id]
      BY <3>2 DEF TurnBlocks
    <3>4. /\ b.kind \in BlockKinds /\ b.id \in BlockIds /\ b.origin \in Origins /\ b.body \in Seq(Nat)
          /\ id \in BlockIds
      BY <3>1 DEF TurnBlocks, BlockIds
    <3>5. c \in TurnBlocks
      BY <3>1, <3>3, <3>4 DEF TurnBlocks, WholeBlock, ToolShowsItsOwn
    <3>6. ToolEnded(v, id) = ReplaceLast(v, c)
      BY <2>1, <3>1, <3>2 DEF ToolEnded
    <3>7. c.kind = "tool" /\ c.id = LastBlock(v).id
      BY <3>1, <3>3
    <3> QED  BY <1>t, <2>1, <3>5, <3>6, <3>7
  <2>2. CASE ~(LastBlock(v).kind = "tool" /\ LastBlock(v).id = id)
    BY <2>2, StayMoves DEF ToolEnded
  <2> QED  BY <2>1, <2>2
<1> QED  BY <1>1, <1>2, <1>3

\* A message is aborted.
LEMMA AbortedMoves ==
    ASSUME NEW v \in Views, NEW x \in Views, x.turns = v.turns, Fuller(v.chat, x.chat),
           NEW lost \in Nat, Opened(lost, v)
    PROVE  LET w == Aborted(x, v.text) IN Moves(lost, v, w) /\ LastBlock(w).kind # "text"
<1>1. PICK text \in Seq(Nat) : text = v.text
  BY ViewFields
<1>2. PICK b : b = Block("aborted", Nil, text, Nil)
  OBVIOUS
<1>3. b \in TurnBlocks /\ b.kind = "aborted" /\ b.body = text /\ b.id = Nil
  <2>1. b \in TurnBlocks
    BY <1>2, NewBlock DEF BlockKinds, BlockIds, Origins
  <2> QED  BY <1>2, <2>1 DEF Block
<1>4. LastBlock(x) = LastBlock(v)
  BY SameTurns
<1>5. CASE LastBlock(v).kind = "text" /\ LastBlock(v).origin = Nil
  <2>1. PICK l \in TurnBlocks : l = LastBlock(v)
    BY <1>5, BlockIsThere
  <2>2. l.kind = "text" /\ l.id = Nil /\ l.origin # "Dispatcher"
    BY <1>5, <2>1, TranscriptAssumption DEF TurnBlocks, WholeBlock
  <2>3. lost = 0 => l.body = text
    BY <1>1, <1>5, <2>1 DEF Opened
  <2>4. Forth(lost, v.chat, x.chat, l, b)
    BY <1>3, <2>2, <2>3 DEF Forth, GoesOn, StillReads
  <2>5. Aborted(x, v.text) = ReplaceLast(x, b)
    BY <1>1, <1>2, <1>4, <1>5 DEF Aborted
  <2>6. Moves(lost, v, ReplaceLast(x, b)) /\ LastBlock(ReplaceLast(x, b)) = b
    BY <1>3, <1>5, <2>1, <2>4, ReplaceMoves
  <2> QED  BY <1>3, <2>5, <2>6
<1>6. CASE ~(LastBlock(v).kind = "text" /\ LastBlock(v).origin = Nil)
  <2>1. StillReads(b, b, x.chat)
    BY <1>3, PrefixOfItself DEF StillReads
  <2>2. Aborted(x, v.text) = PushBlock(x, b)
    BY <1>1, <1>2, <1>4, <1>6 DEF Aborted
  <2>3. LET w == PushBlock(x, b) IN Moves(lost, v, w) /\ (LastBlock(w) = b \/ LastBlock(w).kind = "none")
    BY <1>3, <2>1, PushMoves
  <2> QED  BY <1>3, <2>2, <2>3
<1> QED  BY <1>5, <1>6

LEMMA AbortMoves ==
    ASSUME NEW v \in Views, NEW lost \in Nat, Opened(lost, v)
    PROVE  LET w == MessageAbort(v) IN Moves(lost, v, w) /\ w.role = Nil /\ LastBlock(w).kind # "text"
<1>1. v.text \in Seq(Nat) /\ "System" \in Roles /\ Nil \in Roles
  BY ViewFields DEF Roles
<1>2. PICK x : x = IF v.role = "Assistant" THEN push_chat_message(v, "System", v.text) ELSE v
  OBVIOUS
<1>3. x \in Views /\ x.turns = v.turns /\ Fuller(v.chat, x.chat)
  <2>1. CASE v.role = "Assistant"
    <3>1. x = push_chat_message(v, "System", v.text)
      BY <1>2, <2>1
    <3> QED  BY <1>1, <3>1, LineIsSaid, AlikeIsFuller DEF Alike
  <2>2. CASE v.role # "Assistant"
    BY <1>2, <2>2, FullerStays
  <2> QED  BY <2>1, <2>2
<1>4. PICK y : y = Aborted(x, v.text)
  OBVIOUS
<1>5. y \in Views /\ Moves(lost, v, y) /\ LastBlock(y).kind # "text"
  BY <1>1, <1>3, <1>4, AbortedApplies, AbortedMoves DEF OnlyTurns
<1>6. PICK nothing : nothing = <<>>
  OBVIOUS
<1>7. PICK w : w = [y EXCEPT !.role = Nil, !.text = nothing, !.running = FALSE]
  OBVIOUS
<1>8. w = MessageAbort(v)
  BY <1>2, <1>4, <1>6, <1>7 DEF MessageAbort
<1>9. w.turns = y.turns /\ w.chat = y.chat /\ w.role = Nil
  BY <1>5, <1>7 DEF Views
<1>10. Moves(lost, v, w)
  BY <1>5, <1>9 DEF Moves, Carries, SameNumbers
<1>11. LastBlock(w).kind # "text"
  BY <1>5, <1>9, SameTurns
<1> QED  BY <1>8, <1>9, <1>10, <1>11

LEMMA DeltaMoves ==
    ASSUME NEW v \in Views, NEW m \in Nat, NEW lost \in Nat, Opened(lost, v)
    PROVE  LET w == MessageDelta(v, m) IN Moves(lost, v, w) /\ w.role # Nil /\ Opened(lost, w)
<1>1. PICK text : text = Append(v.text, m)
  OBVIOUS
<1>2. text \in Seq(Nat) /\ Len(text) # 0
  <2>1. v.text \in Seq(Nat)
    BY ViewFields
  <2> QED  BY <1>1, <2>1
<1>3. PICK role : role = (IF v.role = Nil THEN "Assistant" ELSE v.role)
  OBVIOUS
<1>4. role \in Roles /\ role # Nil
  BY <1>3, ViewFields, TranscriptAssumption DEF Roles
<1>5. PICK x : x = [v EXCEPT !.text = Append(@, m), !.role = IF @ = Nil THEN "Assistant" ELSE @]
  OBVIOUS
<1>6. x = [turns |-> v.turns, active |-> v.active, chat |-> v.chat, role |-> role,
           text |-> text, running |-> v.running, ended |-> v.ended]
  BY <1>1, <1>3, <1>4, <1>5 DEF Views
<1>7. x \in Views
  BY <1>2, <1>4, <1>6, ViewFields DEF Views
<1>8. x.turns = v.turns /\ Fuller(v.chat, x.chat) /\ x.text = text /\ x.role # Nil /\ x.chat = v.chat
  BY <1>4, <1>6, FullerStays
<1>9. PICK w : w = MessageDelta(v, m)
  OBVIOUS
<1>10. PICK last : last = LastBlock(v)
  OBVIOUS
<1>11. w = IF last.kind = "text" /\ last.origin \in {Nil, "Dispatcher"}
           THEN ReplaceLast(x, [last EXCEPT !.body = x.text]) ELSE PushBlock(x, Block("text", Nil, x.text, Nil))
  BY <1>5, <1>9, <1>10 DEF MessageDelta
<1>12. CASE last.kind = "text" /\ last.origin \in {Nil, "Dispatcher"}
  <2>1. last \in TurnBlocks
    BY <1>10, <1>12, BlockIsThere
  <2>2. PICK c : c = [last EXCEPT !.body = text]
    OBVIOUS
  <2>3. c \in TurnBlocks /\ c.kind = "text" /\ c.id = last.id /\ c.origin = last.origin /\ c.body = text
    <3>1. c \in TurnBlocks
      BY <1>2, <2>1, <2>2, NewBody
    <3> QED  BY <1>12, <2>1, <2>2, <3>1 DEF TurnBlocks
  <2>4. w = ReplaceLast(x, c)
    BY <1>8, <1>11, <1>12, <2>2
  <2>5. Forth(lost, v.chat, x.chat, last, c)
    <3> SUFFICES ASSUME NEW e \in LedgerBlocks, GoesOn(e, last), lost = 0 => StillReads(e, last, v.chat)
                 PROVE  GoesOn(e, c) /\ (lost = 0 => StillReads(e, c, x.chat))
      BY DEF Forth
    <3>1. GoesOn(e, c)
      BY <1>12, <2>3 DEF GoesOn
    <3>2. ASSUME lost = 0 PROVE StillReads(e, c, x.chat)
      <4>1. CASE last.origin = "Dispatcher"
        BY <1>8, <1>12, <2>3, <3>2, <4>1 DEF StillReads
      <4>2. CASE last.origin # "Dispatcher"
        <5>1. IsPrefix(e.body, last.body) /\ last.body = v.text
          BY <1>10, <1>12, <3>2, <4>2 DEF StillReads, Opened
        <5>2. PICK a \in Seq(Nat) : a = e.body
          BY DEF LedgerBlocks
        <5>3. PICK d \in Seq(Nat) : d = v.text
          BY ViewFields
        <5>4. IsPrefix(a, d)
          BY <5>1, <5>2, <5>3
        <5>5. IsPrefix(a, Append(d, m))
          BY <5>4, PrefixOfMore
        <5>6. IsPrefix(e.body, c.body)
          BY <1>1, <2>3, <5>2, <5>3, <5>5
        <5> QED  BY <2>3, <4>2, <5>6 DEF StillReads
      <4> QED  BY <4>1, <4>2
    <3> QED  BY <3>1, <3>2
  <2>6. LastBlock(v).kind # "none" /\ LastBlock(x).kind # "none"
    BY <1>8, <1>10, <1>12, SameTurns
  <2>7. Moves(lost, v, w) /\ LastBlock(w) = c
    BY <1>7, <1>8, <1>10, <2>3, <2>4, <2>5, <2>6, ReplaceMoves
  <2>8. w.role # Nil /\ w.text = text
    BY <1>7, <1>8, <2>3, <2>4, <2>6, LastIsReplaced DEF OnlyTurns
  <2>9. Opened(lost, w)
    BY <1>2, <2>3, <2>7, <2>8 DEF Opened
  <2> QED  BY <1>9, <2>7, <2>8, <2>9
<1>13. CASE ~(last.kind = "text" /\ last.origin \in {Nil, "Dispatcher"})
  <2>1. PICK b : b = Block("text", Nil, text, Nil)
    OBVIOUS
  <2>2. b \in TurnBlocks /\ b.kind = "text" /\ b.body = text /\ b.origin = Nil
    <3>1. b \in TurnBlocks
      BY <1>2, <2>1, NewBlock DEF BlockIds, BlockKinds, Origins
    <3> QED  BY <2>1, <3>1 DEF Block
  <2>3. w = PushBlock(x, b)
    BY <1>8, <1>11, <1>13, <2>1
  <2>4. StillReads(b, b, x.chat)
    BY <1>2, <2>2, PrefixOfItself, TranscriptAssumption DEF StillReads
  <2>5. Moves(lost, v, w) /\ (LastBlock(w) = b \/ LastBlock(w).kind = "none")
    BY <1>7, <1>8, <2>2, <2>3, <2>4, PushMoves
  <2>6. w.role # Nil /\ w.text = text
    BY <1>7, <1>8, <2>2, <2>3, BlockIsPushed DEF OnlyTurns
  <2>7. Opened(lost, w)
    BY <1>2, <2>2, <2>5, <2>6 DEF Opened
  <2> QED  BY <1>9, <2>5, <2>6, <2>7
<1> QED  BY <1>12, <1>13

LEMMA CompletedMoves ==
    ASSUME NEW v \in Views, NEW lost \in Nat, Opened(lost, v)
    PROVE  LET w == MessageCompleted(v) IN Moves(lost, v, w) /\ w.role = Nil /\ Opened(lost, w)
<1>1. PICK w : w = MessageCompleted(v)
  OBVIOUS
<1>2. CASE v.role = Nil
  <2>1. w = v
    BY <1>1, <1>2 DEF MessageCompleted
  <2> QED  BY <1>1, <1>2, <2>1, StayMoves
<1>3. CASE v.role # Nil
  <2>1. PICK text \in Seq(Nat) : text = v.text
    BY ViewFields
  <2>2. PICK y : y = push_chat_message(v, v.role, v.text)
    OBVIOUS
  <2>3. /\ y \in Views /\ Fuller(v.chat, y.chat) /\ y.turns = v.turns
        /\ \E j \in DOMAIN y.chat : y.chat[j].body = text
    <3>1. v.role \in Roles
      BY ViewFields
    <3>2. Alike(v, y) /\ y.turns = v.turns /\ \E j \in DOMAIN y.chat : y.chat[j].body = text
      BY <2>1, <2>2, <3>1, LineIsSaid
    <3> QED  BY <3>2, AlikeIsFuller DEF Alike
  <2>4. PICK nothing : nothing = <<>>
    OBVIOUS
  <2>4a. nothing \in Seq(Nat)
    BY <2>4
  <2>5. PICK x : x = [y EXCEPT !.role = Nil, !.text = nothing]
    OBVIOUS
  <2>6. x = [turns |-> y.turns, active |-> y.active, chat |-> y.chat, role |-> Nil,
             text |-> nothing, running |-> y.running, ended |-> y.ended]
    BY <2>3, <2>5 DEF Views
  <2>7. x \in Views
    BY <2>3, <2>4a, <2>6, ViewFields DEF Views, Roles
  <2>8. x.turns = v.turns /\ Fuller(v.chat, x.chat) /\ x.role = Nil /\ x.chat = y.chat
    BY <2>3, <2>6
  <2>9. PICK b : b = Block("text", Nil, text, "Dispatcher")
    OBVIOUS
  <2>10. b \in TurnBlocks /\ b.kind = "text" /\ b.body = text /\ b.origin = "Dispatcher" /\ b.id = Nil
    <3>1. b \in TurnBlocks
      BY <2>9, NewBlock DEF BlockKinds, BlockIds, Origins
    <3> QED  BY <2>9, <3>1 DEF Block
  <2>11. w = IF LastBlock(v).kind = "text" THEN ReplaceLast(x, b) ELSE PushBlock(x, b)
    BY <1>1, <1>3, <2>1, <2>2, <2>4, <2>5, <2>9 DEF MessageCompleted
  <2>12. \A e \in LedgerBlocks : IsPrefix(e.body, text) => InChat(e, x.chat)
    BY <2>3, <2>8 DEF InChat
  <2>13. CASE LastBlock(v).kind = "text"
    <3>1. PICK l \in TurnBlocks : l = LastBlock(v)
      BY <2>13, BlockIsThere
    <3>2. l.kind = "text" /\ l.id = Nil /\ l.origin \in {Nil, "Dispatcher"}
      BY <2>13, <3>1 DEF TurnBlocks, WholeBlock
    <3>3. lost = 0 /\ l.origin = Nil => l.body = text
      BY <2>1, <3>1, <3>2 DEF Opened
    <3>4. Forth(lost, v.chat, x.chat, l, b)
      <4> SUFFICES ASSUME NEW e \in LedgerBlocks, GoesOn(e, l), lost = 0 => StillReads(e, l, v.chat)
                   PROVE  GoesOn(e, b) /\ (lost = 0 => StillReads(e, b, x.chat))
        BY DEF Forth
      <4>1. GoesOn(e, b)
        BY <2>10, <3>2 DEF GoesOn
      <4>2. ASSUME lost = 0 PROVE InChat(e, x.chat)
        <5>1. CASE l.origin = "Dispatcher"
          <6>1. InChat(e, v.chat)
            BY <3>2, <4>2, <5>1 DEF StillReads
          <6>2. PICK i \in DOMAIN v.chat : IsPrefix(e.body, v.chat[i].body)
            BY <6>1 DEF InChat
          <6>3. PICK j \in DOMAIN x.chat : x.chat[j].body = v.chat[i].body
            BY <2>8 DEF Fuller
          <6> QED  BY <6>2, <6>3 DEF InChat
        <5>2. CASE l.origin # "Dispatcher"
          <6>1. IsPrefix(e.body, l.body) /\ l.body = text
            BY <3>2, <3>3, <4>2, <5>2 DEF StillReads
          <6> QED  BY <2>12, <6>1
        <5> QED  BY <5>1, <5>2
      <4>3. ASSUME lost = 0 PROVE StillReads(e, b, x.chat)
        BY <2>10, <4>2, <4>3 DEF StillReads
      <4> QED  BY <4>1, <4>3
    <3>5. w = ReplaceLast(x, b) /\ LastBlock(v).kind # "none" /\ LastBlock(x).kind # "none"
      BY <2>8, <2>11, <2>13, SameTurns
    <3>6. Moves(lost, v, w) /\ LastBlock(w) = b
      BY <2>7, <2>8, <2>10, <3>1, <3>4, <3>5, ReplaceMoves
    <3>7. w.role = Nil
      BY <2>7, <2>8, <2>10, <3>5, LastIsReplaced DEF OnlyTurns
    <3>8. Opened(lost, w)
      BY <2>10, <3>6, TranscriptAssumption DEF Opened
    <3> QED  BY <1>1, <3>6, <3>7, <3>8
  <2>14. CASE LastBlock(v).kind # "text"
    <3>1. w = PushBlock(x, b)
      BY <2>11, <2>14
    <3>2. b \in LedgerBlocks /\ IsPrefix(b.body, text)
      BY <2>10, PrefixOfItself DEF TurnBlocks, LedgerBlocks
    <3>3. StillReads(b, b, x.chat)
      BY <2>10, <2>12, <3>2 DEF StillReads
    <3>4. Moves(lost, v, w) /\ (LastBlock(w) = b \/ LastBlock(w).kind = "none")
      BY <2>7, <2>8, <2>10, <3>1, <3>3, PushMoves
    <3>5. w.role = Nil
      BY <2>7, <2>8, <2>10, <3>1, BlockIsPushed DEF OnlyTurns
    <3>6. Opened(lost, w)
      BY <2>10, <3>4, TranscriptAssumption DEF Opened
    <3> QED  BY <1>1, <3>4, <3>5, <3>6
  <2> QED  BY <2>13, <2>14
<1> QED  BY <1>2, <1>3

LEMMA TurnEndedMoves ==
    ASSUME NEW v \in Views, NEW lost \in Nat, Opened(lost, v)
    PROVE  LET w == TurnEnded(v)
           IN  Moves(lost, v, w) /\ w.role = Nil /\ (lost = 0 => ~(LastBlock(w).kind = "text" /\ LastBlock(w).origin = Nil))
<1>1. PICK x : x = IF v.role # Nil /\ v.text # <<>> /\ HasTurn(v) THEN Aborted(v, v.text) ELSE v
  OBVIOUS
<1>2. /\ x \in Views /\ Moves(lost, v, x)
      /\ lost = 0 => ~(LastBlock(x).kind = "text" /\ LastBlock(x).origin = Nil)
  <2>1. CASE v.role # Nil /\ v.text # <<>> /\ HasTurn(v)
    <3>1. x = Aborted(v, v.text) /\ v.text \in Seq(Nat)
      BY <1>1, <2>1, ViewFields
    <3> QED  BY <3>1, FullerStays, AbortedMoves, AbortedApplies DEF OnlyTurns
  <2>2. CASE ~(v.role # Nil /\ v.text # <<>> /\ HasTurn(v))
    <3>1. x = v
      BY <1>1, <2>2
    <3>2. ASSUME LastBlock(v).kind = "text", LastBlock(v).origin = Nil, lost = 0 PROVE FALSE
      <4>1. v.role # Nil /\ Len(v.text) # 0
        BY <3>2 DEF Opened
      <4>2. HasTurn(v)
        BY <3>2, BlockIsThere
      <4> QED  BY <2>2, <4>1, <4>2
    <3> QED  BY <3>1, <3>2, StayMoves
  <2> QED  BY <2>1, <2>2
<1>3. PICK w : w = [x EXCEPT !.role = Nil, !.text = IF v.role = Nil THEN @ ELSE <<>>,
                             !.active = Nil, !.running = FALSE, !.ended = @ + 1]
  OBVIOUS
<1>4. w = TurnEnded(v)
  BY <1>1, <1>3 DEF TurnEnded
<1>5. w.turns = x.turns /\ w.chat = x.chat /\ w.role = Nil
  BY <1>2, <1>3 DEF Views
<1>6. Moves(lost, v, w) /\ LastBlock(w) = LastBlock(x)
  BY <1>2, <1>5, SameTurns DEF Moves, Carries, SameNumbers
<1> QED  BY <1>2, <1>4, <1>5, <1>6

LEMMA TurnStartedMoves ==
    ASSUME NEW v \in Views, NEW n \in Nat, NEW lost \in Nat, Numbered(n, v)
    PROVE  LET w == TurnStarted(v, n + 1)
           IN  Carries(lost, v, w) /\ Numbered(n + 1, w) /\ LastBlock(w).kind = "none"
<1>1. PICK turns : turns = v.turns
  OBVIOUS
<1>2. turns \in Seq(TurnRecords)
  BY <1>1, ViewFields
<1>3. PICK nothing : nothing = <<>>
  OBVIOUS
<1>4. PICK m \in Nat : m = n + 1 /\ n < m
  OBVIOUS
<1>5. PICK t : t = [number |-> m, blocks |-> nothing]
  OBVIOUS
<1>6. PICK more : more = Append(turns, t)
  OBVIOUS
<1>7. PICK l \in Nat : l = Len(turns)
  BY <1>2
<1>8. t \in TurnRecords /\ t.number = m /\ t.blocks = nothing
  <2>1. nothing \in Seq(TurnBlocks)
    BY <1>3
  <2> QED  BY <1>5, <2>1 DEF TurnRecords
<1>9. /\ DOMAIN more = 1..(l + 1) /\ DOMAIN turns = 1..l /\ Len(more) = l + 1 /\ more[l + 1] = t
      /\ more # <<>> /\ \A i \in 1..l : more[i] = turns[i] /\ i \in 1..(l + 1)
  BY <1>2, <1>6, <1>7, <1>8
<1>10. PICK w : w = TurnStarted(v, m)
  OBVIOUS
<1>11. w.turns = more /\ w.chat = v.chat
  BY <1>1, <1>3, <1>5, <1>6, <1>10 DEF TurnStarted, Views
<1>12. DOMAIN nothing = {}
  BY <1>3
<1>13. \A i \in 1..(l + 1) : i \in 1..l \/ i = l + 1
  BY <1>7
<1>14. Carries(lost, v, w)
  <2>1. \A i \in 1..l : \A k \in DOMAIN turns[i].blocks :
          Forth(lost, v.chat, w.chat, turns[i].blocks[k], turns[i].blocks[k])
    BY <1>11, FullerStays, ForthStays
  <2>2. \A i \in DOMAIN more : \A k \in DOMAIN more[i].blocks : i \in DOMAIN turns /\ k \in DOMAIN turns[i].blocks
    BY <1>8, <1>9, <1>12, <1>13
  <2> QED  BY <1>1, <1>9, <1>11, <2>1, <2>2 DEF Carries
<1>15. Numbered(m, w)
  <2>1. \A i \in 1..l : turns[i].number <= n /\ turns[i].number \in Nat /\ turns[i].number < m
    <3> SUFFICES ASSUME NEW i \in 1..l PROVE turns[i].number <= n /\ turns[i].number \in Nat /\ turns[i].number < m
      OBVIOUS
    <3>1. turns[i] \in TurnRecords /\ turns[i].number <= n
      BY <1>1, <1>2, <1>9 DEF Numbered
    <3>2. PICK k \in Nat : k = turns[i].number
      BY <3>1 DEF TurnRecords
    <3> QED  BY <1>4, <3>1, <3>2
  <2>2. \A i \in DOMAIN more : more[i].number <= m
    BY <1>4, <1>8, <1>9, <1>13, <2>1
  <2>3. ASSUME NEW i \in DOMAIN more, NEW j \in DOMAIN more, more[i].number = more[j].number PROVE i = j
    <3>1. CASE i \in 1..l /\ j \in 1..l
      BY <1>1, <1>9, <2>3, <3>1 DEF Numbered
    <3>2. CASE i = l + 1 /\ j \in 1..l
      BY <1>8, <1>9, <2>1, <2>3, <3>2
    <3>3. CASE i \in 1..l /\ j = l + 1
      BY <1>8, <1>9, <2>1, <2>3, <3>3
    <3> QED  BY <1>9, <1>13, <3>1, <3>2, <3>3
  <2> QED  BY <1>11, <2>2, <2>3 DEF Numbered
<1>16. LastBlock(w).kind = "none"
  <2>1. HasTurn(w) /\ Blocks(w) = nothing
    BY <1>8, <1>9, <1>11 DEF HasTurn, Blocks, Last
  <2> QED  BY <1>3, <2>1 DEF LastBlock, Block
<1> QED  BY <1>4, <1>10, <1>14, <1>15, <1>16

LEMMA NumbersStay ==
    ASSUME NEW v, NEW w, NEW n, Numbered(n, v), SameNumbers(v, w)
    PROVE  Numbered(n, w)
  BY DEF Numbered, SameNumbers

----------------------------------------------------------------------------
\* What Omegon has said, and what is on screen of it.
Sessions ==
    [protocol : {"ipc", "ws"}, turn : Nat, inTurn : BOOLEAN, message : Nat, deltas : Nat,
     whole : BOOLEAN, said : Nat, told : SUBSET Nat, running : SUBSET ToolIds,
     used : SUBSET ToolIds, reset : BOOLEAN, events : Nat, lost : Nat]
Badges == [running : BOOLEAN, turns : Nat, tools : Nat]
Told(told, v) == \A m \in told : \E i \in DOMAIN v.chat : m \in ToSet(v.chat[i].body)
Streamed(o, v) ==
    o.message # 0 /\ o.whole = TRUE /\ o.deltas > 0 => v.role # Nil /\ o.message \in ToSet(v.text)
Conversation(o, v, b) ==
    (v.running = TRUE => b.running = TRUE) /\ Told(o.told, v) /\ Streamed(o, v)

\* Until Omegon resets the session, the ledger has the first form of every block; and an event is one
\* that lets it go on so.
OpenText(o, v) == (o.lost = 0 /\ o.message = 0 => v.role = Nil) /\ Opened(o.lost, v)
Ledgered(o, v, s) ==
    o.reset = FALSE =>
        Numbered(o.turn, v) /\ OpenText(o, v) /\ Placed(s, v) /\ FirstForms(o.lost, s, v)
Continues(o, v, next, w) ==
    next.reset = FALSE =>
        /\ o.reset = FALSE /\ next.lost = o.lost /\ o.turn <= next.turn
        /\ Carries(o.lost, v, w) /\ Numbered(next.turn, w) /\ OpenText(next, w)

\* The inductive invariant.  The file holds the ledger's entries, and while the controller holds a
\* session the conversation on screen is the one Omegon speaks of and is in the ledger.
TranscriptInv ==
    /\ view \in Views /\ badge \in Badges /\ audit \in Audits /\ omegon \in Sessions
    /\ app \in [mode : {"off", "mock", "remote"}, starts : Nat]
    /\ disk = audit.store.entries
    /\ app.mode = "remote" => /\ Conversation(omegon, view, badge)
                              /\ Ledgered(omegon, view, audit.store)

LEMMA MoreIsTold ==
    ASSUME NEW v, NEW w, SaysMore(v, w), NEW told, Told(told, v)
    PROVE  Told(told, w)
<1> SUFFICES ASSUME NEW m \in told PROVE \E j \in DOMAIN w.chat : m \in ToSet(w.chat[j].body)
  BY DEF Told
<1>1. PICK i \in DOMAIN v.chat : m \in ToSet(v.chat[i].body)
  BY DEF Told
<1>2. PICK j \in DOMAIN w.chat : w.chat[j].body = v.chat[i].body
  BY DEF SaysMore
<1> QED  BY <1>1, <1>2

\* An event that is applied to a conversation leaves one; one that is lost leaves all as it was.
LEMMA EmitKeeps ==
    ASSUME TranscriptInv, NEW next \in Sessions, NEW w \in Views, NEW c \in Badges,
           Conversation(next, w, c), Continues(omegon, view, next, w), Emit(next, w, c)
    PROVE  TranscriptInv'
<1>1. app.mode = "remote" /\ app' = app
  BY DEF Emit
<1>2. session_audit_key = "remote"
  BY <1>1 DEF session_audit_key
<1>3. PICK n \in Nat : n = next.events + 1
  BY DEF Sessions
<1>4. CASE /\ view' = w /\ badge' = c /\ audit' = Refreshed(audit, session_audit_key, w) /\ Persist
           /\ omegon' = [next EXCEPT !.events = @ + 1]
  <2>1. PICK a \in Audits : a = audit
    BY DEF TranscriptInv
  <2>2. PICK r : r = Refreshed(a, "remote", w)
    OBVIOUS
  <2>3. /\ r \in Audits /\ TurnsAreIn("remote", w.turns, r.store.seen)
        /\ Keeps(a.store, r.store, BlockShown("remote", w.turns) \cup Telemetry)
    BY <2>2, RefreshCovers
  <2>4. audit' = r /\ disk' = r.store.entries
    BY <1>2, <1>4, <2>1, <2>2 DEF Persist
  <2>5. PICK o : o = [next EXCEPT !.events = n]
    OBVIOUS
  <2>6. omegon' = o
    BY <1>3, <1>4, <2>5 DEF Sessions
  <2>7. o \in Sessions /\ o.message = next.message /\ o.whole = next.whole /\ o.deltas = next.deltas
        /\ o.told = next.told /\ o.reset = next.reset /\ o.lost = next.lost /\ o.turn = next.turn
    BY <2>5 DEF Sessions
  <2>8. Conversation(o, w, c)
    BY <2>7 DEF Conversation, Streamed
  <2>9. app' \in [mode : {"off", "mock", "remote"}, starts : Nat]
    BY <1>1 DEF TranscriptInv
  <2>10. PICK p \in Sessions, v \in Views : p = omegon /\ v = view
    BY DEF TranscriptInv
  <2>11. PICK s \in Stores : s = a.store
    BY DEF Audits
  <2>12. PICK t \in Stores : t = r.store
    BY <2>3 DEF Audits
  <2>13. Ledgered(p, v, s) /\ Continues(p, v, next, w)
    BY <1>1, <2>1, <2>10, <2>11 DEF TranscriptInv
  <2>14. Ledgered(o, w, t)
    <3> SUFFICES ASSUME o.reset = FALSE
                 PROVE  Numbered(o.turn, w) /\ OpenText(o, w) /\ Placed(t, w) /\ FirstForms(o.lost, t, w)
      BY DEF Ledgered
    <3>1. /\ p.reset = FALSE /\ next.lost = p.lost /\ Carries(p.lost, v, w) /\ Numbered(next.turn, w)
          /\ OpenText(next, w)
      BY <2>7, <2>13 DEF Continues
    <3>2. Placed(s, v) /\ FirstForms(p.lost, s, v)
      BY <2>13, <3>1 DEF Ledgered
    <3>3. PICK lost \in Nat, k \in Nat : lost = p.lost /\ k = next.turn
      BY DEF Sessions
    <3>4. Keeps(s, t, BlockShown("remote", w.turns) \cup Telemetry) /\ TurnsAreIn("remote", w.turns, t.seen)
      BY <2>3, <2>11, <2>12
    <3>5. Placed(t, w) /\ FirstForms(lost, t, w)
      BY <3>1, <3>2, <3>3, <3>4, LedgerGoesOn
    <3>6. OpenText(o, w)
      BY <2>7, <3>1 DEF OpenText
    <3> QED  BY <2>7, <3>1, <3>3, <3>5, <3>6
  <2>15. audit'.store = t
    BY <2>4, <2>12
  <2> QED  BY <1>4, <2>3, <2>4, <2>6, <2>7, <2>8, <2>9, <2>14, <2>15 DEF TranscriptInv
<1>5. CASE /\ UNCHANGED <<view, badge, audit, disk>>
           /\ omegon' = [next EXCEPT !.events = @ + 1, !.lost = @ + 1,
                                     !.whole = FALSE, !.told = @ \intersect omegon.told]
  <2>1. PICK o \in Sessions, v \in Views, b \in Badges : o = omegon /\ v = view /\ b = badge
    BY DEF TranscriptInv
  <2>2. PICK told : told = next.told \cap o.told
    OBVIOUS
  <2>3. PICK l \in Nat : l = next.lost + 1
    BY DEF Sessions
  <2>4. PICK p : p = [next EXCEPT !.events = n, !.lost = l, !.whole = FALSE, !.told = told]
    OBVIOUS
  <2>5. omegon' = p
    BY <1>3, <1>5, <2>1, <2>2, <2>3, <2>4 DEF Sessions
  <2>6. told \in SUBSET Nat /\ told \subseteq o.told
    BY <2>2 DEF Sessions
  <2>7. p \in Sessions /\ p.whole = FALSE /\ p.told = told
    BY <2>4, <2>6 DEF Sessions
  <2>8. Conversation(o, v, b)
    BY <1>1, <2>1 DEF TranscriptInv
  <2>9. Told(told, v)
    BY <2>6, <2>8 DEF Conversation, Told
  <2>10. Conversation(p, v, b)
    BY <2>7, <2>8, <2>9 DEF Conversation, Streamed
  <2>11. view' = v /\ badge' = b /\ audit' = audit /\ disk' = disk /\ v.turns = view.turns
    BY <1>5, <2>1
  <2>12. p.reset = next.reset /\ p.lost = l /\ l # 0 /\ p.turn = next.turn
    BY <2>3, <2>4 DEF Sessions
  <2>13. PICK s \in Stores : s = audit.store
    BY DEF TranscriptInv, Audits
  <2>14. Ledgered(o, v, s) /\ Continues(o, v, next, w)
    BY <1>1, <2>1, <2>13 DEF TranscriptInv
  <2>15. Ledgered(p, v, s)
    <3> SUFFICES ASSUME p.reset = FALSE
                 PROVE  Numbered(p.turn, v) /\ OpenText(p, v) /\ Placed(s, v) /\ FirstForms(p.lost, s, v)
      BY DEF Ledgered
    <3>1. o.reset = FALSE /\ o.turn <= next.turn
      BY <2>12, <2>14 DEF Continues
    <3>2. Numbered(o.turn, v) /\ Placed(s, v) /\ FirstForms(o.lost, s, v)
      BY <2>14, <3>1 DEF Ledgered
    <3>3. Numbered(p.turn, v)
      <4> SUFFICES ASSUME NEW t \in DOMAIN v.turns PROVE v.turns[t].number <= p.turn
        BY <3>2 DEF Numbered
      <4>1. PICK turns \in Seq(TurnRecords) : turns = v.turns
        BY ViewFields
      <4>2. turns[t] \in TurnRecords
        BY <4>1
      <4>3. PICK k \in Nat : k = v.turns[t].number
        BY <4>1, <4>2 DEF TurnRecords
      <4>4. k <= o.turn /\ o.turn \in Nat /\ next.turn \in Nat
        BY <3>2, <4>3 DEF Numbered, Sessions
      <4> QED  BY <2>12, <3>1, <4>3, <4>4
    <3>4. OpenText(p, v)
      BY <2>12 DEF OpenText, Opened
    <3>5. FirstForms(p.lost, s, v)
      BY <2>12, <3>2, Zenon DEF FirstForms, HasForm
    <3> QED  BY <3>2, <3>3, <3>4, <3>5
  <2> QED  BY <1>1, <2>1, <2>5, <2>7, <2>10, <2>11, <2>13, <2>15 DEF TranscriptInv
<1> QED  BY <1>4, <1>5 DEF Emit

----------------------------------------------------------------------------
LEMMA AlikeKeeps ==
    ASSUME NEW o, NEW v, NEW b, Conversation(o, v, b), NEW w, Alike(v, w),
           NEW p, p.message = o.message, p.whole = o.whole, p.deltas = o.deltas, p.told = o.told,
           NEW c, c.running = b.running
    PROVE  Conversation(p, w, c) /\ w \in Views
<1>1. Told(o.told, w)
  BY MoreIsTold DEF Conversation, Alike
<1> QED  BY <1>1 DEF Conversation, Streamed, Alike, SaysMore

\* An event that changes no message.
LEMMA QuietContinues ==
    ASSUME NEW o \in Sessions, NEW next \in Sessions, NEW v, NEW w, NEW s, Ledgered(o, v, s),
           next.reset = o.reset, next.lost = o.lost, next.turn = o.turn, next.message = o.message,
           Moves(o.lost, v, w), Quiet(v, w), w.role = v.role, w.text = v.text
    PROVE  Continues(o, v, next, w)
<1> SUFFICES ASSUME next.reset = FALSE
             PROVE  /\ o.reset = FALSE /\ o.turn <= next.turn /\ Carries(o.lost, v, w)
                    /\ Numbered(next.turn, w) /\ OpenText(next, w)
  BY DEF Continues
<1>1. o.reset = FALSE /\ Numbered(o.turn, v) /\ OpenText(o, v)
  BY DEF Ledgered
<1>2. o.turn \in Nat /\ o.reset \in BOOLEAN
  BY DEF Sessions
<1>3. Numbered(next.turn, w)
  BY <1>1, NumbersStay DEF Moves
<1>4. OpenText(next, w)
  BY <1>1 DEF OpenText, Opened, Quiet
<1> QED  BY <1>1, <1>2, <1>3, <1>4 DEF Moves

\* What a session is like before an event that leaves it its numbers.
LEMMA WhatWasOpen ==
    ASSUME NEW o, NEW v, NEW s, Ledgered(o, v, s), o.reset = FALSE
    PROVE  Numbered(o.turn, v) /\ OpenText(o, v) /\ Opened(o.lost, v)
  BY DEF Ledgered, OpenText

\* One lemma for each event.
LEMMA TurnStartedKeeps == TranscriptInv /\ EmitTurnStarted => TranscriptInv'
<1> SUFFICES ASSUME TranscriptInv, EmitTurnStarted PROVE TranscriptInv'
  OBVIOUS
<1>1. PICK o \in Sessions, v \in Views, b \in Badges : o = omegon /\ v = view /\ b = badge
  BY DEF TranscriptInv
<1>2. Conversation(o, v, b) /\ Ledgered(o, v, audit.store) /\ o \in Sessions /\ v \in Views /\ b \in Badges
  BY <1>1 DEF TranscriptInv, EmitTurnStarted, Emit
<1>3. PICK n \in Nat : n = o.turn + 1
  BY DEF Sessions
<1>4. PICK next : next = [o EXCEPT !.turn = n, !.inTurn = TRUE]
  OBVIOUS
<1>5. PICK w : w = TurnStarted(v, n)
  OBVIOUS
<1>6. PICK t \in Nat : t = b.turns + 1
  BY DEF Badges
<1>c. PICK c : c = [b EXCEPT !.running = TRUE, !.turns = t]
  OBVIOUS
<1>7. next \in Sessions /\ next.message = o.message /\ next.whole = o.whole /\ next.deltas = o.deltas
      /\ next.told = o.told
  BY <1>4 DEF Sessions
<1>8. c \in Badges /\ c.running = TRUE
  BY <1>c DEF Badges
<1>9. SaysMore(v, w) /\ w.role = v.role /\ w.text = v.text
  BY <1>3, <1>5, TurnStartedApplies
<1>10. Conversation(next, w, c) /\ w \in Views
  <2>1. Told(o.told, w)
    BY <1>2, <1>9, MoreIsTold DEF Conversation
  <2> QED  BY <1>2, <1>7, <1>8, <1>9, <2>1 DEF Conversation, Streamed, SaysMore
<1>11. Emit(next, w, c)
  BY <1>1, <1>3, <1>4, <1>5, <1>6, <1>c DEF EmitTurnStarted, Emit, Sessions, Badges
<1>90. Continues(o, v, next, w)
  <2> SUFFICES ASSUME next.reset = FALSE
               PROVE  /\ o.reset = FALSE /\ next.lost = o.lost /\ o.turn <= next.turn
                      /\ Carries(o.lost, v, w) /\ Numbered(next.turn, w) /\ OpenText(next, w)
    BY DEF Continues
  <2>1. next.reset = o.reset /\ next.lost = o.lost /\ next.turn = n
    BY <1>4 DEF Sessions
  <2>2. Numbered(o.turn, v) /\ OpenText(o, v)
    BY <1>2, <2>1, WhatWasOpen
  <2>3. PICK k \in Nat, lost \in Nat : k = o.turn /\ lost = o.lost
    BY DEF Sessions
  <2>4. w = TurnStarted(v, k + 1) /\ n = k + 1
    BY <1>3, <1>5, <2>3
  <2>5. Carries(lost, v, w) /\ Numbered(k + 1, w) /\ LastBlock(w).kind = "none"
    BY <2>2, <2>3, <2>4, TurnStartedMoves
  <2>6. OpenText(next, w)
    BY <1>7, <1>9, <2>1, <2>2, <2>5 DEF OpenText, Opened
  <2> QED  BY <2>1, <2>3, <2>4, <2>5, <2>6
<1>91. Continues(omegon, view, next, w)
  BY <1>1, <1>90
<1> QED  BY <1>7, <1>8, <1>10, <1>11, <1>91, EmitKeeps

LEMMA TurnEndedKeeps == TranscriptInv /\ EmitTurnEnded => TranscriptInv'
<1> SUFFICES ASSUME TranscriptInv, EmitTurnEnded PROVE TranscriptInv'
  OBVIOUS
<1>1. PICK o \in Sessions, v \in Views, b \in Badges : o = omegon /\ v = view /\ b = badge
  BY DEF TranscriptInv
<1>2. Conversation(o, v, b) /\ Ledgered(o, v, audit.store) /\ o \in Sessions /\ v \in Views /\ b \in Badges
  BY <1>1 DEF TranscriptInv, EmitTurnEnded, Emit
<1>3. PICK next : next = [o EXCEPT !.inTurn = FALSE, !.message = 0, !.running = {}]
  OBVIOUS
<1>4. PICK w : w = TurnEnded(v)
  OBVIOUS
<1>5. PICK c : c = [b EXCEPT !.running = FALSE]
  OBVIOUS
<1>6. next \in Sessions /\ next.message = 0 /\ next.told = o.told
  BY <1>3 DEF Sessions
<1>7. c \in Badges
  BY <1>5 DEF Badges
<1>8. SaysMore(v, w) /\ w.running = FALSE
  BY <1>4, TurnEndedApplies
<1>9. Conversation(next, w, c) /\ w \in Views
  <2>1. Told(o.told, w)
    BY <1>2, <1>8, MoreIsTold DEF Conversation
  <2> QED  BY <1>6, <1>8, <2>1 DEF Conversation, Streamed, SaysMore
<1>10. Emit(next, w, c)
  BY <1>1, <1>3, <1>4, <1>5 DEF EmitTurnEnded, Emit
<1>90. Continues(o, v, next, w)
  <2> SUFFICES ASSUME next.reset = FALSE
               PROVE  /\ o.reset = FALSE /\ next.lost = o.lost /\ o.turn <= next.turn
                      /\ Carries(o.lost, v, w) /\ Numbered(next.turn, w) /\ OpenText(next, w)
    BY DEF Continues
  <2>1. next.reset = o.reset /\ next.lost = o.lost /\ next.turn = o.turn /\ o.turn \in Nat /\ o.lost \in Nat
    BY <1>3 DEF Sessions
  <2>2. Numbered(o.turn, v) /\ Opened(o.lost, v)
    BY <1>2, <2>1, WhatWasOpen
  <2>3. /\ Moves(o.lost, v, w) /\ w.role = Nil
        /\ o.lost = 0 => ~(LastBlock(w).kind = "text" /\ LastBlock(w).origin = Nil)
    BY <1>4, <2>1, <2>2, TurnEndedMoves
  <2>4. OpenText(next, w)
    BY <2>1, <2>3 DEF OpenText, Opened
  <2> QED  BY <2>1, <2>2, <2>3, <2>4, NumbersStay DEF Moves
<1>91. Continues(omegon, view, next, w)
  BY <1>1, <1>90
<1> QED  BY <1>6, <1>7, <1>9, <1>10, <1>91, EmitKeeps

LEMMA MessageAbortKeeps == TranscriptInv /\ EmitMessageAbort => TranscriptInv'
<1> SUFFICES ASSUME TranscriptInv, EmitMessageAbort PROVE TranscriptInv'
  OBVIOUS
<1>1. PICK o \in Sessions, v \in Views, b \in Badges : o = omegon /\ v = view /\ b = badge
  BY DEF TranscriptInv
<1>2. Conversation(o, v, b) /\ Ledgered(o, v, audit.store) /\ o \in Sessions /\ v \in Views /\ b \in Badges
  BY <1>1 DEF TranscriptInv, EmitMessageAbort, Emit
<1>3. PICK next : next = [o EXCEPT !.message = 0]
  OBVIOUS
<1>4. PICK w : w = MessageAbort(v)
  OBVIOUS
<1>5. PICK c : c = [b EXCEPT !.running = FALSE]
  OBVIOUS
<1>6. next \in Sessions /\ next.message = 0 /\ next.told = o.told
  BY <1>3 DEF Sessions
<1>7. c \in Badges
  BY <1>5 DEF Badges
<1>8. SaysMore(v, w) /\ w.running = FALSE
  BY <1>4, AbortApplies
<1>9. Conversation(next, w, c) /\ w \in Views
  <2>1. Told(o.told, w)
    BY <1>2, <1>8, MoreIsTold DEF Conversation
  <2> QED  BY <1>6, <1>8, <2>1 DEF Conversation, Streamed, SaysMore
<1>10. Emit(next, w, c)
  BY <1>1, <1>3, <1>4, <1>5 DEF EmitMessageAbort, Emit
<1>90. Continues(o, v, next, w)
  <2> SUFFICES ASSUME next.reset = FALSE
               PROVE  /\ o.reset = FALSE /\ next.lost = o.lost /\ o.turn <= next.turn
                      /\ Carries(o.lost, v, w) /\ Numbered(next.turn, w) /\ OpenText(next, w)
    BY DEF Continues
  <2>1. next.reset = o.reset /\ next.lost = o.lost /\ next.turn = o.turn /\ o.turn \in Nat /\ o.lost \in Nat
    BY <1>3 DEF Sessions
  <2>2. Numbered(o.turn, v) /\ Opened(o.lost, v)
    BY <1>2, <2>1, WhatWasOpen
  <2>3. Moves(o.lost, v, w) /\ w.role = Nil /\ LastBlock(w).kind # "text"
    BY <1>4, <2>1, <2>2, AbortMoves
  <2>4. OpenText(next, w)
    BY <2>1, <2>3 DEF OpenText, Opened
  <2> QED  BY <2>1, <2>2, <2>3, <2>4, NumbersStay DEF Moves
<1>91. Continues(omegon, view, next, w)
  BY <1>1, <1>90
<1> QED  BY <1>6, <1>7, <1>9, <1>10, <1>91, EmitKeeps

LEMMA MessageStartKeeps ==
    ASSUME TranscriptInv, NEW role \in {"Assistant", "User"}, EmitMessageStart(role)
    PROVE  TranscriptInv'
<1>1. PICK o \in Sessions, v \in Views, b \in Badges : o = omegon /\ v = view /\ b = badge
  BY DEF TranscriptInv
<1>2. Conversation(o, v, b) /\ Ledgered(o, v, audit.store) /\ o \in Sessions /\ v \in Views /\ b \in Badges
  BY <1>1 DEF TranscriptInv, EmitMessageStart, Emit
<1>3. PICK s \in Nat, n \in Nat : s = o.said + 1 /\ n = o.message + o.said + 1
  BY DEF Sessions
<1>4. PICK next : next = [o EXCEPT !.message = n, !.said = s, !.deltas = 0, !.whole = TRUE]
  OBVIOUS
<1>5. PICK w : w = MessageStart(v, role)
  OBVIOUS
<1>6. next \in Sessions /\ next.deltas = 0 /\ next.told = o.told
  BY <1>3, <1>4 DEF Sessions
<1>7. SaysMore(v, w) /\ w.running = v.running
  BY <1>5, StartApplies DEF Roles
<1>8. Conversation(next, w, b) /\ w \in Views
  <2>1. Told(o.told, w)
    BY <1>2, <1>7, MoreIsTold DEF Conversation
  <2> QED  BY <1>2, <1>6, <1>7, <2>1 DEF Conversation, Streamed, SaysMore
<1>9. Emit(next, w, b)
  BY <1>1, <1>3, <1>4, <1>5 DEF EmitMessageStart, Emit, Sessions
<1>90. Continues(o, v, next, w)
  <2> SUFFICES ASSUME next.reset = FALSE
               PROVE  /\ o.reset = FALSE /\ next.lost = o.lost /\ o.turn <= next.turn
                      /\ Carries(o.lost, v, w) /\ Numbered(next.turn, w) /\ OpenText(next, w)
    BY DEF Continues
  <2>1. next.reset = o.reset /\ next.lost = o.lost /\ next.turn = o.turn /\ o.turn \in Nat /\ o.lost \in Nat
    BY <1>4 DEF Sessions
  <2>2. Numbered(o.turn, v) /\ Opened(o.lost, v)
    BY <1>2, <2>1, WhatWasOpen
  <2>3. OpenText(o, v) /\ o.message = 0
    BY <1>1, <1>2, <2>1, WhatWasOpen DEF EmitMessageStart
  <2>4. next.message = n /\ n # 0
    BY <1>3, <1>4 DEF Sessions
  <2>5. w.turns = v.turns /\ w.chat = v.chat
    BY <1>5 DEF MessageStart, Views
  <2>6. Moves(o.lost, v, w) /\ LastBlock(w) = LastBlock(v)
    BY <2>5, SameMoves, SameTurns, FullerStays
  <2>7. OpenText(next, w)
    BY <2>1, <2>3, <2>4, <2>6 DEF OpenText, Opened
  <2> QED  BY <2>1, <2>2, <2>6, <2>7, NumbersStay DEF Moves
<1>91. Continues(omegon, view, next, w)
  BY <1>1, <1>90
<1> QED  BY <1>2, <1>6, <1>8, <1>9, <1>91, EmitKeeps

LEMMA MessageDeltaKeeps == TranscriptInv /\ EmitMessageDelta => TranscriptInv'
<1> SUFFICES ASSUME TranscriptInv, EmitMessageDelta PROVE TranscriptInv'
  OBVIOUS
<1>1. PICK o \in Sessions, v \in Views, b \in Badges : o = omegon /\ v = view /\ b = badge
  BY DEF TranscriptInv
<1>2. Conversation(o, v, b) /\ Ledgered(o, v, audit.store) /\ o \in Sessions /\ v \in Views /\ b \in Badges
  BY <1>1 DEF TranscriptInv, EmitMessageDelta, Emit
<1>3. \E m \in Nat, next \in Sessions :
        /\ Emit(next, MessageDelta(v, m), b) /\ next.message = m /\ next.told = o.told /\ m # 0
        /\ next.reset = o.reset /\ next.lost = o.lost /\ next.turn = o.turn
  <2>1. CASE omegon.message # 0 /\ Emit([omegon EXCEPT !.deltas = @ + 1], MessageDelta(view, omegon.message), badge)
    <3>1. PICK d \in Nat, m \in Nat : d = o.deltas + 1 /\ m = o.message
      BY DEF Sessions
    <3>2. PICK next : next = [o EXCEPT !.deltas = d]
      OBVIOUS
    <3>3. /\ next \in Sessions /\ next.message = m /\ next.told = o.told /\ m # 0
          /\ next.reset = o.reset /\ next.lost = o.lost /\ next.turn = o.turn
      BY <1>1, <2>1, <3>1, <3>2 DEF Sessions
    <3>4. Emit(next, MessageDelta(v, m), b)
      BY <1>1, <2>1, <3>1, <3>2 DEF Emit, Sessions
    <3> QED  BY <3>1, <3>3, <3>4
  <2>2. CASE Emit([omegon EXCEPT !.message = omegon.said + 1, !.said = @ + 1, !.deltas = 1, !.whole = TRUE],
                  MessageDelta(view, omegon.said + 1), badge)
    <3>1. PICK m \in Nat : m = o.said + 1 /\ m # 0
      BY DEF Sessions
    <3>2. PICK next : next = [o EXCEPT !.message = m, !.said = m, !.deltas = 1, !.whole = TRUE]
      OBVIOUS
    <3>3. /\ next \in Sessions /\ next.message = m /\ next.told = o.told /\ m # 0
          /\ next.reset = o.reset /\ next.lost = o.lost /\ next.turn = o.turn
      BY <1>1, <2>2, <3>1, <3>2 DEF Sessions
    <3>4. Emit(next, MessageDelta(v, m), b)
      BY <1>1, <2>2, <3>1, <3>2 DEF Emit, Sessions
    <3> QED  BY <3>1, <3>3, <3>4
  <2> QED  BY <2>1, <2>2 DEF EmitMessageDelta
<1>4. PICK m \in Nat, next \in Sessions :
        /\ Emit(next, MessageDelta(v, m), b) /\ next.message = m /\ next.told = o.told /\ m # 0
        /\ next.reset = o.reset /\ next.lost = o.lost /\ next.turn = o.turn
  BY <1>3
<1>5. PICK w : w = MessageDelta(v, m)
  OBVIOUS
<1>6. SaysMore(v, w) /\ w.running = v.running /\ w.role # Nil /\ m \in ToSet(w.text)
  BY <1>5, DeltaApplies
<1>7. Conversation(next, w, b) /\ w \in Views
  <2>1. Told(o.told, w)
    BY <1>2, <1>6, MoreIsTold DEF Conversation
  <2> QED  BY <1>2, <1>4, <1>6, <2>1 DEF Conversation, Streamed, SaysMore
<1>8. Emit(next, w, b)
  BY <1>4, <1>5
<1>90. Continues(o, v, next, w)
  <2> SUFFICES ASSUME next.reset = FALSE
               PROVE  /\ o.reset = FALSE /\ next.lost = o.lost /\ o.turn <= next.turn
                      /\ Carries(o.lost, v, w) /\ Numbered(next.turn, w) /\ OpenText(next, w)
    BY DEF Continues
  <2>1. next.reset = o.reset /\ next.lost = o.lost /\ next.turn = o.turn /\ o.turn \in Nat /\ o.lost \in Nat
    BY <1>4 DEF Sessions
  <2>2. Numbered(o.turn, v) /\ Opened(o.lost, v)
    BY <1>2, <2>1, WhatWasOpen
  <2>3. Moves(o.lost, v, w) /\ w.role # Nil /\ Opened(o.lost, w)
    BY <1>5, <2>1, <2>2, DeltaMoves
  <2>4. OpenText(next, w)
    BY <1>4, <2>1, <2>3 DEF OpenText
  <2> QED  BY <2>1, <2>2, <2>3, <2>4, NumbersStay DEF Moves
<1>91. Continues(omegon, view, next, w)
  BY <1>1, <1>90
<1> QED  BY <1>2, <1>7, <1>8, <1>91, EmitKeeps

LEMMA MessageCompletedKeeps == TranscriptInv /\ EmitMessageCompleted => TranscriptInv'
<1> SUFFICES ASSUME TranscriptInv, EmitMessageCompleted PROVE TranscriptInv'
  OBVIOUS
<1>1. PICK o \in Sessions, v \in Views, b \in Badges : o = omegon /\ v = view /\ b = badge
  BY DEF TranscriptInv
<1>2. Conversation(o, v, b) /\ Ledgered(o, v, audit.store) /\ o \in Sessions /\ v \in Views /\ b \in Badges
  BY <1>1 DEF TranscriptInv, EmitMessageCompleted, Emit
<1>3. PICK told : told = IF o.whole /\ o.deltas > 0 THEN o.told \cup {o.message} ELSE o.told
  OBVIOUS
<1>4. PICK next : next = [o EXCEPT !.message = 0, !.told = told]
  OBVIOUS
<1>5. PICK w : w = MessageCompleted(v)
  OBVIOUS
<1>6. o.message # 0
  BY <1>1 DEF EmitMessageCompleted
<1>7. next \in Sessions /\ next.message = 0 /\ next.told = told
  <2>1. told \in SUBSET Nat
    BY <1>3 DEF Sessions
  <2> QED  BY <1>4, <2>1 DEF Sessions
<1>8. /\ SaysMore(v, w) /\ w.running = v.running
      /\ v.role # Nil => \E j \in DOMAIN w.chat : w.chat[j].body = v.text
  BY <1>5, CompletedApplies
<1>9. Told(told, w)
  <2>1. Told(o.told, w)
    BY <1>2, <1>8, MoreIsTold DEF Conversation
  <2>2. CASE o.whole = TRUE /\ o.deltas > 0
    <3>1. v.role # Nil /\ o.message \in ToSet(v.text)
      BY <1>2, <1>6, <2>2 DEF Conversation, Streamed
    <3>2. told = o.told \cup {o.message}
      BY <1>3, <2>2
    <3> QED  BY <1>8, <2>1, <3>1, <3>2 DEF Told
  <2>3. CASE ~(o.whole = TRUE /\ o.deltas > 0)
    <3>1. told = o.told
      BY <1>2, <1>3, <2>3 DEF Sessions
    <3> QED  BY <2>1, <3>1
  <2> QED  BY <2>2, <2>3
<1>10. Conversation(next, w, b) /\ w \in Views
  BY <1>2, <1>7, <1>8, <1>9 DEF Conversation, Streamed, SaysMore
<1>11. Emit(next, w, b)
  BY <1>1, <1>3, <1>4, <1>5 DEF EmitMessageCompleted, Emit, Sessions
<1>90. Continues(o, v, next, w)
  <2> SUFFICES ASSUME next.reset = FALSE
               PROVE  /\ o.reset = FALSE /\ next.lost = o.lost /\ o.turn <= next.turn
                      /\ Carries(o.lost, v, w) /\ Numbered(next.turn, w) /\ OpenText(next, w)
    BY DEF Continues
  <2>1. next.reset = o.reset /\ next.lost = o.lost /\ next.turn = o.turn /\ o.turn \in Nat /\ o.lost \in Nat
    BY <1>4 DEF Sessions
  <2>2. Numbered(o.turn, v) /\ Opened(o.lost, v)
    BY <1>2, <2>1, WhatWasOpen
  <2>3. Moves(o.lost, v, w) /\ w.role = Nil /\ Opened(o.lost, w)
    BY <1>5, <2>1, <2>2, CompletedMoves
  <2>4. OpenText(next, w)
    BY <2>1, <2>3 DEF OpenText
  <2> QED  BY <2>1, <2>2, <2>3, <2>4, NumbersStay DEF Moves
<1>91. Continues(omegon, view, next, w)
  BY <1>1, <1>90
<1> QED  BY <1>2, <1>7, <1>10, <1>11, <1>91, EmitKeeps

LEMMA ThinkingKeeps == TranscriptInv /\ EmitThinking => TranscriptInv'
<1> SUFFICES ASSUME TranscriptInv, EmitThinking PROVE TranscriptInv'
  OBVIOUS
<1>1. PICK o \in Sessions, v \in Views, b \in Badges : o = omegon /\ v = view /\ b = badge
  BY DEF TranscriptInv
<1>2. Conversation(o, v, b) /\ Ledgered(o, v, audit.store) /\ o \in Sessions /\ v \in Views /\ b \in Badges
  BY <1>1 DEF TranscriptInv, EmitThinking, Emit
<1>3. PICK w : w = ThinkingDelta(v)
  OBVIOUS
<1>4. Alike(v, w)
  BY <1>3, ThinkingApplies, OnlyTurnsIsAlike
<1>5. Conversation(o, w, b) /\ w \in Views
  BY <1>2, <1>4, AlikeKeeps
<1>6. Emit(o, w, b)
  BY <1>1, <1>3 DEF EmitThinking, Emit
<1>90. Continues(o, v, o, w)
  <2>1. PICK lost \in Nat : lost = o.lost
    BY DEF Sessions
  <2>2. Moves(lost, v, w) /\ Quiet(v, w)
    BY <1>2, <1>3, ThinkingMoves
  <2>3. w.role = v.role /\ w.text = v.text
    BY <1>4 DEF Alike
  <2> QED  BY <1>2, <2>1, <2>2, <2>3, QuietContinues
<1>91. Continues(omegon, view, o, w)
  BY <1>1, <1>90
<1> QED  BY <1>2, <1>5, <1>6, <1>91, EmitKeeps

LEMMA NoticeKeeps == TranscriptInv /\ EmitNotice => TranscriptInv'
<1> SUFFICES ASSUME TranscriptInv, EmitNotice PROVE TranscriptInv'
  OBVIOUS
<1>1. PICK o \in Sessions, v \in Views, b \in Badges : o = omegon /\ v = view /\ b = badge
  BY DEF TranscriptInv
<1>2. Conversation(o, v, b) /\ Ledgered(o, v, audit.store) /\ o \in Sessions /\ v \in Views /\ b \in Badges
  BY <1>1 DEF TranscriptInv, EmitNotice, Emit
<1>3. PICK w \in {SystemNotification(v), PlanUpdated(v), DecompositionStarted(v),
                     DecompositionChildCompleted(v), DecompositionCompleted(v)} : Emit(o, w, b)
  BY <1>1, Zenon DEF EmitNotice
<1>4. Alike(v, w)
  BY <1>3, NoticeApplies
     DEF SystemNotification, PlanUpdated, DecompositionStarted, DecompositionChildCompleted,
         DecompositionCompleted, push_dispatcher_notice, Origins
<1>5. Conversation(o, w, b) /\ w \in Views
  BY <1>2, <1>4, AlikeKeeps
<1>90. Continues(o, v, o, w)
  <2>1. PICK lost \in Nat : lost = o.lost
    BY DEF Sessions
  <2>2. Moves(lost, v, w) /\ Quiet(v, w)
    BY <1>2, <1>3, NoticeMoves
       DEF SystemNotification, PlanUpdated, DecompositionStarted, DecompositionChildCompleted,
           DecompositionCompleted, push_dispatcher_notice, Origins, Quiet
  <2>3. w.role = v.role /\ w.text = v.text
    BY <1>4 DEF Alike
  <2> QED  BY <1>2, <2>1, <2>2, <2>3, QuietContinues
<1>91. Continues(omegon, view, o, w)
  BY <1>1, <1>90
<1> QED  BY <1>2, <1>3, <1>5, <1>91, EmitKeeps

LEMMA ToolStartedKeeps ==
    ASSUME TranscriptInv, NEW id \in ToolIds, EmitToolStarted(id)
    PROVE  TranscriptInv'
<1>1. PICK o \in Sessions, v \in Views, b \in Badges : o = omegon /\ v = view /\ b = badge
  BY DEF TranscriptInv
<1>2. Conversation(o, v, b) /\ Ledgered(o, v, audit.store) /\ o \in Sessions /\ v \in Views /\ b \in Badges
  BY <1>1 DEF TranscriptInv, EmitToolStarted, Emit
<1>3. PICK next : next = [o EXCEPT !.running = o.running \cup {id}, !.used = o.used \cup {id}]
  OBVIOUS
<1>4. next \in Sessions /\ next.message = o.message /\ next.whole = o.whole /\ next.deltas = o.deltas
      /\ next.told = o.told
  BY <1>3 DEF Sessions
<1>5. PICK w : w = ToolStarted(v, id)
  OBVIOUS
<1>6. PICK t \in Nat : t = b.tools + 1
  BY DEF Badges
<1>7. PICK c : c = [b EXCEPT !.tools = t]
  OBVIOUS
<1>8. c \in Badges /\ c.running = b.running
  BY <1>7 DEF Badges
<1>9. Alike(v, w)
  BY <1>5, ToolsApply, OnlyTurnsIsAlike
<1>10. Conversation(next, w, c) /\ w \in Views
  BY <1>2, <1>4, <1>8, <1>9, AlikeKeeps
<1>11. Emit(next, w, c)
  BY <1>1, <1>3, <1>5, <1>6, <1>7 DEF EmitToolStarted, Emit, Sessions, Badges
<1>90. Continues(o, v, next, w)
  <2>1. PICK lost \in Nat : lost = o.lost
    BY DEF Sessions
  <2>2. Moves(lost, v, w) /\ Quiet(v, w)
    BY <1>2, <1>5, ToolsMove
  <2>3. w.role = v.role /\ w.text = v.text
    BY <1>9 DEF Alike
  <2>4. next.reset = o.reset /\ next.lost = o.lost /\ next.turn = o.turn /\ next.message = o.message
    BY <1>3 DEF Sessions
  <2> QED  BY <1>2, <1>4, <2>1, <2>2, <2>3, <2>4, QuietContinues
<1>91. Continues(omegon, view, next, w)
  BY <1>1, <1>90
<1> QED  BY <1>4, <1>8, <1>10, <1>11, <1>91, EmitKeeps

LEMMA ToolUpdatedKeeps ==
    ASSUME TranscriptInv, NEW id \in ToolIds, EmitToolUpdated(id)
    PROVE  TranscriptInv'
<1>1. PICK o \in Sessions, v \in Views, b \in Badges : o = omegon /\ v = view /\ b = badge
  BY DEF TranscriptInv
<1>2. Conversation(o, v, b) /\ Ledgered(o, v, audit.store) /\ o \in Sessions /\ v \in Views /\ b \in Badges
  BY <1>1 DEF TranscriptInv, EmitToolUpdated, Emit
<1>3. PICK partial \in BOOLEAN : partial = (o.protocol = "ws")
  OBVIOUS
<1>4. PICK w : w = ToolUpdated(v, id, partial)
  OBVIOUS
<1>5. Alike(v, w)
  BY <1>4, ToolsApply, OnlyTurnsIsAlike
<1>6. Conversation(o, w, b) /\ w \in Views
  BY <1>2, <1>5, AlikeKeeps
<1>7. Emit(o, w, b)
  BY <1>1, <1>3, <1>4 DEF EmitToolUpdated, Emit
<1>90. Continues(o, v, o, w)
  <2>1. PICK lost \in Nat : lost = o.lost
    BY DEF Sessions
  <2>2. Moves(lost, v, w) /\ Quiet(v, w)
    BY <1>2, <1>4, ToolsMove
  <2>3. w.role = v.role /\ w.text = v.text
    BY <1>5 DEF Alike
  <2> QED  BY <1>2, <2>1, <2>2, <2>3, QuietContinues
<1>91. Continues(omegon, view, o, w)
  BY <1>1, <1>90
<1> QED  BY <1>2, <1>6, <1>7, <1>91, EmitKeeps

LEMMA ToolEndedKeeps ==
    ASSUME TranscriptInv, NEW id \in ToolIds, EmitToolEnded(id)
    PROVE  TranscriptInv'
<1>1. PICK o \in Sessions, v \in Views, b \in Badges : o = omegon /\ v = view /\ b = badge
  BY DEF TranscriptInv
<1>2. Conversation(o, v, b) /\ Ledgered(o, v, audit.store) /\ o \in Sessions /\ v \in Views /\ b \in Badges
  BY <1>1 DEF TranscriptInv, EmitToolEnded, Emit
<1>3. PICK next : next = [o EXCEPT !.running = o.running \ {id}]
  OBVIOUS
<1>4. next \in Sessions /\ next.message = o.message /\ next.whole = o.whole /\ next.deltas = o.deltas
      /\ next.told = o.told
  BY <1>3 DEF Sessions
<1>5. PICK w : w = ToolEnded(v, id)
  OBVIOUS
<1>6. Alike(v, w)
  BY <1>5, ToolsApply, OnlyTurnsIsAlike
<1>7. Conversation(next, w, b) /\ w \in Views
  BY <1>2, <1>4, <1>6, AlikeKeeps
<1>8. Emit(next, w, b)
  BY <1>1, <1>3, <1>5 DEF EmitToolEnded, Emit, Sessions
<1>90. Continues(o, v, next, w)
  <2>1. PICK lost \in Nat : lost = o.lost
    BY DEF Sessions
  <2>2. Moves(lost, v, w) /\ Quiet(v, w)
    BY <1>2, <1>5, ToolsMove
  <2>3. w.role = v.role /\ w.text = v.text
    BY <1>6 DEF Alike
  <2>4. next.reset = o.reset /\ next.lost = o.lost /\ next.turn = o.turn /\ next.message = o.message
    BY <1>3 DEF Sessions
  <2> QED  BY <1>2, <1>4, <2>1, <2>2, <2>3, <2>4, QuietContinues
<1>91. Continues(omegon, view, next, w)
  BY <1>1, <1>90
<1> QED  BY <1>2, <1>4, <1>7, <1>8, <1>91, EmitKeeps

LEMMA AgentCompletedKeeps == TranscriptInv /\ EmitAgentCompleted => TranscriptInv'
<1> SUFFICES ASSUME TranscriptInv, EmitAgentCompleted PROVE TranscriptInv'
  OBVIOUS
<1>1. PICK o \in Sessions, v \in Views, b \in Badges : o = omegon /\ v = view /\ b = badge
  BY DEF TranscriptInv
<1>2. Conversation(o, v, b) /\ Ledgered(o, v, audit.store) /\ o \in Sessions /\ v \in Views /\ b \in Badges
  BY <1>1 DEF TranscriptInv, EmitAgentCompleted, Emit
<1>3. PICK w : w = AgentCompleted(v)
  OBVIOUS
<1>4. PICK c : c = [b EXCEPT !.running = FALSE]
  OBVIOUS
<1>5. c \in Badges
  BY <1>4 DEF Badges
<1>6. SaysMore(v, w) /\ w.role = v.role /\ w.text = v.text /\ w.running = FALSE
  BY <1>3, AgentCompletedApplies
<1>7. Conversation(o, w, c) /\ w \in Views
  <2>1. Told(o.told, w)
    BY <1>2, <1>6, MoreIsTold DEF Conversation
  <2> QED  BY <1>2, <1>6, <2>1 DEF Conversation, Streamed, SaysMore
<1>8. Emit(o, w, c)
  BY <1>1, <1>3, <1>4 DEF EmitAgentCompleted, Emit
<1>9. w.turns = v.turns /\ w.chat = v.chat
  BY <1>2, <1>3 DEF AgentCompleted, Views
<1>90. Continues(o, v, o, w)
  <2>1. PICK lost \in Nat : lost = o.lost
    BY DEF Sessions
  <2>2. Moves(lost, v, w) /\ Quiet(v, w)
    BY <1>2, <1>9, SameMoves, SameTurns, FullerStays DEF Quiet
  <2>3. w.role = v.role /\ w.text = v.text
    BY <1>6
  <2> QED  BY <1>2, <2>1, <2>2, <2>3, QuietContinues
<1>91. Continues(omegon, view, o, w)
  BY <1>1, <1>90
<1> QED  BY <1>2, <1>5, <1>7, <1>8, <1>91, EmitKeeps

LEMMA SessionResetKeeps == TranscriptInv /\ EmitSessionReset => TranscriptInv'
<1> SUFFICES ASSUME TranscriptInv, EmitSessionReset PROVE TranscriptInv'
  OBVIOUS
<1>1. PICK o \in Sessions, v \in Views, b \in Badges : o = omegon /\ v = view /\ b = badge
  BY DEF TranscriptInv
<1>2. Conversation(o, v, b) /\ Ledgered(o, v, audit.store) /\ o \in Sessions /\ v \in Views /\ b \in Badges
  BY <1>1 DEF TranscriptInv, EmitSessionReset, Emit
<1>3. PICK next : next = [o EXCEPT !.turn = 0, !.inTurn = FALSE, !.message = 0, !.running = {}, !.told = {},
                                !.reset = TRUE]
  OBVIOUS
<1>4. PICK w : w = SessionReset(v)
  OBVIOUS
<1>5. next \in Sessions /\ next.message = 0 /\ next.told = {}
  BY <1>3 DEF Sessions
<1>6. w \in Views /\ w.running = FALSE
  BY <1>4, ResetApplies
<1>7. Conversation(next, w, b)
  BY <1>5, <1>6 DEF Conversation, Streamed, Told
<1>8. Emit(next, w, b)
  BY <1>1, <1>3, <1>4 DEF EmitSessionReset, Emit
<1>90. Continues(o, v, next, w)
  <2>1. next.reset = TRUE
    BY <1>3 DEF Sessions
  <2> QED  BY <2>1 DEF Continues
<1>91. Continues(omegon, view, next, w)
  BY <1>1, <1>90
<1> QED  BY <1>2, <1>5, <1>6, <1>7, <1>8, <1>91, EmitKeeps

----------------------------------------------------------------------------
\* Starting: a new view, and a ledger that was read.
LEMMA FreshAuditIsAudit == \A s \in Stores : FreshAudit(s) \in Audits /\ FreshAudit(s).store = s
  BY DEF FreshAudit, Audits

LEMMA EmptyStoreIsStore == EmptyStore \in Stores
<1>1. PICK nothing : nothing = <<>>
  OBVIOUS
<1>2. nothing \in Seq(LedgerEntries) /\ DOMAIN nothing = {}
  BY <1>1
<1>3. IdsOf(nothing) = {} /\ EachOnce(nothing)
  BY <1>2 DEF IdsOf, EachOnce
<1>4. EmptyStore = [entries |-> nothing, seen |-> {}]
  BY <1>1 DEF EmptyStore
<1> QED  BY <1>2, <1>3, <1>4 DEF Stores

\* In a new session nothing has been said.
LEMMA NothingIsSaid ==
    ASSUME NEW protocol \in {"ipc", "ws"}
    PROVE  /\ NewSession(protocol) \in Sessions /\ FreshBadge \in Badges
           /\ Conversation(NewSession(protocol), FreshView, FreshBadge)
<1>1. PICK o : o = NewSession(protocol)
  OBVIOUS
<1>2. o \in Sessions /\ o.told = {} /\ o.message = 0
  BY <1>1 DEF NewSession, Sessions
<1>3. FreshView.running = FALSE
  BY FreshViewIsView
<1>4. Conversation(o, FreshView, FreshBadge)
  BY <1>2, <1>3 DEF Conversation, Told, Streamed
<1> QED  BY <1>1, <1>2, <1>4 DEF FreshBadge, Badges

LEMMA StartMockKeeps == TranscriptInv /\ StartMock => TranscriptInv'
<1> SUFFICES ASSUME TranscriptInv, StartMock PROVE TranscriptInv'
  OBVIOUS
<1>1. app' = [mode |-> "mock", starts |-> app.starts + 1] /\ UNCHANGED <<badge, omegon>>
  BY DEF StartMock
<1>2. app' \in [mode : {"off", "mock", "remote"}, starts : Nat] /\ app'.mode # "remote"
  BY <1>1 DEF TranscriptInv
<1>3. session_audit_key = "mock"
  BY <1>2 DEF session_audit_key
<1>4. PICK v \in Views : v = FreshView
  BY FreshViewIsView
<1>5. PICK a \in Audits : a = FreshAudit(load_or_default(disk))
  <2>1. audit.store \in Stores /\ disk = audit.store.entries
    BY DEF TranscriptInv, Audits
  <2>2. PICK s \in Stores : s = load_or_default(disk)
    BY <2>1, LedgerIsReadBack
  <2> QED  BY <2>2, FreshAuditIsAudit
<1>6. PICK r : r = Refreshed(a, "mock", v)
  OBVIOUS
<1>7. r \in Audits
  BY <1>6, RefreshCovers
<1>8. view' = v /\ audit' = r /\ disk' = r.store.entries
  BY <1>3, <1>4, <1>5, <1>6 DEF StartMock, Persist
<1> QED  BY <1>1, <1>2, <1>7, <1>8 DEF TranscriptInv

LEMMA AttachKeeps ==
    ASSUME TranscriptInv, NEW protocol \in {"ipc", "ws"}, AttachRemote(protocol)
    PROVE  TranscriptInv'
<1>1. app' = [mode |-> "remote", starts |-> app.starts + 1]
  BY DEF AttachRemote
<1>2. app' \in [mode : {"off", "mock", "remote"}, starts : Nat] /\ app'.mode = "remote"
  BY <1>1 DEF TranscriptInv
<1>3. session_audit_key = "remote"
  BY <1>2 DEF session_audit_key
<1>4. PICK v \in Views : v = FreshView
  BY FreshViewIsView
<1>5. PICK a \in Audits : a = FreshAudit(EmptyStore)
  BY FreshAuditIsAudit, EmptyStoreIsStore
<1>6. PICK first : first = Refreshed(a, "remote", v)
  OBVIOUS
<1>7. first \in Audits
  BY <1>6, RefreshCovers
<1>8. PICK s \in Stores : s = load_or_default(first.store.entries)
  BY <1>7, LedgerIsReadBack DEF Audits
<1>9. PICK read : read = [first EXCEPT !.store = s]
  OBVIOUS
<1>10. read \in Audits
  BY <1>7, <1>9 DEF Audits
<1>11. PICK r : r = Refreshed(read, "remote", v)
  OBVIOUS
<1>12. /\ r \in Audits
       /\ Keeps(read.store, r.store, BlockShown("remote", v.turns) \cup Telemetry)
       /\ Keeps(a.store, first.store, BlockShown("remote", v.turns) \cup Telemetry)
  BY <1>6, <1>10, <1>11, RefreshCovers
<1>13. view' = v /\ audit' = r /\ disk' = r.store.entries
  BY <1>3, <1>4, <1>5, <1>6, <1>8, <1>9, <1>11 DEF AttachRemote, Persist
<1>14. PICK o \in Sessions : o = NewSession(protocol)
  BY NothingIsSaid
<1>15. PICK b \in Badges : b = FreshBadge
  BY NothingIsSaid
<1>16. Conversation(o, v, b)
  BY <1>4, <1>14, <1>15, NothingIsSaid
<1>17. omegon' = o /\ badge' = b
  BY <1>14, <1>15 DEF AttachRemote
<1>18. Ledgered(o, v, r.store)
  <2>1. v.turns = <<>>
    BY <1>4, FreshViewIsView
  <2>2. DOMAIN v.turns = {}
    BY <2>1
  <2>3. BlockShown("remote", v.turns) = {}
    BY <2>2 DEF BlockShown
  <2>4. Held(a.store) = {}
    <3>1. a.store = EmptyStore
      BY <1>5, FreshAuditIsAudit, EmptyStoreIsStore
    <3>2. PICK nothing : nothing = <<>>
      OBVIOUS
    <3>3. a.store.entries = nothing /\ DOMAIN nothing = {}
      BY <3>1, <3>2 DEF EmptyStore
    <3> QED  BY <3>3 DEF Held, EntryListed
  <2>5. Held(first.store) \subseteq Telemetry
    BY <1>12, <2>3, <2>4 DEF Keeps
  <2>6. Held(read.store) = Held(first.store)
    <3>1. s.entries = first.store.entries
      BY <1>8 DEF load_or_default
    <3>2. read.store = s
      BY <1>7, <1>9 DEF Audits
    <3> QED  BY <3>1, <3>2 DEF Held
  <2>7. Held(r.store) \subseteq Telemetry
    BY <1>12, <2>3, <2>5, <2>6 DEF Keeps
  <2>8. Placed(r.store, v)
    BY <2>7 DEF Placed, Telemetry
  <2>9. Numbered(o.turn, v) /\ FirstForms(o.lost, r.store, v)
    BY <2>2 DEF Numbered, FirstForms
  <2>10. v.role = Nil /\ LastBlock(v).kind = "none"
    BY <1>4, <2>1 DEF FreshView, LastBlock, HasTurn, Block
  <2>11. OpenText(o, v)
    BY <2>10 DEF OpenText, Opened
  <2> QED  BY <2>8, <2>9, <2>11 DEF Ledgered
<1> QED  BY <1>2, <1>12, <1>13, <1>16, <1>17, <1>18 DEF TranscriptInv

LEMMA TranscriptStarts == TrInit => TranscriptInv
<1> SUFFICES ASSUME TrInit PROVE TranscriptInv
  OBVIOUS
<1>1. PICK s \in Stores : s = EmptyStore
  BY EmptyStoreIsStore
<1>2. audit \in Audits /\ audit.store = s /\ disk = s.entries
  BY <1>1, FreshAuditIsAudit DEF TrInit, EmptyStore
<1>3. view \in Views
  BY FreshViewIsView DEF TrInit
<1>4. badge \in Badges /\ omegon \in Sessions
  BY NothingIsSaid DEF TrInit
<1>5. app \in [mode : {"off", "mock", "remote"}, starts : Nat] /\ app.mode # "remote"
  BY DEF TrInit
<1> QED  BY <1>2, <1>3, <1>4, <1>5 DEF TranscriptInv

LEMMA TranscriptGoesOn == TranscriptInv /\ [TrNext]_trVars => TranscriptInv'
<1> SUFFICES ASSUME TranscriptInv, [TrNext]_trVars PROVE TranscriptInv'
  OBVIOUS
<1>1. CASE StartMock
  BY <1>1, StartMockKeeps
<1>2. CASE \E p \in {"ipc", "ws"} : AttachRemote(p)
  BY <1>2, AttachKeeps
<1>3. CASE EmitTurnStarted \/ EmitTurnEnded \/ EmitMessageAbort
  BY <1>3, TurnStartedKeeps, TurnEndedKeeps, MessageAbortKeeps
<1>4. CASE \E r \in {"Assistant", "User"} : EmitMessageStart(r)
  BY <1>4, MessageStartKeeps
<1>5. CASE EmitMessageDelta \/ EmitMessageCompleted \/ EmitThinking \/ EmitNotice
  BY <1>5, MessageDeltaKeeps, MessageCompletedKeeps, ThinkingKeeps, NoticeKeeps
<1>6. CASE \E id \in ToolIds : EmitToolStarted(id) \/ EmitToolUpdated(id) \/ EmitToolEnded(id)
  BY <1>6, ToolStartedKeeps, ToolUpdatedKeeps, ToolEndedKeeps
<1>7. CASE EmitAgentCompleted \/ EmitSessionReset
  BY <1>7, AgentCompletedKeeps, SessionResetKeeps
<1>8. CASE UNCHANGED trVars
  BY <1>8 DEF TranscriptInv, trVars
<1> QED  BY <1>1, <1>2, <1>3, <1>4, <1>5, <1>6, <1>7, <1>8 DEF TrNext

LEMMA TranscriptIsSound == TranscriptInv => TranscriptIsFaithful
<1> SUFFICES ASSUME TranscriptInv PROVE TranscriptIsFaithful
  OBVIOUS
<1>1. ToolResultsAreTheirOwn
  <2>1. PICK turns : turns = view.turns
    OBVIOUS
  <2>2. turns \in Seq(TurnRecords)
    BY <2>1 DEF TranscriptInv, Views
  <2> SUFFICES ASSUME NEW t \in DOMAIN turns, NEW i \in DOMAIN turns[t].blocks
               PROVE  turns[t].blocks[i].result # Nil =>
                        /\ turns[t].blocks[i].kind = "tool"
                        /\ turns[t].blocks[i].result = turns[t].blocks[i].id
    BY <2>1, Zenon DEF ToolResultsAreTheirOwn
  <2>3. turns[t] \in TurnRecords
    BY <2>2
  <2>4. PICK blocks : blocks = turns[t].blocks
    OBVIOUS
  <2>5. blocks \in Seq(TurnBlocks)
    BY <2>3, <2>4 DEF TurnRecords
  <2>6. blocks[i] \in TurnBlocks
    BY <2>4, <2>5
  <2> QED  BY <2>4, <2>6 DEF TurnBlocks, WholeBlock, ToolShowsItsOwn
<1>2. CompletedMessagesAreInTheChat
  BY DEF CompletedMessagesAreInTheChat, TranscriptInv, Conversation, Told
<1>3. BadgeCoversSession
  <2>1. view.running \in BOOLEAN /\ badge.running \in BOOLEAN
    BY DEF TranscriptInv, Views, Badges
  <2> QED  BY <2>1 DEF BadgeCoversSession, TranscriptInv, Conversation
<1>4. LedgerHoldsFirstForms
  <2>1. PICK s \in Stores : s = audit.store
    BY DEF TranscriptInv, Audits
  <2>2. PICK o \in Sessions, v \in Views : o = omegon /\ v = view
    BY DEF TranscriptInv
  <2>3. PICK entries : entries = s.entries
    OBVIOUS
  <2>4. PICK turns \in Seq(TurnRecords) : turns = v.turns
    BY ViewFields
  <2> SUFFICES ASSUME app.mode = "remote", o.reset = FALSE, NEW t \in DOMAIN turns,
                      NEW i \in DOMAIN turns[t].blocks
               PROVE  \E e \in ToSet(entries) :
                        /\ e.id = BlockId("remote", turns[t].number, i)
                        /\ GoesOn(e.content, turns[t].blocks[i])
                        /\ o.lost = 0 => IsReadOn(e.content, turns[t].blocks[i], v.chat)
    <3>1. o.reset \in BOOLEAN
      BY DEF Sessions
    <3> QED  BY <2>1, <2>2, <2>3, <2>4, <3>1, Zenon DEF LedgerHoldsFirstForms
  <2>5. FirstForms(o.lost, s, v)
    BY <2>1, <2>2 DEF TranscriptInv, Ledgered
  <2>6. HasForm(o.lost, s, v, t, i)
    BY <2>4, <2>5 DEF FirstForms
  <2>7. PICK b : b = turns[t].blocks[i]
    OBVIOUS
  <2>8. b \in TurnBlocks
    <3>1. turns[t] \in TurnRecords
      OBVIOUS
    <3>2. PICK blocks \in Seq(TurnBlocks) : blocks = turns[t].blocks
      BY <3>1 DEF TurnRecords
    <3>3. blocks[i] \in TurnBlocks
      BY <3>2
    <3> QED  BY <2>7, <3>2, <3>3
  <2>9. PICK e \in Held(s) : /\ e.id = BlockId("remote", turns[t].number, i) /\ GoesOn(e.content, b)
                             /\ o.lost = 0 => StillReads(e.content, b, v.chat)
    BY <2>4, <2>6, <2>7 DEF HasForm
  <2>10. e \in LedgerEntries /\ e \in ToSet(entries)
    BY <2>3, HeldIsEntry DEF Held, EntryListed, ToSet
  <2>11. PICK c \in LedgerBlocks : c = e.content
    BY <2>10 DEF LedgerEntries
  <2>12. GoesOn(c, b) /\ (o.lost = 0 => StillReads(c, b, v.chat))
    BY <2>9, <2>11
  <2>13. ASSUME o.lost = 0 PROVE IsReadOn(c, b, v.chat)
    <3>1. StillReads(c, b, v.chat)
      BY <2>12, <2>13
    <3>2. PICK x \in Seq(Nat), y \in Seq(Nat) : x = c.body /\ y = b.body
      BY <2>8 DEF LedgerBlocks, TurnBlocks
    <3>3. CASE b.kind \in {"thinking", "tool"}
      <4>1. Len(x) = 0 /\ Len(x) <= Len(y)
        BY <3>1, <3>2, <3>3 DEF StillReads
      <4>2. \A k \in 1..Len(x) : x[k] = y[k]
        BY <4>1
      <4>3. IsPrefix(x, y)
        BY <4>1, <4>2, PrefixIs
      <4> QED  BY <3>2, <4>3 DEF IsReadOn
    <3>4. CASE b.kind \in {"text", "aborted"}
      BY <3>1, <3>4 DEF StillReads, IsReadOn, InChat
    <3>5. CASE b.kind = "system"
      <4>1. c = b
        BY <2>12, <3>5 DEF GoesOn
      <4> QED  BY <3>2, <4>1, PrefixOfItself DEF IsReadOn
    <3> QED  BY <2>8, <3>3, <3>4, <3>5 DEF TurnBlocks, BlockKinds
  <2> QED  BY <2>7, <2>9, <2>10, <2>11, <2>12, <2>13
<1>5. LedgerIdsAreUnique
  <2>1. PICK s \in Stores : s = audit.store
    BY DEF TranscriptInv, Audits
  <2>2. EachOnce(s.entries) /\ disk = s.entries
    BY <2>1 DEF Stores, TranscriptInv
  <2> QED  BY <2>2 DEF EachOnce, LedgerIdsAreUnique
<1> QED  BY <1>1, <1>2, <1>3, <1>4, <1>5 DEF TranscriptIsFaithful

\* However Omegon's events interleave, are lost, and however often Auspex starts again: results stay
\* with their tools, whole messages reach the chat, the badge runs while the session does, and the
\* ledger has, until a reset, the first form of every block on screen, and no identifier twice
\* (remote_session.rs apply_session_event; instance_session.rs; controller.rs
\* refresh_audit_timeline; audit_timeline.rs append_entry).
THEOREM TranscriptHolds == TrSpec => []TranscriptIsFaithful
<1>1. TrInit => TranscriptInv
  BY TranscriptStarts
<1>2. TranscriptInv /\ [TrNext]_trVars => TranscriptInv'
  BY TranscriptGoesOn
<1>3. TranscriptInv => TranscriptIsFaithful
  BY TranscriptIsSound
<1> QED  BY <1>1, <1>2, <1>3, PTL DEF TrSpec
=============================================================================
