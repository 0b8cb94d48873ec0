------------------------------ MODULE WebProxy ------------------------------
(***************************************************************************)
(* The local authority proxy (src/bin/omegon_web_proxy.rs): it makes a     *)
(* certificate, takes the port, and gives the browser's calls the bearer   *)
(* token of the daemon, which changes whenever the daemon restarts.  The   *)
(* token is cached in one slot that every call reads, fills and empties    *)
(* between its own awaits.                                                 *)
(***************************************************************************)
EXTENDS Integers, FiniteSets

CONSTANTS
    Calls,           \* calls of the browser
    Helpers,         \* proxy processes
    MaxTokens,       \* tokens the daemon issues
    MaxPairs         \* certificates made

VARIABLES
    authority,  \* external: the daemon: up, the number of its token, whether it demands one
    tokenSlot,  \* ProxyState::token; 0 is None
    call,
    pair,       \* the certificate and the key on disk, each with the number of its making
    helper      \* per process: where it is in main

wpVars == <<authority, tokenSlot, call, pair, helper>>

CallKinds == {"api", "ui", "ws", "status"}
NoCall == [st |-> "idle", kind |-> "api", token |-> 0, retried |-> FALSE, ran |-> 0,
           disturbed |-> FALSE, answer |-> "none"]

NoHelper == [st |-> "off", tls |-> TRUE, mine |-> 0]

Listening == \E h \in Helpers : helper[h].st = "listening"
ActiveCalls == {c \in Calls : call[c].st \notin {"idle", "done"}}

WpInit ==
    /\ authority \in {[up |-> TRUE, token |-> 1, demands |-> d] : d \in BOOLEAN}
    /\ tokenSlot = 0
    /\ call = [c \in Calls |-> NoCall]
    /\ pair = [cert |-> 0, key |-> 0, made |-> 0]
    /\ helper = [h \in Helpers |-> NoHelper]

----------------------------------------------------------------------------
\* main: both files exist, or both are made again, unless --insecure-http.
StartHelper(h, insecure) ==
    /\ helper[h].st = "off"
    /\ helper' = [helper EXCEPT ![h] =
                    [st |-> IF insecure \/ (pair.cert # 0 /\ pair.key # 0) THEN "ready" ELSE "making",
                     tls |-> ~insecure, mine |-> 0]]
    /\ UNCHANGED <<authority, tokenSlot, call, pair>>

\* ensure_local_https_cert: the certificate is written first...
WriteCertificate(h) ==
    /\ helper[h].st = "making" /\ pair.made < MaxPairs
    /\ pair' = [pair EXCEPT !.cert = pair.made + 1, !.made = @ + 1]
    /\ helper' = [helper EXCEPT ![h].st = "halfway", ![h].mine = pair.made + 1]
    /\ UNCHANGED <<authority, tokenSlot, call>>

\* ... and then its key.
WriteKey(h) ==
    /\ helper[h].st = "halfway"
    /\ pair' = [pair EXCEPT !.key = helper[h].mine]
    /\ helper' = [helper EXCEPT ![h].st = "ready"]
    /\ UNCHANGED <<authority, tokenSlot, call>>

\* from_pem_file refuses a key that is not the certificate's; bind a port that is taken.
BindPort(h) ==
    /\ helper[h].st = "ready"
    /\ helper' = [helper EXCEPT ![h] = IF Listening \/ (@.tls /\ pair.cert # pair.key) THEN NoHelper
                                         ELSE [NoHelper EXCEPT !.st = "listening"]]
    /\ tokenSlot' = IF helper'[h].st = "listening" THEN 0 ELSE tokenSlot
    /\ UNCHANGED <<authority, call, pair>>

\* A proxy ends, with the calls it serves.
HelperEnds(h) ==
    /\ helper[h].st # "off"
    /\ helper' = [helper EXCEPT ![h] = NoHelper]
    /\ call' = IF helper[h].st # "listening" THEN call
               ELSE [c \in Calls |-> IF c \in ActiveCalls
                                     THEN [call[c] EXCEPT !.st = "done", !.answer = "aborted"] ELSE call[c]]
    /\ UNCHANGED <<authority, tokenSlot, pair>>

\* The daemon restarts with another token, or is away for a while.
DaemonRestarts ==
    /\ authority.token < MaxTokens
    /\ \E up \in BOOLEAN : authority' = [authority EXCEPT !.token = @ + 1, !.up = up]
    /\ call' = [c \in Calls |-> IF c \in ActiveCalls THEN [call[c] EXCEPT !.disturbed = TRUE] ELSE call[c]]
    /\ UNCHANGED <<tokenSlot, pair, helper>>

DaemonReturns ==
    /\ ~authority.up
    /\ authority' = [authority EXCEPT !.up = TRUE]
    /\ UNCHANGED <<tokenSlot, call, pair, helper>>

----------------------------------------------------------------------------
Ends(c, answer) == call' = [call EXCEPT ![c].st = "done", ![c].answer = answer]

Begins(c, kind, st) ==
    /\ Listening /\ call[c].st = "idle"
    /\ call' = [call EXCEPT ![c].kind = kind, ![c].disturbed = ~authority.up, ![c].st = st,
                            ![c].answer = IF st = "done" THEN "unreachable" ELSE "none"]
    /\ UNCHANGED <<authority, tokenSlot, pair, helper>>

\* The calls of the browser: to the daemon, to the page's server, a stream to the daemon...
proxy_api(c) == Begins(c, "api", "token")
proxy_ui(c) == Begins(c, "ui", "send")
proxy_websocket(c) == Begins(c, "ws", "token")

\* ... and the status, which asks first whether the daemon is reachable.
proxy_status(c) == Begins(c, "status", IF authority.up THEN "token" ELSE "done")

\* current_token: what is cached, or a fresh one; a socket always takes a fresh one.
current_token(c) ==
    /\ call[c].st = "token"
    /\ call' = IF tokenSlot # 0 /\ call[c].kind # "ws"
               THEN [call EXCEPT ![c].token = tokenSlot, ![c].st = "send"]
               ELSE [call EXCEPT ![c].st = "startup"]
    /\ UNCHANGED <<authority, tokenSlot, pair, helper>>

\* fresh_token: /api/startup is asked...
AskStartup(c) ==
    /\ call[c].st = "startup"
    /\ IF authority.up
       THEN call' = [call EXCEPT ![c].token = IF authority.demands THEN authority.token ELSE 0,
                                 ![c].st = "store"]
       ELSE Ends(c, IF call[c].kind = "status" THEN "lenient" ELSE "502")
    /\ UNCHANGED <<authority, tokenSlot, pair, helper>>

\* ... and its answer stored, after another await.  A socket without a token is refused.
StoreToken(c) ==
    /\ call[c].st = "store"
    /\ tokenSlot' = call[c].token
    /\ call' = [d \in Calls |->
                  IF d = c
                  THEN CASE call[c].token # 0 -> [call[c] EXCEPT !.st = "send"]
                         [] call[c].kind = "ws" -> [call[c] EXCEPT !.st = "done", !.answer = "502"]
                         [] call[c].kind = "status" -> [call[c] EXCEPT !.st = "done", !.answer = "lenient"]
                         [] OTHER -> [call[c] EXCEPT !.st = "send"]
                  ELSE IF d \in ActiveCalls THEN [call[d] EXCEPT !.disturbed = TRUE] ELSE call[d]]
    /\ UNCHANGED <<authority, pair, helper>>

Accepts(c) == ~authority.demands \/ call[c].token = authority.token

\* forward_once: the upstream carries the call out, with the proxy's authority if it is the
\* daemon, or the daemon says 401; the answer may be lost on the way back.
forward_once(c, lost) ==
    /\ call[c].st = "send" /\ call[c].kind \in {"api", "ui"}
    /\ IF call[c].kind = "ui" \/ (authority.up /\ Accepts(c))
       THEN call' = [call EXCEPT ![c].ran = @ + 1, ![c].st = "done", ![c].answer = IF lost THEN "502" ELSE "200"]
       ELSE IF authority.up THEN call' = [call EXCEPT ![c].st = "unauthorized"] ELSE Ends(c, "502")
    /\ UNCHANGED <<authority, tokenSlot, pair, helper>>

\* bridge_websocket: the browser's socket is open by now; it is dropped if the daemon's is not.
bridge_websocket(c) ==
    /\ call[c].st = "send" /\ call[c].kind = "ws"
    /\ IF authority.up /\ Accepts(c) THEN call' = [call EXCEPT ![c].st = "bridged"]
       ELSE Ends(c, IF authority.up THEN "refused" ELSE "aborted")
    /\ UNCHANGED <<authority, tokenSlot, pair, helper>>

\* Its select!: the first direction that ends takes the other with it.
BridgeEnds(c) ==
    /\ call[c].st = "bridged"
    /\ Ends(c, "closed")
    /\ UNCHANGED <<authority, tokenSlot, pair, helper>>

\* daemon_requires_proxy_identity: a probe with the token and without the proxy's identity.
daemon_requires_proxy_identity(c) ==
    /\ call[c].st = "send" /\ call[c].kind = "status"
    /\ Ends(c, IF authority.up /\ ~Accepts(c) THEN "strict" ELSE "lenient")
    /\ UNCHANGED <<authority, tokenSlot, pair, helper>>

\* Mutant: the slot keeps the token the daemon did not take.
retry_with_slot(c) ==
    /\ call[c].st = "unauthorized"
    /\ IF call[c].retried THEN Ends(c, "401")
       ELSE call' = [call EXCEPT ![c].retried = TRUE, ![c].st = "token"]
    /\ UNCHANGED <<authority, tokenSlot, pair, helper>>

\* proxy_api: a 401 empties the slot and the call is made once more.
RetryUnauthorized(c) ==
    /\ call[c].st = "unauthorized"
    /\ IF call[c].retried
       THEN Ends(c, "401") /\ UNCHANGED tokenSlot
       ELSE /\ tokenSlot' = 0
            /\ call' = [call EXCEPT ![c].retried = TRUE, ![c].st = "token"]
    /\ UNCHANGED <<authority, pair, helper>>

WpNext ==
    \/ \E h \in Helpers : \/ \E insecure \in BOOLEAN : StartHelper(h, insecure)
                          \/ WriteCertificate(h) \/ WriteKey(h) \/ BindPort(h) \/ HelperEnds(h)
    \/ DaemonRestarts \/ DaemonReturns
    \/ \E c \in Calls : \/ proxy_api(c) \/ proxy_ui(c) \/ proxy_websocket(c) \/ proxy_status(c)
                        \/ current_token(c) \/ AskStartup(c) \/ StoreToken(c)
                        \/ \E lost \in BOOLEAN : forward_once(c, lost)
                        \/ bridge_websocket(c) \/ BridgeEnds(c) \/ daemon_requires_proxy_identity(c)
                        \/ RetryUnauthorized(c)

WpSpec == WpInit /\ [][WpNext]_wpVars

----------------------------------------------------------------------------
\* The state is well formed; one process at most has the port, and only it has calls.
WpTypeOK ==
    /\ tokenSlot \in 0..MaxTokens
    /\ \A c \in Calls : call[c].kind \in CallKinds /\ call[c].token \in 0..MaxTokens
    /\ pair.cert \in 0..MaxPairs /\ pair.key \in 0..MaxPairs
    /\ Cardinality({h \in Helpers : helper[h].st = "listening"}) <= 1
    /\ ActiveCalls # {} => Listening

\* A call of the browser is carried out once at most: proxy_api repeats only what the daemon
\* refused to do, and nothing whose answer was lost (forward_once).
CarriedOutOnce == \A c \in Calls : call[c].ran <= 1

\* "Daemon restart rotates bearer: adapter must refresh on 401 and before WS connect": a call
\* the daemon could take ends with 401, or as a refused socket, only if the daemon restarted
\* meanwhile or another call put a token into the slot; a token that was stale before costs one
\* repetition (proxy_api, current_token).
StaleTokenIsReplaced ==
    \A c \in Calls : call[c].answer \in {"401", "refused"} => call[c].disturbed

\* Expected to fail.  The status says whether the daemon is strict about the proxy's identity;
\* a stale token in the slot is taken for strictness.
StrictIsStrict == \A c \in Calls : call[c].answer = "strict" => call[c].disturbed

\* Expected to fail.  A pair that nobody is making serves: two proxies that start together leave
\* a certificate and a key of different makings, which no later start replaces.
PairServes ==
    pair.cert # 0 /\ pair.key # 0 /\ (\A h \in Helpers : helper[h].st \notin {"making", "halfway"})
        => pair.cert = pair.key

\* A call of the browser is carried out at most once, and a token that went stale costs a
\* repetition and not the call (proxy_api).
CallsAreForwarded == CarriedOutOnce /\ StaleTokenIsReplaced
=============================================================================
