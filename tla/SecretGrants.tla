---------------------------- MODULE SecretGrants ----------------------------
(***************************************************************************)
(* Secret grants and leases: the file-backed broker of secret_grants.rs    *)
(* and prepare_worker_security of secret_orchestration.rs, which creates   *)
(* and redeems a grant for a worker about to be launched.                  *)
(*                                                                         *)
(* The broker changes its store in memory under a lock, then writes all of *)
(* it to the file.  A write may fail, which the caller is told, and the    *)
(* process may stop between steps; either may leave half a file, which no  *)
(* broker can open until a later write succeeds.  Workers of the same      *)
(* role, profile and workspace get the same default grant id and           *)
(* principal.                                                              *)
(* Who redeems, and with which digest and delivery mode, is up to the      *)
(* caller.  Leases carry an expiry that the code never reads again; time   *)
(* is left out.                                                            *)
(***************************************************************************)
EXTENDS Integers, Sequences, FiniteSets

CONSTANTS Workers, GrantIds, GrantOf, Digests, MaxRenewals, MaxRedeems, MaxFaults

ASSUME GrantsAssumption ==
    /\ GrantOf \in [Workers -> GrantIds]
    /\ MaxRenewals \in Nat

VARIABLES
    mem,      \* the broker's store, or Closed
    file,     \* the store on disk, or Torn
    stage,    \* how far prepare_worker_security has come for each worker
    given,    \* what callers were given: leases, renewals, revocations
    faults    \* failed writes and stops so far

sgVars == <<mem, file, stage, given, faults>>

NoGrant == [status |-> "none", principal |-> "none", digest |-> "none"]

\* The principal a grant of this id is made for.
Principal(g) == <<"styrene", g>>

Empty == [open |-> TRUE, grants |-> [g \in GrantIds |-> NoGrant], leases |-> {}]

Closed == [Empty EXCEPT !.open = FALSE]

Torn == Closed

SgInit ==
    /\ mem = Empty
    /\ file = Empty
    /\ stage = [w \in Workers |-> "new"]
    /\ given = [leases |-> {}, revoked |-> {}, renewals |-> {}]
    /\ faults = 0

-----------------------------------------------------------------------------
(* The broker. *)

\* persist_locked: memory has changed already when the write fails, and the file, which is
\* truncated before it is written, may be what it was or in pieces.
Commit(store) == mem' = store /\ file' = store /\ UNCHANGED faults

WriteFails(store) ==
    /\ faults < MaxFaults
    /\ faults' = faults + 1
    /\ mem' = store /\ file' \in {file, Torn}

\* The store after create_grant; there must be no grant of that id.
Created(g, grant) == [mem EXCEPT !.grants[g] = grant]

LeasesOf(store, g) == {l \in store.leases : l.grant = g}

Lease(store, g) ==
    [grant |-> g, number |-> Cardinality(LeasesOf(store, g)) + 1,
     status |-> "active", renewals |-> 0]

\* validate_redeem_request; a digest is checked when the grant names one.
Redeemable(g, principal, digest) ==
    /\ mem.grants[g].status = "active"
    /\ mem.grants[g].principal = principal
    /\ mem.grants[g].digest \in {"any", digest}

Redeemed(g) ==
    [mem EXCEPT !.grants[g].status = "redeemed", !.leases = @ \union {Lease(mem, g)}]

\* What the caller is given when the write has succeeded.
Give(g, principal) ==
    given' = [given EXCEPT !.leases = @ \union {[lease |-> Lease(mem, g), holder |-> principal]}]

\* Mutant: the grant is marked after its lease was written and handed out.
redeem_grant_then_mark(g, principal, digest) ==
    /\ Redeemable(g, principal, digest)
    /\ file' = [mem EXCEPT !.leases = @ \union {Lease(mem, g)}]
    /\ mem' = Redeemed(g)
    /\ Give(g, principal)
    /\ UNCHANGED faults

redeem_grant(g, principal, digest) ==
    /\ Redeemable(g, principal, digest)
    /\ \/ Commit(Redeemed(g)) /\ Give(g, principal)
       \/ WriteFails(Redeemed(g)) /\ UNCHANGED given

Replace(old, new) == [mem EXCEPT !.leases = (@ \ {old}) \union {new}]

MayRenew(l) == l.status = "active" /\ l.renewals < MaxRenewals

renew_lease(l) ==
    LET renewed == [l EXCEPT !.renewals = @ + 1, !.status = "active"]
    IN  /\ MayRenew(l)
        /\ \/ /\ Commit(Replace(l, renewed))
              /\ given' = [given EXCEPT !.renewals = @ \union {renewed}]
           \/ WriteFails(Replace(l, renewed)) /\ UNCHANGED given

\* Any lease may be revoked, whatever it has become.
revoke_lease(l) ==
    LET revoked == [l EXCEPT !.status = "revoked"]
    IN  \/ /\ Commit(Replace(l, revoked))
           /\ given' = [given EXCEPT !.revoked = @ \union {<<l.grant, l.number>>}]
        \/ WriteFails(Replace(l, revoked)) /\ UNCHANGED given

Renew == \E l \in mem.leases : renew_lease(l) /\ UNCHANGED stage

Revoke == \E l \in mem.leases : revoke_lease(l) /\ UNCHANGED stage

\* A redemption by whoever calls the broker.
RedeemDirectly ==
    \E g, p \in GrantIds, d \in Digests :
        redeem_grant(g, Principal(p), d) /\ UNCHANGED stage

-----------------------------------------------------------------------------
(* prepare_worker_security: create, then redeem; an error ends it. *)

CreateForWorker(w) ==
    LET g == GrantOf[w]
        grant == [status |-> "active", principal |-> Principal(g),
                  digest |-> IF Digests = {} THEN "any" ELSE CHOOSE d \in Digests : TRUE]
    IN  /\ mem.open /\ stage[w] = "new"
        /\ \/ /\ mem.grants[g] = NoGrant
              /\ \/ Commit(Created(g, grant)) /\ stage' = [stage EXCEPT ![w] = "created"]
                 \/ WriteFails(Created(g, grant)) /\ stage' = [stage EXCEPT ![w] = "failed"]
           \/ /\ mem.grants[g] # NoGrant
              /\ stage' = [stage EXCEPT ![w] = "failed"]
              /\ UNCHANGED <<mem, file, faults>>
        /\ UNCHANGED given

RedeemForWorker(w) ==
    LET g == GrantOf[w] IN
    /\ mem.open /\ stage[w] = "created"
    /\ \/ /\ redeem_grant(g, mem.grants[g].principal, mem.grants[g].digest)
          /\ stage' = [stage EXCEPT ![w] =
                IF given' # given THEN "prepared" ELSE "failed"]
       \/ /\ mem.grants[g].status # "active"
          /\ stage' = [stage EXCEPT ![w] = "failed"]
          /\ UNCHANGED <<mem, file, given, faults>>

\* The process stops: what is on disk is what was last written, or half of it.
Stop ==
    /\ mem.open /\ faults < MaxFaults
    /\ faults' = faults + 1
    /\ mem' = Closed
    /\ file' \in {file, Torn}
    /\ stage' = [w \in Workers |-> IF stage[w] = "created" THEN "failed" ELSE stage[w]]
    /\ UNCHANGED given

\* load_store_or_default: a torn file is an error, not an empty store.
Open ==
    /\ ~mem.open /\ file.open
    /\ mem' = file
    /\ UNCHANGED <<file, stage, given, faults>>

\* Relaunching a worker starts over.
Relaunch(w) ==
    /\ stage[w] = "failed" /\ Cardinality(given.leases) < MaxRedeems
    /\ stage' = [stage EXCEPT ![w] = "new"]
    /\ UNCHANGED <<mem, file, given, faults>>

SgNext ==
    \/ \E w \in Workers : CreateForWorker(w) \/ RedeemForWorker(w) \/ Relaunch(w)
    \/ Renew \/ Revoke \/ RedeemDirectly \/ Stop \/ Open

SgSpec == SgInit /\ [][SgNext]_sgVars

-----------------------------------------------------------------------------
(* Properties. *)

SgStatuses == {"none", "active", "redeemed"}

\* Leases are counted from one, and a worker that is about to redeem its grant
\* has one in the store.
SgTypeOK ==
    /\ \A g \in GrantIds : mem.grants[g].status \in SgStatuses
    /\ \A s \in {mem, file} : \A l \in s.leases :
         l.number > 0 /\ l.status \in {"active", "revoked"}
    /\ stage \in [Workers -> {"new", "created", "prepared", "failed"}]
    /\ \A w \in Workers : stage[w] = "created" => mem.grants[GrantOf[w]] # NoGrant

\* A grant is redeemed once: whatever fails, stops or races, no two leases of
\* one grant are ever handed out.
RedeemedOnce ==
    \A x, y \in given.leases : x.lease.grant = y.lease.grant => x = y

\* A lease is only ever handed to the principal its grant was made for, and a
\* worker is launched only once a lease of its grant was handed out.
LeasesGoToTheirPrincipal ==
    /\ \A x \in given.leases : x.holder = Principal(x.lease.grant)
    /\ \A w \in Workers : stage[w] = "prepared" =>
         \E x \in given.leases : x.lease.grant = GrantOf[w]

\* A revocation the caller was told of is final: the lease is never active
\* again, in memory, on disk or after a restart.
RevocationIsFinal ==
    \A s \in {mem, file} : \A l \in s.leases :
        <<l.grant, l.number>> \in given.revoked => l.status = "revoked"

\* No lease is renewed more often than its grant allows, through restarts
\* that forget a renewal that was not written.
RenewalsAreBounded ==
    \A l \in given.renewals \union mem.leases : l.renewals <= MaxRenewals

\* What the broker promises of a grant, through failed writes, restarts and racing workers: one
\* lease, for its principal, renewed as often as allowed and never again once revoked.
GrantsAreHonoured ==
    RedeemedOnce /\ LeasesGoToTheirPrincipal /\ RenewalsAreBounded /\ RevocationIsFinal
==============================================================================
