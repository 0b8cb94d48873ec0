-------------------------- MODULE ConversationProofs -------------------------
(***************************************************************************)
(* Proofs about what Auspex and its operator agree on with others: the     *)
(* secrets granted to workers, the switch of a dispatcher, the proxied     *)
(* WebSocket of an agent, and the probes of external agents.               *)
(***************************************************************************)
EXTENDS SecretGrants, DispatcherSwitch, FleetApi, ExternalAgents, FiniteSetTheorems, TLAPS

-----------------------------------------------------------------------------
(***************************************************************************)
(* The broker of SecretGrants honours its grants, for every set of workers *)
(* and grants, every number of failed writes and stops, and whoever        *)
(* redeems.                                                                *)
(*                                                                         *)
(* The promises are about what callers were given, and the code keeps no   *)
(* such record: they follow from what the two copies of the store, memory  *)
(* and file, say of each grant.  In either copy a grant with a lease is    *)
(* marked as redeemed, so no copy ever holds two leases of one grant, and  *)
(* what was handed out or revoked is marked in both copies, so that going  *)
(* back to the file cannot undo it.                                        *)
(***************************************************************************)
Leases ==
    [grant : GrantIds, number : {1}, status : {"active", "revoked"}, renewals : 0..MaxRenewals]

Grants ==
    {NoGrant} \cup
    [status : {"active", "redeemed"}, principal : {Principal(g) : g \in GrantIds},
     digest : Digests \cup {"any"}]

Stores == [open : BOOLEAN, grants : [GrantIds -> Grants], leases : SUBSET Leases]

Gifts ==
    [leases : SUBSET [lease : Leases, holder : {Principal(g) : g \in GrantIds}],
     revoked : SUBSET (GrantIds \X {1}),
     renewals : SUBSET Leases]

\* One copy of the store: a grant belongs to its principal, a grant with a
\* lease is marked, and its lease is its only one.
Sound(s) ==
    /\ s \in Stores
    /\ \A g \in GrantIds : s.grants[g] # NoGrant => s.grants[g].principal = Principal(g)
    /\ \A l \in s.leases : s.grants[l.grant].status = "redeemed"
    /\ \A k, l \in s.leases : k.grant = l.grant => k = l
    /\ ~s.open => s = Closed

\* A copy that can be used knows what callers were told.
Knows(s, gifts) ==
    /\ s.open => /\ \A x \in gifts.leases : s.grants[x.lease.grant].status = "redeemed"
                 /\ \A r \in gifts.revoked : s.grants[r[1]].status = "redeemed"
    /\ \A l \in s.leases : <<l.grant, l.number>> \in gifts.revoked => l.status = "revoked"

SgInv ==
    /\ Sound(mem) /\ Sound(file)
    /\ Knows(mem, given) /\ Knows(file, given)
    /\ given \in Gifts
    /\ stage \in [Workers -> {"new", "created", "prepared", "failed"}]
    /\ RedeemedOnce /\ LeasesGoToTheirPrincipal

-----------------------------------------------------------------------------
(* The three changes of the store. *)

LEMMA ClosedIsSound == Sound(Closed) /\ Sound(Empty)
BY DEF Sound, Closed, Empty, Stores, Grants

LEMMA ClosedKnows == \A gifts : Knows(Closed, gifts)
BY DEF Knows, Closed, Empty

\* create_grant: an unused id, and a grant for its principal.
LEMMA CreatedIsSound ==
    ASSUME Sound(mem), mem.open, NEW g \in GrantIds, mem.grants[g] = NoGrant,
           NEW STATE grant, grant \in Grants, grant.status = "active", grant.principal = Principal(g)
    PROVE  Sound(Created(g, grant))
<1>1. mem \in Stores BY DEF Sound
<1>2. \A l \in mem.leases : l.grant \in GrantIds BY <1>1 DEF Stores, Leases
<1>3. \A l \in mem.leases : l.grant # g BY DEF Sound, NoGrant
<1> QED BY <1>1, <1>2, <1>3 DEF Sound, Created, Stores

LEMMA CreatedKnows ==
    ASSUME Sound(mem), mem.open, Knows(mem, given), given \in Gifts,
           NEW g \in GrantIds, mem.grants[g] = NoGrant, NEW STATE grant
    PROVE  Knows(Created(g, grant), given)
<1>1. mem \in Stores BY DEF Sound
<1>2. \A x \in given.leases : x.lease.grant \in GrantIds /\ x.lease.grant # g
  BY DEF Knows, Gifts, Leases, NoGrant
<1>3. \A r \in given.revoked : r[1] \in GrantIds /\ r[1] # g
  BY DEF Knows, Gifts, NoGrant
<1> QED BY <1>1, <1>2, <1>3 DEF Knows, Created, Stores

\* redeem_grant: an active grant has no lease yet, so its first one is its only one.
LEMMA FirstLease ==
    ASSUME Sound(mem), NEW g \in GrantIds, mem.grants[g].status = "active",
           MaxRenewals \in Nat
    PROVE  /\ LeasesOf(mem, g) = {}
           /\ Lease(mem, g) = [grant |-> g, number |-> 1, status |-> "active", renewals |-> 0]
           /\ Lease(mem, g) \in Leases
<1>1. LeasesOf(mem, g) = {} BY DEF Sound, LeasesOf
<1>2. Cardinality(LeasesOf(mem, g)) = 0 BY <1>1, FS_EmptySet
<1> QED BY <1>1, <1>2 DEF Lease, Leases

LEMMA RedeemedIsSound ==
    ASSUME Sound(mem), NEW g \in GrantIds, mem.grants[g].status = "active",
           MaxRenewals \in Nat
    PROVE  Sound(Redeemed(g)) /\ Redeemed(g).open = mem.open /\ mem.open
<1>1. mem \in Stores BY DEF Sound
<1>2. mem.open BY DEF Sound, Closed, Empty, NoGrant
<1>3. mem.grants[g] \in Grants /\ mem.grants[g] # NoGrant BY <1>1 DEF Stores, NoGrant
<1>4. [mem.grants[g] EXCEPT !.status = "redeemed"] \in Grants
  BY <1>3 DEF Grants
<1>5. Redeemed(g) \in Stores BY <1>1, <1>4, FirstLease DEF Redeemed, Stores
<1>6. \A l \in mem.leases : l.grant \in GrantIds /\ l.grant # g
  BY <1>1 DEF Sound, Stores, Leases
<1>7. \A l \in Redeemed(g).leases : Redeemed(g).grants[l.grant].status = "redeemed"
  BY <1>1, <1>3, <1>6, FirstLease DEF Redeemed, Stores, Sound, Grants
<1>8. \A k, l \in Redeemed(g).leases : k.grant = l.grant => k = l
  BY <1>1, <1>6, FirstLease DEF Redeemed, Stores, Sound
<1>9. \A h \in GrantIds : Redeemed(g).grants[h] # NoGrant
                             => Redeemed(g).grants[h].principal = Principal(h)
  BY <1>1, <1>3 DEF Redeemed, Stores, Sound, Grants
<1>10. Redeemed(g).open = mem.open BY <1>1 DEF Redeemed, Stores
<1> QED BY <1>2, <1>5, <1>7, <1>8, <1>9, <1>10 DEF Sound

\* renew_lease and revoke_lease: a lease is replaced by itself, changed.
LEMMA ReplacedIsSound ==
    ASSUME Sound(mem), NEW STATE old, old \in mem.leases, NEW STATE new, new \in Leases, new.grant = old.grant
    PROVE  Sound(Replace(old, new)) /\ Replace(old, new).open /\ mem.open
<1>1. mem \in Stores BY DEF Sound
<1>2. mem.open BY DEF Sound, Closed, Empty
<1>3. /\ Replace(old, new).open = mem.open
      /\ Replace(old, new).grants = mem.grants
      /\ Replace(old, new).leases = (mem.leases \ {old}) \cup {new}
      /\ Replace(old, new) \in Stores
  BY <1>1 DEF Replace, Stores
<1> QED BY <1>1, <1>2, <1>3 DEF Sound

-----------------------------------------------------------------------------
(* Every step keeps the invariant. *)

\* The store is only ever left alone, written whole, or changed in memory.
LEMMA StoreKept ==
    ASSUME SgInv, NEW STATE store, Sound(store), Knows(store, given'), Knows(file, given'),
           Commit(store) \/ WriteFails(store)
    PROVE  Sound(mem)' /\ Sound(file)' /\ Knows(mem', given') /\ Knows(file', given')
<1>1. mem' = store /\ file' \in {store, file, Torn} BY DEF Commit, WriteFails
<1>2. Sound(mem)' BY <1>1 DEF Sound, Closed, Empty, Stores, Grants, NoGrant, Leases, Principal
<1>3. CASE file' = store BY <1>1, <1>2, <1>3 DEF Sound, Closed, Empty, Stores, Grants, NoGrant, Leases, Principal
<1>4. CASE file' = file
  BY <1>1, <1>2, <1>4 DEF SgInv, Sound, Closed, Empty, Stores, Grants, NoGrant, Leases, Principal
<1>5. CASE file' = Torn
  <2>1. Sound(file)' BY <1>5, ClosedIsSound DEF Torn, Sound, Closed, Empty, Stores, Grants, NoGrant, Leases, Principal
  <2>2. Knows(file', given') BY <1>5 DEF Torn, Knows, Closed, Empty
  <2> QED BY <1>1, <1>2, <2>1, <2>2
<1> QED BY <1>1, <1>3, <1>4, <1>5

LEMMA InitSgInv == SgInit => SgInv
<1> SUFFICES ASSUME SgInit PROVE SgInv OBVIOUS
<1>1. Sound(mem) /\ Sound(file) BY ClosedIsSound DEF SgInit
<1> QED BY <1>1 DEF SgInit, SgInv, Knows, Empty, Gifts, RedeemedOnce, LeasesGoToTheirPrincipal

\* create_grant on behalf of a worker
LEMMA CreateKeeps ==
    ASSUME SgInv, NEW w \in Workers, CreateForWorker(w)
    PROVE  SgInv'
<1> DEFINE g == GrantOf[w]
           grant == [status |-> "active", principal |-> Principal(g),
                     digest |-> IF Digests = {} THEN "any" ELSE CHOOSE d \in Digests : TRUE]
<1>1. g \in GrantIds BY GrantsAssumption
<1>2. grant \in Grants /\ grant.status = "active" /\ grant.principal = Principal(g)
  BY <1>1 DEF Grants
<1>3. given' = given /\ mem.open BY DEF CreateForWorker
<1>4. /\ stage' \in [Workers -> {"new", "created", "prepared", "failed"}]
      /\ \A v \in Workers : stage'[v] = "prepared" => stage[v] = "prepared"
  BY DEF SgInv, CreateForWorker
<1>5. Sound(mem)' /\ Sound(file)' /\ Knows(mem', given') /\ Knows(file', given')
  <2>1. CASE mem.grants[g] = NoGrant
    <3>1. Commit(Created(g, grant)) \/ WriteFails(Created(g, grant))
      BY <2>1 DEF CreateForWorker
    <3>2. Sound(Created(g, grant)) /\ Knows(Created(g, grant), given)
      BY <1>1, <1>2, <1>3, <2>1, CreatedIsSound, CreatedKnows DEF SgInv
    <3> HIDE DEF g, grant
    <3> QED BY <1>3, <3>1, <3>2, StoreKept DEF SgInv
  <2>2. CASE mem.grants[g] # NoGrant
    BY <1>3, <2>2 DEF CreateForWorker, SgInv, Sound
  <2> QED BY <2>1, <2>2
<1> HIDE DEF g, grant
<1> QED BY <1>3, <1>4, <1>5 DEF SgInv, RedeemedOnce, LeasesGoToTheirPrincipal

\* redeem_grant, by whomever: the lease handed out is the grant's first, and
\* both copies mark the grant before it is handed out.
LEMMA RedeemKeeps ==
    ASSUME SgInv, NEW g \in GrantIds, NEW STATE principal, NEW STATE digest,
           redeem_grant(g, principal, digest)
    PROVE  /\ Sound(mem)' /\ Sound(file)' /\ Knows(mem', given') /\ Knows(file', given')
           /\ given' \in Gifts
           /\ RedeemedOnce'
           /\ given.leases \subseteq given'.leases
           /\ \A x \in given'.leases : x.holder = Principal(x.lease.grant)
           /\ given' # given => \E x \in given'.leases : x.lease.grant = g
<1>1. /\ mem.grants[g].status = "active" /\ principal = Principal(g)
      /\ Sound(Redeemed(g)) /\ mem.open /\ Redeemed(g).open
  <2>1. mem.grants[g].status = "active" /\ mem.grants[g].principal = principal
    BY DEF redeem_grant, Redeemable
  <2>2. mem.grants[g] # NoGrant BY <2>1 DEF NoGrant
  <2> QED BY <2>1, <2>2, RedeemedIsSound, GrantsAssumption DEF SgInv, Sound
<1> DEFINE new == [lease |-> Lease(mem, g), holder |-> principal]
<1>2. /\ Lease(mem, g) \in Leases /\ Lease(mem, g).grant = g /\ Lease(mem, g).status = "active"
      /\ Lease(mem, g).number = 1
  BY <1>1, FirstLease, GrantsAssumption DEF SgInv
<1>3. mem \in Stores /\ given \in Gifts BY DEF SgInv, Sound
<1>4. /\ Redeemed(g).leases = mem.leases \cup {Lease(mem, g)}
      /\ Redeemed(g).grants = [mem.grants EXCEPT ![g].status = "redeemed"]
  BY <1>3 DEF Redeemed, Stores
<1>5. \A h \in GrantIds : Redeemed(g).grants[h].status =
                             IF h = g THEN "redeemed" ELSE mem.grants[h].status
  <2>1. mem.grants[g] # NoGrant /\ mem.grants[g] \in Grants
    BY <1>1, <1>3 DEF NoGrant, Stores
  <2> QED BY <1>3, <1>4, <2>1 DEF Stores, Grants
<1>6. \A x \in given.leases : x.lease.grant \in GrantIds /\ x.lease.grant # g
  BY <1>1, <1>3 DEF SgInv, Knows, Gifts, Leases
<1>7. \A r \in given.revoked : r[1] \in GrantIds /\ r[1] # g /\ r = <<r[1], 1>>
  BY <1>1, <1>3 DEF SgInv, Knows, Gifts
<1>8. Knows(Redeemed(g), given)
  <2>1. \A x \in given.leases : Redeemed(g).grants[x.lease.grant].status = "redeemed"
    BY <1>1, <1>5, <1>6 DEF SgInv, Knows
  <2>2. \A r \in given.revoked : Redeemed(g).grants[r[1]].status = "redeemed"
    BY <1>1, <1>5, <1>7 DEF SgInv, Knows
  <2>3. <<Lease(mem, g).grant, Lease(mem, g).number>> \notin given.revoked
    BY <1>2, <1>7
  <2> QED BY <1>4, <2>1, <2>2, <2>3 DEF SgInv, Knows
<1>9. CASE WriteFails(Redeemed(g)) /\ UNCHANGED given
  <2>1. Knows(file, given') /\ Knows(Redeemed(g), given') BY <1>8, <1>9 DEF SgInv
  <2>2. Sound(mem)' /\ Sound(file)' /\ Knows(mem', given') /\ Knows(file', given')
    BY <1>1, <1>9, <2>1, StoreKept
  <2> QED BY <1>9, <2>2 DEF SgInv, RedeemedOnce, LeasesGoToTheirPrincipal
<1>10. CASE Commit(Redeemed(g)) /\ Give(g, principal)
  <2>1. /\ given'.leases = given.leases \cup {new}
        /\ given'.revoked = given.revoked /\ given'.renewals = given.renewals
        /\ given' = [given EXCEPT !.leases = @ \cup {new}]
    BY <1>3, <1>10 DEF Give, Gifts
  <2>2. new \in [lease : Leases, holder : {Principal(h) : h \in GrantIds}]
    BY <1>1, <1>2
  <2>3. given' \in Gifts BY <1>3, <2>1, <2>2 DEF Gifts
  <2>4. Redeemed(g).grants[g].status = "redeemed" BY <1>1, <1>5
  <2>5. Knows(Redeemed(g), given')
    BY <1>2, <1>8, <2>1, <2>4 DEF Knows
  <2>6. mem' = Redeemed(g) /\ file' = Redeemed(g) BY <1>10 DEF Commit
  <2>7. RedeemedOnce'
    BY <1>2, <1>6, <2>1 DEF SgInv, RedeemedOnce
  <2>8. \A x \in given'.leases : x.holder = Principal(x.lease.grant)
    BY <1>1, <1>2, <2>1 DEF SgInv, LeasesGoToTheirPrincipal
  <2>9. new \in given'.leases /\ new.lease.grant = g BY <1>2, <2>1
  <2> HIDE DEF new
  <2> QED BY <1>1, <2>1, <2>3, <2>5, <2>6, <2>7, <2>8, <2>9
<1> QED BY <1>9, <1>10 DEF redeem_grant

\* renew_lease and revoke_lease: the lease keeps its grant and number, and a
\* revoked one is not made active again.
LEMMA ReplaceKeeps ==
    ASSUME SgInv, NEW STATE old, old \in mem.leases, NEW STATE new, new \in Leases, new.grant = old.grant,
           old.status = "revoked" => new.status = "revoked",
           \/ Commit(Replace(old, new)) \/ WriteFails(Replace(old, new)),
           given' \in Gifts, given'.leases = given.leases,
           given.revoked \subseteq given'.revoked,
           given'.revoked \subseteq given.revoked \cup {<<new.grant, 1>>},
           given'.revoked # given.revoked =>
               new.status = "revoked" /\ Commit(Replace(old, new)),
           UNCHANGED stage
    PROVE  SgInv'
<1>1. Sound(Replace(old, new)) /\ Replace(old, new).open /\ mem.open
  BY ReplacedIsSound DEF SgInv
<1>2. mem \in Stores /\ given \in Gifts BY DEF SgInv, Sound
<1>3. /\ Replace(old, new).grants = mem.grants
      /\ Replace(old, new).leases = (mem.leases \ {old}) \cup {new}
  BY <1>2 DEF Replace, Stores
<1>4. \A l \in mem.leases : l.number = 1 /\ l.grant \in GrantIds BY <1>2 DEF Stores, Leases
<1>5. new.number = 1 BY DEF Leases
<1>6. \A k \in mem.leases \ {old} : k.grant # new.grant BY DEF SgInv, Sound
<1>7. mem.grants[new.grant].status = "redeemed" BY DEF SgInv, Sound
<1>8. <<new.grant, 1>> \in given.revoked => new.status = "revoked"
  BY <1>4 DEF SgInv, Knows
<1>9. Knows(Replace(old, new), given')
  <2>1. \A x \in given'.leases : mem.grants[x.lease.grant].status = "redeemed"
    BY <1>1 DEF SgInv, Knows
  <2>2. \A r \in given'.revoked : mem.grants[r[1]].status = "redeemed"
    BY <1>1, <1>7 DEF SgInv, Knows
  <2>3. \A l \in mem.leases \ {old} :
           <<l.grant, l.number>> \in given'.revoked => l.status = "revoked"
    BY <1>4, <1>6 DEF SgInv, Knows
  <2>4. <<new.grant, new.number>> \in given'.revoked => new.status = "revoked"
    BY <1>5, <1>8
  <2> QED BY <1>3, <2>1, <2>2, <2>3, <2>4 DEF Knows
<1>10. Sound(mem)' /\ Sound(file)' /\ Knows(mem', given') /\ Knows(file', given')
  <2>1. CASE given'.revoked # given.revoked
    <3>1. mem' = Replace(old, new) /\ file' = Replace(old, new) BY <2>1 DEF Commit
    <3> QED BY <1>1, <1>9, <3>1
  <2>2. CASE given'.revoked = given.revoked
    <3>1. Knows(file, given') BY <2>2 DEF SgInv, Knows
    <3> QED BY <1>1, <1>9, <3>1, StoreKept
  <2> QED BY <2>1, <2>2
<1> QED BY <1>10 DEF SgInv, RedeemedOnce, LeasesGoToTheirPrincipal

LEMMA RenewKeeps == SgInv /\ Renew => SgInv'
<1> SUFFICES ASSUME SgInv, NEW l \in mem.leases, renew_lease(l), UNCHANGED stage
             PROVE  SgInv'
  BY DEF Renew
<1> DEFINE renewed == [l EXCEPT !.renewals = @ + 1, !.status = "active"]
<1>1. mem \in Stores /\ given \in Gifts /\ l \in Leases BY DEF SgInv, Sound, Stores
<1>2. l.status = "active" /\ l.renewals < MaxRenewals BY DEF renew_lease, MayRenew
<1>3. renewed \in Leases /\ renewed.grant = l.grant /\ renewed.status = "active"
  <2>1. l.renewals + 1 \in 0..MaxRenewals BY <1>1, <1>2, GrantsAssumption DEF Leases
  <2> DEFINE more == [l EXCEPT !.renewals = l.renewals + 1]
  <2>2. more \in Leases /\ more.grant = l.grant BY <1>1, <2>1 DEF Leases
  <2>3. renewed = [more EXCEPT !.status = "active"] OBVIOUS
  <2> HIDE DEF more, renewed
  <2> QED BY <2>2, <2>3 DEF Leases
<1>4. /\ given' \in Gifts /\ given'.leases = given.leases /\ given'.revoked = given.revoked
      /\ Commit(Replace(l, renewed)) \/ WriteFails(Replace(l, renewed))
  BY <1>1, <1>3 DEF renew_lease, Gifts
<1> HIDE DEF renewed
<1> QED BY <1>2, <1>3, <1>4, ReplaceKeeps

LEMMA RevokeKeeps == SgInv /\ Revoke => SgInv'
<1> SUFFICES ASSUME SgInv, NEW l \in mem.leases, revoke_lease(l), UNCHANGED stage
             PROVE  SgInv'
  BY DEF Revoke
<1> DEFINE revoked == [l EXCEPT !.status = "revoked"]
<1>1. mem \in Stores /\ given \in Gifts /\ l \in Leases BY DEF SgInv, Sound, Stores
<1>2. revoked \in Leases /\ revoked.grant = l.grant /\ revoked.status = "revoked"
  BY <1>1 DEF Leases
<1>3. <<l.grant, l.number>> = <<revoked.grant, 1>> /\ l.grant \in GrantIds
  BY <1>1, <1>2 DEF Leases
<1>4. CASE WriteFails(Replace(l, revoked)) /\ UNCHANGED given
  <2> HIDE DEF revoked
  <2> QED BY <1>1, <1>2, <1>4, ReplaceKeeps
<1>5. CASE /\ Commit(Replace(l, revoked))
           /\ given' = [given EXCEPT !.revoked = @ \cup {<<l.grant, l.number>>}]
  <2>1. /\ given'.leases = given.leases
        /\ given'.revoked = given.revoked \cup {<<revoked.grant, 1>>}
        /\ given' \in Gifts
    BY <1>1, <1>3, <1>5 DEF Gifts
  <2> HIDE DEF revoked
  <2> QED BY <1>2, <1>5, <2>1, ReplaceKeeps
<1> QED BY <1>4, <1>5 DEF revoke_lease

LEMMA RedeemDirectlyKeeps == SgInv /\ RedeemDirectly => SgInv'
<1> SUFFICES ASSUME SgInv, NEW g \in GrantIds, NEW p \in GrantIds, NEW d \in Digests,
                    redeem_grant(g, Principal(p), d), UNCHANGED stage
             PROVE  SgInv'
  BY DEF RedeemDirectly
<1> QED BY RedeemKeeps DEF SgInv, LeasesGoToTheirPrincipal

LEMMA RedeemForWorkerKeeps ==
    ASSUME SgInv, NEW w \in Workers, RedeemForWorker(w)
    PROVE  SgInv'
<1> DEFINE g == GrantOf[w]
<1>1. g \in GrantIds BY GrantsAssumption
<1>2. CASE /\ redeem_grant(g, mem.grants[g].principal, mem.grants[g].digest)
           /\ stage' = [stage EXCEPT ![w] = IF given' # given THEN "prepared" ELSE "failed"]
  <2>1. \A v \in Workers : stage'[v] = "prepared" => stage[v] = "prepared" \/ (v = w /\ given' # given)
    BY <1>2 DEF SgInv
  <2>2. stage' \in [Workers -> {"new", "created", "prepared", "failed"}] BY <1>2 DEF SgInv
  <2> QED BY <1>1, <1>2, <2>1, <2>2, RedeemKeeps DEF SgInv, LeasesGoToTheirPrincipal
<1>3. CASE /\ stage' = [stage EXCEPT ![w] = "failed"]
           /\ UNCHANGED <<mem, file, given, faults>>
  BY <1>3 DEF SgInv, RedeemedOnce, LeasesGoToTheirPrincipal
<1> QED BY <1>2, <1>3 DEF RedeemForWorker

\* The process stops, starts, or a worker is launched again.
LEMMA OtherKeeps ==
    SgInv /\ (Stop \/ Open \/ (\E w \in Workers : Relaunch(w)) \/ UNCHANGED sgVars) => SgInv'
<1>1. ASSUME SgInv, Stop PROVE SgInv'
  <2>1. mem' = Closed /\ file' \in {file, Closed} /\ given' = given BY <1>1 DEF Stop, Torn
  <2>2. /\ stage' \in [Workers -> {"new", "created", "prepared", "failed"}]
        /\ \A w \in Workers : stage'[w] = "prepared" => stage[w] = "prepared"
    BY <1>1 DEF Stop, SgInv
  <2>3. Sound(mem') /\ Knows(mem', given') BY <2>1, ClosedIsSound, ClosedKnows
  <2>4. Sound(file') /\ Knows(file', given')
    BY <1>1, <2>1, ClosedIsSound, ClosedKnows DEF SgInv
  <2> QED BY <1>1, <2>1, <2>2, <2>3, <2>4
          DEF SgInv, RedeemedOnce, LeasesGoToTheirPrincipal
<1>2. ASSUME SgInv, Open PROVE SgInv'
  BY <1>2 DEF Open, SgInv, RedeemedOnce, LeasesGoToTheirPrincipal
<1>3. ASSUME SgInv, NEW w \in Workers, Relaunch(w) PROVE SgInv'
  BY <1>3 DEF Relaunch, SgInv, RedeemedOnce, LeasesGoToTheirPrincipal
<1>4. ASSUME SgInv, UNCHANGED sgVars PROVE SgInv'
  BY <1>4 DEF sgVars, SgInv, RedeemedOnce, LeasesGoToTheirPrincipal
<1> QED BY <1>1, <1>2, <1>3, <1>4

-----------------------------------------------------------------------------

\* The promise of the broker follows from the invariant.
LEMMA SgInvImplies == SgInv => GrantsAreHonoured
<1> SUFFICES ASSUME SgInv PROVE GrantsAreHonoured OBVIOUS
<1>1. RenewalsAreBounded
  BY GrantsAssumption DEF SgInv, RenewalsAreBounded, Sound, Stores, Gifts, Leases
<1>2. RevocationIsFinal BY DEF SgInv, RevocationIsFinal, Knows
<1> QED BY <1>1, <1>2 DEF SgInv, GrantsAreHonoured

\* The broker (secret_grants.rs, prepare_worker_security) hands out at most one
\* lease of a grant, to the grant's principal; renews it as often as the grant
\* allows; and once a revocation is confirmed the lease is never active again,
\* in memory or on disk: however writes fail, the process stops in the middle of
\* them, and workers with the same default grant race.
THEOREM GrantsHonoured == SgSpec => []GrantsAreHonoured
<1>1. SgInv /\ [SgNext]_sgVars => SgInv'
  <2> SUFFICES ASSUME SgInv, [SgNext]_sgVars PROVE SgInv' OBVIOUS
  <2>1. CASE \E w \in Workers : CreateForWorker(w) BY <2>1, CreateKeeps
  <2>2. CASE \E w \in Workers : RedeemForWorker(w) BY <2>2, RedeemForWorkerKeeps
  <2>3. CASE Renew BY <2>3, RenewKeeps
  <2>4. CASE Revoke BY <2>4, RevokeKeeps
  <2>5. CASE RedeemDirectly BY <2>5, RedeemDirectlyKeeps
  <2>6. CASE Stop \/ Open \/ (\E w \in Workers : Relaunch(w)) \/ UNCHANGED sgVars
    BY <2>6, OtherKeeps
  <2> QED BY <2>1, <2>2, <2>3, <2>4, <2>5, <2>6 DEF SgNext
<1> QED BY <1>1, InitSgInv, SgInvImplies, PTL DEF SgSpec

-----------------------------------------------------------------------------
(***************************************************************************)
(* The dispatcher switch.  What Omegon says of a switch it made is true of *)
(* the binding it says it with, in the snapshots on their way as well; and *)
(* within an attachment a number stands for one request, in Auspex, on the *)
(* wires and in Omegon, so that an answer under the number of the pending  *)
(* request is the answer to it.                                            *)
(***************************************************************************)

Switches ==
    [id : Nat, profile : Profiles \cup {Unset}, model : Models \cup {Unset}, status : DsStatuses,
     at : Nat]

Bindings == [profile : Profiles, model : Models, switch : Switches]

Hosts == [profile : Profiles, model : Models, switch : Switches, reports : BOOLEAN]

\* A switch that is said to be made is the binding it is said of; one that is pending has a number.
MadeIsBound(b) ==
    /\ b.switch.status = "active" => Matches(b, b.switch.profile, b.switch.model)
    /\ b.switch.status = "pending" => b.switch.id # 0

\* The same switch, whatever became of it.
SameSwitch(s, t) == s.id = t.id /\ s.profile = t.profile /\ s.model = t.model /\ s.at = t.at

\* A switch that somebody may still speak of.
Carried(s) ==
    \/ SameSwitch(s, binding.switch)
    \/ SameSwitch(s, host.switch)
    \/ \E i \in DOMAIN asked : SameSwitch(s, asked[i])
    \/ \E i \in DOMAIN shown : SameSwitch(s, shown[i].switch)

\* Within an attachment a number is given once, and stands for one switch.
NumbersHold ==
    /\ \A s \in Switches : Carried(s) => s.at <= attaches /\ (s.at = attaches => s.id < nextId)
    /\ \A s, t \in Switches :
         Carried(s) /\ Carried(t) /\ s.at = t.at /\ s.id = t.id /\ s.id # 0 => SameSwitch(s, t)

\* The inductive invariant.
SwitchInv ==
    /\ binding \in Bindings /\ MadeIsBound(binding)
    /\ nextId \in Nat \ {0} /\ attaches \in Nat
    /\ asked \in Seq(Switches) /\ \A i \in DOMAIN asked : asked[i].profile \in Profiles
    /\ shown \in Seq(Bindings) /\ \A i \in DOMAIN shown : MadeIsBound(shown[i])
    /\ host \in Hosts /\ MadeIsBound(host)
    /\ NumbersHold
    /\ ConfirmedIsWanted

LEMMA NoSwitchType ==
    NoSwitch \in Switches /\ NoSwitch.status = "none" /\ NoSwitch.id = 0 /\ NoSwitch.at = 0
  BY DEF NoSwitch, Switch, Switches, DsStatuses

LEMMA ShownIsBound ==
    ASSUME NEW h \in Hosts, MadeIsBound(h)
    PROVE  /\ Shown(h) \in Bindings /\ MadeIsBound(Shown(h))
           /\ Shown(h).switch \in {h.switch, NoSwitch}
  BY NoSwitchType DEF Shown, Bindings, Hosts, MadeIsBound, Matches, ModelMatches

\* A step on which at most one switch is new, without a number or under the next one.
LEMMA NumbersStep ==
    ASSUME NumbersHold, attaches \in Nat, nextId \in Nat \ {0}, nextId' \in Nat \ {0},
           \/ attaches' = attaches /\ nextId' \in {nextId, nextId + 1}
           \/ attaches' = attaches + 1,
           NEW q \in Switches,
           \/ q.id = 0 /\ q.at = 0
           \/ q.id = nextId /\ q.at = attaches /\ attaches' = attaches /\ nextId' = nextId + 1,
           \A s \in Switches : Carried(s)' => Carried(s) \/ SameSwitch(s, q)
    PROVE  NumbersHold'
<1>1. ASSUME NEW s \in Switches, Carried(s)'
      PROVE  s.at <= attaches' /\ (s.at = attaches' => s.id < nextId')
  <2>1. s.at \in Nat /\ s.id \in Nat
    BY DEF Switches
  <2>2. CASE Carried(s)
    BY <2>1, <2>2 DEF NumbersHold
  <2>3. CASE SameSwitch(s, q)
    BY <2>1, <2>3 DEF SameSwitch
  <2> QED  BY <1>1, <2>2, <2>3
<1>2. ASSUME NEW s \in Switches, NEW t \in Switches, Carried(s)', Carried(t)',
             s.at = t.at, s.id = t.id, s.id # 0
      PROVE  SameSwitch(s, t)
  <2>1. s.at \in Nat /\ s.id \in Nat
    BY DEF Switches
  <2>2. CASE Carried(s) /\ Carried(t)
    BY <1>2, <2>2 DEF NumbersHold
  <2>3. CASE SameSwitch(s, q) /\ SameSwitch(t, q)
    BY <2>3 DEF SameSwitch
  <2>4. CASE (Carried(s) /\ SameSwitch(t, q)) \/ (SameSwitch(s, q) /\ Carried(t))
    <3>1. (Carried(s) \/ Carried(t)) /\ s.id = nextId /\ s.at = attaches
      BY <1>2, <2>4 DEF SameSwitch
    <3>2. s.id < nextId \/ t.id < nextId
      BY <1>2, <3>1 DEF NumbersHold
    <3> QED  BY <1>2, <2>1, <3>1, <3>2
  <2> QED  BY <1>2, <2>2, <2>3, <2>4
<1>3. \A s \in Switches : Carried(s)' => s.at <= attaches' /\ (s.at = attaches' => s.id < nextId')
  BY <1>1
<1>4. \A s, t \in Switches :
         Carried(s)' /\ Carried(t)' /\ s.at = t.at /\ s.id = t.id /\ s.id # 0 => SameSwitch(s, t)
  BY <1>2
<1> QED
  BY <1>3, <1>4 DEF NumbersHold, SameSwitch

LEMMA SwitchInitially == DsInit => SwitchInv
<1> SUFFICES ASSUME DsInit PROVE SwitchInv
  OBVIOUS
<1>1. host \in Hosts /\ host.switch = NoSwitch
  <2>1. (CHOOSE p \in Profiles : TRUE) \in Profiles /\ (CHOOSE m \in Models : TRUE) \in Models
    BY SwitchAssumption
  <2> QED  BY <2>1, NoSwitchType DEF DsInit, Hosts
<1>2. MadeIsBound(host)
  BY <1>1, NoSwitchType DEF MadeIsBound
<1>3. binding \in Bindings /\ MadeIsBound(binding) /\ binding.switch = NoSwitch
  BY <1>1, <1>2, ShownIsBound DEF DsInit
<1>4. ConfirmedIsWanted
  BY DEF DsInit, ConfirmedIsWanted, Quiet, Notice
<1>5. asked = <<>> /\ shown = <<>> /\ nextId = 1 /\ attaches = 1
  BY DEF DsInit
<1>6. \A s \in Switches : Carried(s) => s.id = 0 /\ s.at = 0
  BY <1>1, <1>3, <1>5, NoSwitchType DEF Carried, SameSwitch
<1>7. NumbersHold
  BY <1>5, <1>6 DEF NumbersHold
<1>8. /\ asked \in Seq(Switches) /\ \A i \in DOMAIN asked : asked[i].profile \in Profiles
      /\ shown \in Seq(Bindings) /\ \A i \in DOMAIN shown : MadeIsBound(shown[i])
  BY <1>5
<1> QED
  BY <1>1, <1>2, <1>3, <1>4, <1>5, <1>7, <1>8 DEF SwitchInv

\* reconcile_dispatcher_binding with a snapshot that is true of its binding.
LEMMA ReconciledIsBound ==
    ASSUME NEW p \in Bindings, MadeIsBound(p), NEW n \in Bindings, MadeIsBound(n)
    PROVE  /\ reconcile_dispatcher_binding(p, n) \in Bindings
           /\ MadeIsBound(reconcile_dispatcher_binding(p, n))
           /\ \/ SameSwitch(reconcile_dispatcher_binding(p, n).switch, p.switch)
              \/ reconcile_dispatcher_binding(p, n).switch = n.switch
<1>1. CASE n.switch = NoSwitch /\ p.switch.status = "pending"
  <2>1. PICK st : st = IF Matches(n, p.switch.profile, p.switch.model) THEN "active" ELSE p.switch.status
    OBVIOUS
  <2>2. PICK sw : sw = [p.switch EXCEPT !.status = st]
    OBVIOUS
  <2>3. p.switch \in Switches /\ st \in DsStatuses
    BY <1>1, <2>1 DEF Bindings, DsStatuses
  <2>4. sw \in Switches /\ sw.status = st /\ SameSwitch(sw, p.switch)
    BY <2>2, <2>3 DEF Switches, SameSwitch
  <2>5. PICK b : b = [n EXCEPT !.switch = sw]
    OBVIOUS
  <2>6. b \in Bindings /\ b.switch = sw /\ b.profile = n.profile /\ b.model = n.model
    BY <2>4, <2>5 DEF Bindings
  <2>7. reconcile_dispatcher_binding(p, n) = b
    BY <1>1, <2>1, <2>2, <2>5 DEF reconcile_dispatcher_binding
  <2>8. st = "active" => Matches(n, p.switch.profile, p.switch.model)
    BY <1>1, <2>1
  <2>9. p.switch.id # 0
    BY <1>1 DEF MadeIsBound
  <2>10. MadeIsBound(b)
    BY <2>4, <2>6, <2>8, <2>9 DEF MadeIsBound, Matches, ModelMatches, SameSwitch
  <2> QED  BY <2>4, <2>6, <2>7, <2>10
<1>2. CASE ~(n.switch = NoSwitch /\ p.switch.status = "pending")
  BY <1>2 DEF reconcile_dispatcher_binding
<1> QED
  BY <1>1, <1>2

\* What the operator is told of a snapshot's switch, if a number stands for one switch.
LEMMA NoticeIsTrue ==
    ASSUME NEW p \in Bindings, NEW b \in Bindings, MadeIsBound(p), MadeIsBound(b),
           p.switch.at = b.switch.at /\ p.switch.id = b.switch.id /\ p.switch.id # 0
             => SameSwitch(p.switch, b.switch),
           ConfirmedIsWanted, told' = TransitionNotice(p, b)
    PROVE  ConfirmedIsWanted'
<1>1. \/ told' = told
      \/ told'.kind # "confirmed"
      \/ /\ told'.bound = b /\ told'.switch = b.switch /\ told'.wanted = p.switch
         /\ b.switch.status = "active" /\ p.switch.status = "pending" /\ p.switch.id = b.switch.id
  BY DEF TransitionNotice, Notice
<1>2. CASE told' = told
  BY <1>2 DEF ConfirmedIsWanted, Matches, ModelMatches
<1>3. CASE told'.kind # "confirmed"
  BY <1>3 DEF ConfirmedIsWanted
<1>4. CASE /\ told'.bound = b /\ told'.switch = b.switch /\ told'.wanted = p.switch
           /\ b.switch.status = "active" /\ p.switch.status = "pending" /\ p.switch.id = b.switch.id
  <2>1. Matches(b, b.switch.profile, b.switch.model) /\ p.switch.id # 0
    BY <1>4 DEF MadeIsBound
  <2>2. ASSUME b.switch.at = p.switch.at
        PROVE  /\ b.switch = [p.switch EXCEPT !.status = "active"]
               /\ Matches(b, p.switch.profile, p.switch.model)
    <3>1. SameSwitch(p.switch, b.switch)
      BY <1>4, <2>1, <2>2
    <3>2. p.switch \in Switches /\ b.switch \in Switches
      BY DEF Bindings
    <3>3. b.switch = [p.switch EXCEPT !.status = "active"]
      BY <1>4, <3>1, <3>2 DEF Switches, SameSwitch
    <3>4. Matches(b, p.switch.profile, p.switch.model)
      BY <2>1, <3>1 DEF SameSwitch
    <3> QED  BY <3>3, <3>4
  <2> QED  BY <1>4, <2>1, <2>2 DEF ConfirmedIsWanted, Matches, ModelMatches
<1> QED
  BY <1>1, <1>2, <1>3, <1>4

LEMMA SwitchStep == SwitchInv /\ [DsNext]_dsVars => SwitchInv'
<1> SUFFICES ASSUME SwitchInv, [DsNext]_dsVars PROVE SwitchInv'
  OBVIOUS
<1>1. CASE RequestSwitch
  <2>1. PICK p \in Profiles, m \in Models \cup {Unset} : request_dispatcher_switch(p, m)
    BY <1>1 DEF RequestSwitch
  <2>2. UNCHANGED <<shown, host, attaches>>
    BY <1>1 DEF RequestSwitch
  <2>3. \A id \in Nat, st \in DsStatuses, a \in Nat :
          /\ Switch(id, p, m, st, a) \in Switches
          /\ Switch(id, p, m, st, a).profile = p /\ Switch(id, p, m, st, a).model = m
          /\ Switch(id, p, m, st, a).id = id /\ Switch(id, p, m, st, a).at = a
          /\ Switch(id, p, m, st, a).status = st
    BY DEF Switch, Switches
  <2>4. {"pending", "active"} \subseteq DsStatuses
    BY DEF DsStatuses
  <2>5. \A sw \in Switches : /\ [binding EXCEPT !.switch = sw] \in Bindings
                             /\ [binding EXCEPT !.switch = sw].switch = sw
                             /\ [binding EXCEPT !.switch = sw].profile = binding.profile
                             /\ [binding EXCEPT !.switch = sw].model = binding.model
    BY DEF SwitchInv, Bindings
  <2>6. CASE /\ Matches(binding, p, m)
             /\ binding' = [binding EXCEPT !.switch = Switch(0, p, m, "active", 0)]
             /\ told' = Notice("already", binding'.switch, binding', binding'.switch)
             /\ UNCHANGED <<nextId, asked>>
    <3>1. PICK sw \in Switches : /\ sw = Switch(0, p, m, "active", 0)
                                 /\ sw.id = 0 /\ sw.at = 0 /\ sw.status = "active"
                                 /\ sw.profile = p /\ sw.model = m
      BY <2>3, <2>4
    <3>2. /\ binding' \in Bindings /\ binding'.switch = sw
          /\ binding'.profile = binding.profile /\ binding'.model = binding.model
      BY <2>5, <2>6, <3>1
    <3>3. MadeIsBound(binding)'
      BY <2>6, <3>1, <3>2 DEF MadeIsBound, Matches, ModelMatches
    <3>4. \A s \in Switches : Carried(s)' => Carried(s) \/ SameSwitch(s, sw)
      BY <2>2, <2>6, <3>2 DEF Carried, SameSwitch
    <3>5. NumbersHold'
      BY <2>2, <2>6, <3>1, <3>4, NumbersStep DEF SwitchInv
    <3>6. ConfirmedIsWanted'
      BY <2>6 DEF ConfirmedIsWanted, Notice
    <3> QED  BY <2>2, <2>6, <3>2, <3>3, <3>5, <3>6 DEF SwitchInv, MadeIsBound, Matches, ModelMatches
  <2>7. CASE /\ binding' = [binding EXCEPT !.switch = Switch(nextId, p, m, "pending", attaches)]
             /\ told' = Notice("requested", binding'.switch, binding', binding'.switch)
             /\ asked' = Append(asked, binding'.switch)
             /\ nextId' = nextId + 1
    <3>1. PICK sw \in Switches : /\ sw = Switch(nextId, p, m, "pending", attaches)
                                 /\ sw.id = nextId /\ sw.at = attaches /\ sw.status = "pending"
                                 /\ sw.profile = p /\ sw.model = m
      BY <2>3, <2>4 DEF SwitchInv
    <3>2. binding' \in Bindings /\ binding'.switch = sw
      BY <2>5, <2>7, <3>1
    <3>3. asked' = Append(asked, sw) /\ asked \in Seq(Switches)
      BY <2>7, <3>2 DEF SwitchInv
    <3>4. asked' \in Seq(Switches) /\ \A i \in DOMAIN asked' : asked'[i] = sw \/ (i \in DOMAIN asked /\ asked'[i] = asked[i])
      BY <3>3
    <3>5. \A i \in DOMAIN asked' : asked'[i].profile \in Profiles
      BY <3>1, <3>4 DEF SwitchInv
    <3>6. ConfirmedIsWanted'
      BY <2>7 DEF ConfirmedIsWanted, Notice
    <3>7. nextId' \in Nat \ {0}
      BY <2>7 DEF SwitchInv
    <3>8. MadeIsBound(binding)'
      BY <3>1, <3>2 DEF MadeIsBound, SwitchInv
    <3>9. \A s \in Switches : Carried(s)' => Carried(s) \/ SameSwitch(s, sw)
      BY <2>2, <3>2, <3>4 DEF Carried, SameSwitch
    <3>10. NumbersHold'
      BY <2>2, <2>7, <3>1, <3>7, <3>9, NumbersStep DEF SwitchInv
    <3> QED  BY <2>2, <3>2, <3>4, <3>5, <3>6, <3>7, <3>8, <3>10 DEF SwitchInv, MadeIsBound, Matches, ModelMatches
  <2> QED  BY <2>1, <2>6, <2>7 DEF request_dispatcher_switch
<1>2. CASE ApplySnapshot
  <2>1. /\ shown # <<>> /\ shown' = Tail(shown) /\ UNCHANGED <<nextId, asked, host, attaches>>
        /\ binding' = reconcile_dispatcher_binding(binding, Head(shown))
        /\ told' = TransitionNotice(binding, binding')
    BY <1>2 DEF ApplySnapshot
  <2>2. /\ Head(shown) \in Bindings /\ MadeIsBound(Head(shown))
        /\ 1 \in DOMAIN shown /\ Head(shown) = shown[1]
        /\ Tail(shown) \in Seq(Bindings)
        /\ \A i \in DOMAIN Tail(shown) : i + 1 \in DOMAIN shown /\ Tail(shown)[i] = shown[i + 1]
    BY <2>1 DEF SwitchInv
  <2>3. \A i \in DOMAIN shown' : MadeIsBound(shown'[i])
    BY <2>1, <2>2 DEF SwitchInv
  <2>4. PICK p \in Bindings : p = binding /\ MadeIsBound(p)
    BY DEF SwitchInv
  <2>5. PICK n \in Bindings : n = Head(shown) /\ MadeIsBound(n)
    BY <2>2
  <2>6. PICK b \in Bindings : /\ b = binding' /\ MadeIsBound(b)
                              /\ SameSwitch(b.switch, p.switch) \/ b.switch = n.switch
    BY <2>1, <2>4, <2>5, ReconciledIsBound
  <2>7. /\ p.switch \in Switches /\ b.switch \in Switches
        /\ Carried(p.switch) /\ Carried(b.switch)
    BY <2>2, <2>4, <2>5, <2>6 DEF Carried, SameSwitch, Bindings
  <2>8. ConfirmedIsWanted'
    <3>1. p.switch.at = b.switch.at /\ p.switch.id = b.switch.id /\ p.switch.id # 0
             => SameSwitch(p.switch, b.switch)
      BY <2>7 DEF SwitchInv, NumbersHold
    <3>2. told' = TransitionNotice(p, b)
      BY <2>1, <2>4, <2>6
    <3> QED  BY <2>4, <2>6, <3>1, <3>2, NoticeIsTrue DEF SwitchInv
  <2>9. \A s \in Switches : Carried(s)' => Carried(s) \/ SameSwitch(s, NoSwitch)
    <3>1. \A s \in Switches : SameSwitch(s, binding'.switch) => Carried(s)
      BY <2>6, <2>7 DEF Carried, SameSwitch
    <3> QED  BY <2>1, <2>2, <3>1 DEF Carried
  <2>10. NumbersHold'
    BY <2>1, <2>9, NoSwitchType, NumbersStep DEF SwitchInv
  <2> QED  BY <2>1, <2>2, <2>3, <2>6, <2>8, <2>10 DEF SwitchInv, MadeIsBound, Matches, ModelMatches
<1>3. CASE FailOnReset
  <2>1. binding' = [binding EXCEPT !.switch.status = "failed"]
        /\ UNCHANGED <<nextId, told, asked, shown, host, attaches>>
    BY <1>3 DEF FailOnReset
  <2>2. binding' \in Bindings /\ binding'.switch.status = "failed"
    BY <2>1 DEF SwitchInv, Bindings, Switches, DsStatuses
  <2>3. SameSwitch(binding'.switch, binding.switch)
    BY <2>1 DEF SwitchInv, Bindings, Switches, SameSwitch
  <2>4. \A s \in Switches : Carried(s)' => Carried(s) \/ SameSwitch(s, NoSwitch)
    BY <2>1, <2>3 DEF Carried, SameSwitch
  <2>5. NumbersHold'
    BY <2>1, <2>4, NoSwitchType, NumbersStep DEF SwitchInv
  <2>6. MadeIsBound(binding)'
    BY <2>2 DEF MadeIsBound
  <2> QED  BY <2>1, <2>2, <2>5, <2>6 DEF SwitchInv, MadeIsBound, Matches, ModelMatches, ConfirmedIsWanted
<1>4. CASE Reattach
  <2>1. /\ binding' = Shown(host) /\ nextId' = 1 /\ told' = Quiet /\ shown' = <<>>
        /\ attaches' = attaches + 1 /\ UNCHANGED <<asked, host>>
    BY <1>4 DEF Reattach
  <2>2. binding' \in Bindings /\ MadeIsBound(binding)' /\ binding'.switch \in {host.switch, NoSwitch}
    <3>1. PICK b \in Bindings : b = Shown(host) /\ MadeIsBound(b) /\ b.switch \in {host.switch, NoSwitch}
      BY ShownIsBound DEF SwitchInv
    <3> QED  BY <2>1, <3>1 DEF MadeIsBound, Matches, ModelMatches
  <2>3. ConfirmedIsWanted'
    BY <2>1 DEF ConfirmedIsWanted, Quiet, Notice
  <2>4. \A s \in Switches : Carried(s)' => Carried(s) \/ SameSwitch(s, NoSwitch)
    BY <2>1, <2>2 DEF Carried
  <2>5. NumbersHold'
    BY <2>1, <2>4, NoSwitchType, NumbersStep DEF SwitchInv
  <2>6. attaches' \in Nat
    BY <2>1 DEF SwitchInv
  <2> QED  BY <2>1, <2>2, <2>3, <2>5, <2>6 DEF SwitchInv, MadeIsBound, Matches, ModelMatches
<1>5. ASSUME asked # <<>>
      PROVE  /\ Head(asked) \in Switches /\ Head(asked).profile \in Profiles
             /\ 1 \in DOMAIN asked /\ Head(asked) = asked[1]
             /\ Tail(asked) \in Seq(Switches)
             /\ \A i \in DOMAIN Tail(asked) : /\ i + 1 \in DOMAIN asked /\ Tail(asked)[i] = asked[i + 1]
                                              /\ Tail(asked)[i].profile \in Profiles
  <2>1. /\ Head(asked) = asked[1] /\ 1 \in DOMAIN asked /\ Head(asked) \in Switches
        /\ Tail(asked) \in Seq(Switches)
        /\ \A i \in DOMAIN Tail(asked) : i + 1 \in DOMAIN asked /\ Tail(asked)[i] = asked[i + 1]
    BY <1>5 DEF SwitchInv
  <2> QED  BY <2>1 DEF SwitchInv
\* Omegon's answer to the first request is about that request.
<1>6. ASSUME asked # <<>>, asked' = Tail(asked), UNCHANGED <<binding, nextId, shown, attaches>>,
             SameSwitch(host'.switch, asked[1])
      PROVE  NumbersHold'
  <2>1. \A s \in Switches : Carried(s)' => Carried(s) \/ SameSwitch(s, NoSwitch)
    BY <1>5, <1>6 DEF Carried, SameSwitch
  <2> QED  BY <1>6, <2>1, NoSwitchType, NumbersStep DEF SwitchInv
<1>7. CASE Perform
  <2>1. PICK m \in Models :
          /\ Head(asked).model \in {Unset, m}
          /\ host' = [host EXCEPT !.profile = Head(asked).profile, !.model = m,
                                  !.switch = [Head(asked) EXCEPT !.status = "active"]]
    BY <1>7 DEF Perform
  <2>2. asked # <<>> /\ asked' = Tail(asked) /\ UNCHANGED <<binding, nextId, told, shown, attaches>>
    BY <1>7 DEF Perform
  <2>3. PICK q \in Switches : q = Head(asked) /\ q = asked[1] /\ q.profile \in Profiles
    BY <1>5, <2>2
  <2>4. PICK sw : sw = [q EXCEPT !.status = "active"]
    OBVIOUS
  <2>5. sw \in Switches /\ SameSwitch(sw, q) /\ sw.status = "active"
    BY <2>4 DEF Switches, DsStatuses, SameSwitch
  <2>6. host' = [host EXCEPT !.profile = q.profile, !.model = m, !.switch = sw]
    BY <2>1, <2>3, <2>4
  <2>7. host' \in Hosts /\ host'.profile = q.profile /\ host'.model = m /\ host'.switch = sw
    BY <2>3, <2>5, <2>6 DEF SwitchInv, Hosts
  <2>8. MadeIsBound(host)'
    BY <2>1, <2>3, <2>5, <2>7 DEF MadeIsBound, Matches, ModelMatches, SameSwitch
  <2>9. NumbersHold'
    BY <1>6, <2>2, <2>3, <2>5, <2>7
  <2> QED  BY <1>5, <2>2, <2>7, <2>8, <2>9 DEF SwitchInv, MadeIsBound, Matches, ModelMatches, ConfirmedIsWanted
<1>8. CASE Refuse
  <2>1. PICK status_ \in {"failed", "superseded"} :
          host' = [host EXCEPT !.switch = [Head(asked) EXCEPT !.status = status_]]
    BY <1>8 DEF Refuse
  <2>2. asked # <<>> /\ asked' = Tail(asked) /\ UNCHANGED <<binding, nextId, told, shown, attaches>>
    BY <1>8 DEF Refuse
  <2>3. PICK q \in Switches : q = Head(asked) /\ q = asked[1]
    BY <1>5, <2>2
  <2>4. PICK sw : sw = [q EXCEPT !.status = status_]
    OBVIOUS
  <2>5. sw \in Switches /\ sw.status = status_ /\ SameSwitch(sw, q)
    BY <2>4 DEF Switches, DsStatuses, SameSwitch
  <2>6. host' = [host EXCEPT !.switch = sw]
    BY <2>1, <2>3, <2>4
  <2>7. host' \in Hosts /\ host'.switch = sw
    BY <2>5, <2>6 DEF SwitchInv, Hosts
  <2>8. MadeIsBound(host)'
    BY <2>5, <2>7 DEF MadeIsBound
  <2>9. NumbersHold'
    BY <1>6, <2>2, <2>3, <2>5, <2>7
  <2> QED  BY <1>5, <2>2, <2>7, <2>8, <2>9 DEF SwitchInv, MadeIsBound, Matches, ModelMatches, ConfirmedIsWanted
<1>9. CASE Show
  <2>1. shown' = Append(shown, Shown(host)) /\ UNCHANGED <<binding, nextId, told, asked, host, attaches>>
    BY <1>9 DEF Show
  <2>2. PICK b \in Bindings : b = Shown(host) /\ MadeIsBound(b) /\ b.switch \in {host.switch, NoSwitch}
    BY ShownIsBound DEF SwitchInv
  <2>3. shown' = Append(shown, b) /\ shown \in Seq(Bindings)
    BY <2>1, <2>2 DEF SwitchInv
  <2>4. shown' \in Seq(Bindings) /\ \A i \in DOMAIN shown' : shown'[i] = b \/ (i \in DOMAIN shown /\ shown'[i] = shown[i])
    BY <2>3
  <2>5. \A i \in DOMAIN shown' : MadeIsBound(shown'[i])
    BY <2>2, <2>4 DEF SwitchInv
  <2>6. \A s \in Switches : Carried(s)' => Carried(s) \/ SameSwitch(s, NoSwitch)
    BY <2>1, <2>2, <2>4 DEF Carried
  <2>7. NumbersHold'
    BY <2>1, <2>6, NoSwitchType, NumbersStep DEF SwitchInv
  <2> QED  BY <2>1, <2>4, <2>5, <2>7 DEF SwitchInv, MadeIsBound, Matches, ModelMatches, ConfirmedIsWanted
<1>10. CASE UNCHANGED dsVars
  BY <1>10 DEF dsVars, SwitchInv, MadeIsBound, Matches, ModelMatches, ConfirmedIsWanted, NumbersHold, Carried
<1> QED
  BY <1>1, <1>2, <1>3, <1>4, <1>7, <1>8, <1>9, <1>10 DEF DsNext

\* For any profiles, models, numbers of requests and attachments and lengths of the wires: what the
\* operator is told is confirmed is the dispatcher the snapshot shows, and, unless it is the answer
\* to a request of an earlier attachment, exactly the request that was pending, however many others
\* were refused, superseded or answered late (reconcile_dispatcher_binding,
\* append_dispatcher_switch_transition_notice).
THEOREM ConfirmationsAreTrue == DsSpec => []ConfirmedIsWanted
<1>1. SwitchInv => ConfirmedIsWanted
  BY DEF SwitchInv
<1> QED
  BY <1>1, SwitchInitially, SwitchStep, PTL DEF DsSpec

-----------------------------------------------------------------------------
(***************************************************************************)
(* The proxied WebSocket of FleetApi passes frames on in order and without *)
(* a gap, for any number of agents, frames and edits.                      *)
(*                                                                         *)
(* What a sink got says nothing of the next frame: the invariant relates   *)
(* it to the frame the pump holds.  A pump holds nothing and has given all *)
(* it took, or holds the one frame after the last it gave.                 *)
(***************************************************************************)
FrameStates == [sent : Nat, taken : Nat, held : SUBSET Nat, got : Seq(Nat)]

InOrder(f) ==
    /\ f \in FrameStates
    /\ \A i \in 1..Len(f.got) : f.got[i] = i
    /\ \/ f.held = {} /\ f.taken = Len(f.got)
       \/ f.held = {Len(f.got) + 1} /\ f.taken = Len(f.got) + 1

ProxyFields ==
    {"phase", "to", "credential", "tls", "epoch", "up", "down", "client", "upstream"}

FramesInv ==
    /\ proxy = [k \in ProxyFields |-> proxy[k]]
    /\ InOrder(proxy["up"]) /\ InOrder(proxy["down"])

\* A proxy that is new, or that has just closed, has passed nothing on.
LEMMA NoProxyInOrder ==
    ASSUME NEW p, p.up = NoFrames, p.down = NoFrames, p = [k \in ProxyFields |-> p[k]]
    PROVE  InOrder(p["up"]) /\ InOrder(p["down"])
<1>1. NoFrames.got = <<>> /\ NoFrames \in FrameStates /\ NoFrames.held = {} /\ NoFrames.taken = 0
  BY DEF NoFrames, FrameStates
<1>2. InOrder(NoFrames)
  BY <1>1 DEF InOrder
<1> QED
  BY <1>2

\* A proxy whose directions are as they were passes on what it did.
LEMMA SameFrames ==
    ASSUME FramesInv, proxy' = [k \in ProxyFields |-> proxy'[k]],
           proxy'["up"] = proxy["up"], proxy'["down"] = proxy["down"]
    PROVE  FramesInv'
  BY DEF FramesInv, InOrder

\* A change of one direction leaves the other as it was.
LEMMA OneDirection ==
    ASSUME FramesInv, NEW d \in Directions, NEW f, InOrder(f), proxy' = [proxy EXCEPT ![d] = f]
    PROVE  FramesInv'
<1>1. proxy' = [k \in ProxyFields |-> IF k = d THEN f ELSE proxy[k]]
  BY DEF FramesInv, ProxyFields, Directions
<1>2. proxy' = [k \in ProxyFields |-> proxy'[k]]
  BY <1>1
<1>3. /\ proxy'["up"] = IF d = "up" THEN f ELSE proxy["up"]
      /\ proxy'["down"] = IF d = "down" THEN f ELSE proxy["down"]
  BY <1>1 DEF ProxyFields
<1>4. InOrder(proxy'["up"]) /\ InOrder(proxy'["down"])
  BY <1>3 DEF FramesInv
<1> QED
  BY <1>2, <1>4 DEF FramesInv, InOrder

LEMMA FramesInitially == FlInit => FramesInv
<1> SUFFICES ASSUME FlInit PROVE FramesInv
  OBVIOUS
<1>1. proxy = [k \in ProxyFields |-> proxy[k]] /\ proxy.up = NoFrames /\ proxy.down = NoFrames
  BY DEF FlInit, NoProxy, ProxyFields
<1> QED
  BY <1>1, NoProxyInOrder DEF FramesInv

LEMMA FramesStep == FramesInv /\ [FlNext]_flVars => FramesInv'
<1> SUFFICES ASSUME FramesInv, [FlNext]_flVars PROVE FramesInv'
  OBVIOUS
<1>1. ASSUME proxy' = [k \in ProxyFields |-> proxy'[k]], proxy'.up = NoFrames, proxy'.down = NoFrames
      PROVE  FramesInv'
  BY <1>1, NoProxyInOrder DEF FramesInv, InOrder
<1>2. ASSUME proxy' = proxy  PROVE FramesInv'
  BY <1>2 DEF FramesInv, InOrder
<1>3. CASE \E a \in FleetAgents, c \in Credentials : AcpUpgrade(a, c)
  <2>1. PICK a \in FleetAgents, c \in Credentials : AcpUpgrade(a, c)
    BY <1>3
  <2>2. PICK tls, e : proxy' = [NoProxy EXCEPT !.phase = "connecting", !.to = a, !.credential = c,
                                               !.tls = tls, !.epoch = e]
    BY <2>1 DEF AcpUpgrade
  <2> QED  BY <1>1, <2>2 DEF NoProxy, ProxyFields
<1>4. CASE SelectEnds \/ NextProxy
  <2>1. proxy' = [NoProxy EXCEPT !.phase = "closed"] \/ proxy' = NoProxy
    BY <1>4 DEF SelectEnds, NextProxy
  <2>2. CASE proxy' = NoProxy
    BY <1>1, <2>2 DEF NoProxy, ProxyFields
  <2>3. CASE proxy' = [NoProxy EXCEPT !.phase = "closed"]
    <3>1. proxy' = [k \in ProxyFields |-> IF k = "phase" THEN "closed" ELSE NoProxy[k]]
      BY <2>3 DEF NoProxy, ProxyFields
    <3>2. NoProxy.up = NoFrames /\ NoProxy.down = NoFrames
      BY DEF NoProxy
    <3>3. proxy'.up = NoFrames /\ proxy'.down = NoFrames
      BY <3>1, <3>2 DEF ProxyFields
    <3>4. proxy' = [k \in ProxyFields |-> proxy'[k]]
      BY <3>1
    <3> QED  BY <1>1, <3>3, <3>4
  <2> QED  BY <2>1, <2>2, <2>3
<1>5. CASE AcpConnect
  <2>1. \/ proxy' = [proxy EXCEPT !.phase = "open", !.upstream = TRUE]
        \/ proxy' = [proxy EXCEPT !.phase = "closed"]
    BY <1>5 DEF AcpConnect
  <2>2. /\ proxy' = [k \in ProxyFields |-> proxy'[k]]
        /\ proxy'["up"] = proxy["up"] /\ proxy'["down"] = proxy["down"]
    BY <2>1 DEF FramesInv, ProxyFields
  <2> QED  BY <2>2, SameFrames
<1>6. ASSUME NEW d \in Directions, EndSends(d)  PROVE FramesInv'
  <2>1. InOrder(proxy[d])
    BY <1>6 DEF FramesInv, Directions
  <2>2. PICK f : f = [proxy[d] EXCEPT !.sent = @ + 1]
    OBVIOUS
  <2>3. proxy' = [proxy EXCEPT ![d] = f]
    BY <1>6, <2>2 DEF EndSends
  <2>4. InOrder(f)
    BY <2>1, <2>2 DEF InOrder, FrameStates
  <2> QED  BY <2>3, <2>4, OneDirection
<1>7. ASSUME NEW d \in Directions, EndLeaves(d)  PROVE FramesInv'
  <2>1. proxy' = [proxy EXCEPT !.client = FALSE] \/ proxy' = [proxy EXCEPT !.upstream = FALSE]
    BY <1>7 DEF EndLeaves
  <2>2. /\ proxy' = [k \in ProxyFields |-> proxy'[k]]
        /\ proxy'["up"] = proxy["up"] /\ proxy'["down"] = proxy["down"]
    BY <2>1 DEF FramesInv, ProxyFields
  <2> QED  BY <2>2, SameFrames
<1>8. ASSUME NEW d \in Directions, PumpTakes(d)  PROVE FramesInv'
  <2>1. InOrder(proxy[d]) /\ proxy[d].held = {}
    BY <1>8 DEF FramesInv, Directions, PumpTakes
  <2>2. PICK f : f = [proxy[d] EXCEPT !.taken = @ + 1, !.held = {proxy[d].taken + 1}]
    OBVIOUS
  <2>3. proxy' = [proxy EXCEPT ![d] = f]
    BY <1>8, <2>2 DEF PumpTakes
  <2>4. PICK g \in FrameStates : g = proxy[d] /\ InOrder(g) /\ g.taken = Len(g.got)
    BY <2>1 DEF InOrder
  <2>5. f = [g EXCEPT !.taken = g.taken + 1, !.held = {g.taken + 1}]
    BY <2>2, <2>4
  <2>6. /\ f \in FrameStates /\ f.got = g.got /\ f.taken = g.taken + 1 /\ f.held = {g.taken + 1}
    <3>0. g.taken + 1 \in Nat /\ {g.taken + 1} \in SUBSET Nat
      BY DEF FrameStates
    <3>1. PICK n \in Nat, held \in SUBSET Nat : n = g.taken + 1 /\ held = {g.taken + 1}
      BY <3>0, Zenon
    <3>2. f = [g EXCEPT !.taken = n, !.held = held]
      BY <2>5, <3>1
    <3>3. f \in FrameStates /\ f.got = g.got /\ f.taken = n /\ f.held = held
      BY <3>2 DEF FrameStates
    <3> QED  BY <3>1, <3>3
  <2>7. InOrder(f)
    BY <2>4, <2>6 DEF InOrder
  <2> QED  BY <2>3, <2>7, OneDirection
<1>9. ASSUME NEW d \in Directions, PumpGives(d)  PROVE FramesInv'
  <2>1. PICK n \in proxy[d].held :
          proxy' = [proxy EXCEPT ![d].held = @ \ {n}, ![d].got = Append(@, n)]
    BY <1>9 DEF PumpGives
  <2>2. /\ InOrder(proxy[d]) /\ n = Len(proxy[d].got) + 1
        /\ proxy[d].held = {n} /\ proxy[d].taken = n /\ n \in Nat
    BY <1>9, <2>1 DEF FramesInv, Directions, InOrder, FrameStates
  <2>3. PICK f : f = [proxy[d] EXCEPT !.held = @ \ {n}, !.got = Append(@, n)]
    OBVIOUS
  <2>4. proxy' = [proxy EXCEPT ![d] = f]
    BY <2>1, <2>3
  <2>5. /\ f \in FrameStates /\ f.held = {} /\ f.taken = n
        /\ f.got = Append(proxy[d].got, n)
    <3>1. PICK h \in FrameStates, s \in Seq(Nat) :
            h = proxy[d] /\ s = h.got /\ h.held = {n} /\ h.taken = n
      BY <2>2 DEF InOrder, FrameStates
    <3>2. Append(s, n) \in Seq(Nat) /\ {n} \ {n} = {}
      BY <2>2
    <3>3. PICK t \in Seq(Nat) : t = Append(s, n)
      BY <3>2
    <3>4. f = [h EXCEPT !.held = {}, !.got = t]
      BY <2>3, <3>1, <3>2, <3>3
    <3>5. f \in FrameStates /\ f.held = {} /\ f.taken = h.taken /\ f.got = t
      BY <3>4 DEF FrameStates
    <3> QED  BY <3>1, <3>3, <3>5
  <2>6. PICK g \in Seq(Nat) : g = proxy[d].got /\ n = Len(g) + 1 /\ \A i \in 1..Len(g) : g[i] = i
    BY <2>2 DEF InOrder, FrameStates
  <2>7. f.got = Append(g, n) /\ Len(f.got) = n /\ \A i \in 1..n : f.got[i] = i
    BY <2>2, <2>5, <2>6
  <2>8. InOrder(f)
    BY <2>5, <2>7 DEF InOrder
  <2> QED  BY <2>4, <2>8, OneDirection
<1>10. ASSUME NEW a \in FleetAgents, PodFollows(a)  PROVE FramesInv'
  <2>1. proxy' = [proxy EXCEPT !.upstream = FALSE] \/ proxy' = proxy
    BY <1>10 DEF PodFollows
  <2>2. /\ proxy' = [k \in ProxyFields |-> proxy'[k]]
        /\ proxy'["up"] = proxy["up"] /\ proxy'["down"] = proxy["down"]
    BY <2>1 DEF FramesInv, ProxyFields
  <2> QED  BY <2>2, SameFrames
<1>11. ASSUME NEW a \in FleetAgents, NEW c \in Credentials, Read(a, c)  PROVE FramesInv'
  BY <1>2, <1>11 DEF Read
<1>12. ASSUME NEW c \in Credentials, FleetListed(c)  PROVE FramesInv'
  BY <1>2, <1>12 DEF FleetListed
<1>13. CASE managed_agent_lifecycle \/ Answered \/ UNCHANGED flVars
  BY <1>2, <1>13 DEF managed_agent_lifecycle, Answered, flVars
<1>14. ASSUME NEW a \in FleetAgents, NEW mode \in Modes, NEW tls \in {"off", "tls", "mtls"},
              EditAgent(a, mode, tls)
       PROVE  FramesInv'
  BY <1>2, <1>14 DEF EditAgent
<1>15. ASSUME NEW a \in FleetAgents, DeleteAgent(a)  PROVE FramesInv'
  BY <1>2, <1>15 DEF DeleteAgent
<1> QED
  BY <1>3, <1>4, <1>5, <1>6, <1>7, <1>8, <1>9, <1>10, <1>11, <1>12, <1>13, <1>14, <1>15 DEF FlNext

\* For any agents, edits and frames, and whichever end leaves or is restarted: what an end of the
\* ACP proxy has got is, in order and without a gap, the beginning of what the other end sent
\* (proxy_acp_websocket).
THEOREM FramesKeepTheirOrder == FlSpec => []FramesArePrefixes
<1>1. FramesInv => FramesArePrefixes
  BY DEF FramesInv, InOrder, FramesArePrefixes, Directions
<1> QED
  BY <1>1, FramesInitially, FramesStep, PTL DEF FlSpec

-----------------------------------------------------------------------------
(***************************************************************************)
(* A status of ExternalAgents that speaks of another endpoint is about to  *)
(* be replaced, for any agents, endpoints, intervals, edits and outages.   *)
(*                                                                         *)
(* StaleStatusIsReplaced is about the moments when a status is stale; it   *)
(* follows because an agent the controller knows is never out of its       *)
(* hands, whatever its status says: due, being probed, or with a timer     *)
(* that is running.  The timer is never lost: it is only cleared by a      *)
(* probe that begins, the end of every probe sets it again, also when the  *)
(* write failed, and it runs out into due.                                 *)
(***************************************************************************)
Supervised(a) == a \in due \/ Busy(a) \/ timer[a] > 0

ProbeInv ==
    /\ seen \in [Agents -> Places] /\ spec \in [Agents -> Places]
    /\ timer \in [Agents -> Nat]
    /\ probe = [a \in Agents |-> probe[a]]
    /\ \A a \in Agents : probe[a] = [k \in {"at", "endpoint"} |-> probe[a][k]]
    /\ \A a \in Agents : seen[a] # NoEndpoint => Supervised(a)

LEMMA RequeueIsPositive == RequeueAfter \in Nat /\ RequeueAfter > 0
  BY ConstantsAreProper DEF RequeueAfter, Greater

LEMMA ProbeInitially == Init => ProbeInv
  BY DEF Init, ProbeInv, Places, Idle

LEMMA ProbeStep == ProbeInv /\ [Next]_vars => ProbeInv'
<1> SUFFICES ASSUME ProbeInv, [Next]_vars PROVE ProbeInv'
  OBVIOUS
<1>1. ASSUME NEW a \in Agents, NEW e \in Endpoints \cup {NoEndpoint}, Edit(a, e)  PROVE ProbeInv'
  BY <1>1 DEF Edit, ProbeInv, Supervised, Busy, Places
<1>2. CASE (\E e \in Endpoints, h \in Health : Turn(e, h)) \/ UNCHANGED vars
  BY <1>2 DEF Turn, vars, ProbeInv, Supervised, Busy
<1>3. CASE Tick
  <2>1. /\ timer' = [a \in Agents |-> IF timer[a] = 0 THEN 0 ELSE timer[a] - 1]
        /\ due' = due \cup {a \in Agents : timer[a] = 1} /\ UNCHANGED <<spec, seen, probe>>
    BY <1>3 DEF Tick
  <2>2. \A a \in Agents : Supervised(a) => Supervised(a)'
    BY <2>1 DEF ProbeInv, Supervised, Busy
  <2>3. timer' \in [Agents -> Nat]
    BY <2>1 DEF ProbeInv
  <2> QED  BY <2>1, <2>2, <2>3 DEF ProbeInv
<1>4. ASSUME NEW a \in Agents, WatchDelivers(a)  PROVE ProbeInv'
  <2>1. /\ seen' = [seen EXCEPT ![a] = spec[a]] /\ UNCHANGED <<spec, timer, probe>>
        /\ due \subseteq due' /\ (spec[a] # NoEndpoint => a \in due')
    BY <1>4 DEF WatchDelivers
  <2>2. \A b \in Agents : seen'[b] # NoEndpoint => Supervised(b)'
    BY <2>1 DEF ProbeInv, Supervised, Busy
  <2> QED  BY <2>1, <2>2 DEF ProbeInv
<1>5. ASSUME NEW a \in Agents, ReconcileStarts(a)  PROVE ProbeInv'
  <2>1. due' = due \ {a} /\ UNCHANGED <<spec, seen>>
    BY <1>5 DEF ReconcileStarts
  <2>2. CASE seen[a] = NoEndpoint
    <3>1. UNCHANGED <<timer, probe>>
      BY <1>5, <2>2 DEF ReconcileStarts
    <3> QED  BY <2>1, <2>2, <3>1 DEF ProbeInv, Supervised, Busy
  <2>3. CASE seen[a] # NoEndpoint
    <3>1. PICK p : /\ p.at \in {"readyz", "unreachable"} /\ p = [k \in {"at", "endpoint"} |-> p[k]]
                   /\ probe' = [probe EXCEPT ![a] = p] /\ timer' = [timer EXCEPT ![a] = 0]
      <4> DEFINE q == [at |-> IF validate_endpoint(seen[a]) THEN "readyz" ELSE "unreachable",
                       endpoint |-> seen[a]]
      <4>1. q.at \in {"readyz", "unreachable"} /\ q = [k \in {"at", "endpoint"} |-> q[k]]
        OBVIOUS
      <4>2. probe' = [probe EXCEPT ![a] = q] /\ timer' = [timer EXCEPT ![a] = 0]
        BY <1>5, <2>3 DEF ReconcileStarts
      <4> QED  BY <4>1, <4>2
    <3>2. p # Idle
      BY <3>1 DEF Idle
    <3>3. probe' = [b \in Agents |-> IF b = a THEN p ELSE probe[b]]
      BY <3>1 DEF ProbeInv
    <3>4. \A b \in Agents : seen'[b] # NoEndpoint => Supervised(b)'
      BY <2>1, <3>1, <3>2, <3>3 DEF ProbeInv, Supervised, Busy
    <3> QED  BY <2>1, <3>1, <3>3, <3>4 DEF ProbeInv
  <2> QED  BY <2>2, <2>3
<1>6. ASSUME NEW a \in Agents, probe_external_agent(a)  PROVE ProbeInv'
  <2>1. PICK next : probe' = [probe EXCEPT ![a].at = next] /\ next \in {"unreachable", "startup", "online", "unknown"}
    BY <1>6 DEF probe_external_agent
  <2>2. PICK p : p = [probe[a] EXCEPT !.at = next]
    OBVIOUS
  <2>3. p = [k \in {"at", "endpoint"} |-> p[k]] /\ p.at = next
    BY <2>2 DEF ProbeInv
  <2>4. p # Idle
    BY <2>1, <2>3 DEF Idle
  <2>5. probe' = [b \in Agents |-> IF b = a THEN p ELSE probe[b]]
    BY <2>1, <2>2 DEF ProbeInv
  <2>6. UNCHANGED <<spec, seen, due, timer>>
    BY <1>6 DEF probe_external_agent
  <2>7. \A b \in Agents : Supervised(b) => Supervised(b)'
    BY <2>4, <2>5, <2>6 DEF Supervised, Busy
  <2> QED  BY <2>3, <2>5, <2>6, <2>7 DEF ProbeInv
<1>7. ASSUME NEW a \in Agents, PatchStatus(a) \/ PatchStatusFails(a)  PROVE ProbeInv'
  <2>1. /\ probe' = [probe EXCEPT ![a] = Idle] /\ timer' = [timer EXCEPT ![a] = RequeueAfter]
        /\ due \subseteq due' /\ UNCHANGED <<spec, seen>>
    BY <1>7 DEF PatchStatus, PatchStatusFails, Requeue
  <2>2. /\ probe' = [b \in Agents |-> IF b = a THEN Idle ELSE probe[b]]
        /\ timer' = [b \in Agents |-> IF b = a THEN RequeueAfter ELSE timer[b]]
        /\ timer' \in [Agents -> Nat]
    BY <2>1, RequeueIsPositive DEF ProbeInv
  <2>3. Idle = [k \in {"at", "endpoint"} |-> Idle[k]]
    BY DEF Idle
  <2>4. ASSUME NEW b \in Agents, Supervised(b)  PROVE Supervised(b)'
    <3>1. CASE b = a
      BY <2>1, <2>2, <3>1, RequeueIsPositive DEF Supervised
    <3>2. CASE b # a
      <4>1. probe'[b] = probe[b] /\ timer'[b] = timer[b]
        BY <2>2, <3>2
      <4> QED  BY <2>1, <2>4, <4>1 DEF Supervised, Busy
    <3> QED  BY <3>1, <3>2
  <2>5. \A b \in Agents : seen'[b] # NoEndpoint => Supervised(b)'
    BY <2>1, <2>4 DEF ProbeInv
  <2>6. /\ probe' = [b \in Agents |-> probe'[b]]
        /\ \A b \in Agents : probe'[b] = [k \in {"at", "endpoint"} |-> probe'[b][k]]
    BY <2>2, <2>3 DEF ProbeInv
  <2> QED  BY <2>1, <2>2, <2>5, <2>6 DEF ProbeInv
<1> QED
  BY <1>1, <1>2, <1>3, <1>4, <1>5, <1>6, <1>7 DEF Next, Reconcile

\* For any agents, endpoints, intervals, edits, outages and failed writes: while a status speaks
\* of an endpoint its resource no longer names, the change is on its way to the controller, or
\* the agent is due, being probed, or will be when its timer runs out (reconcile of external.rs).
THEOREM StaleStatusDoesNotLast == Spec => []StaleStatusIsReplaced
<1>1. ProbeInv => StaleStatusIsReplaced
  BY DEF ProbeInv, Supervised, StaleStatusIsReplaced
<1> QED
  BY <1>1, ProbeInitially, ProbeStep, PTL DEF Spec

=============================================================================
