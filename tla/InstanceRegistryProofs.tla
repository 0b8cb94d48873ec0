----------------------- MODULE InstanceRegistryProofs -----------------------
(***************************************************************************)
(* Proofs about InstanceRegistry, for any hosts, dispatchers, remotes,     *)
(* containers and local agents: the two copies of the registry and the     *)
(* command routes stay consistent, the operator's choice is honoured, and  *)
(* detached services are kept.                                             *)
(***************************************************************************)
EXTENDS InstanceRegistry, FiniteSetTheorems, WellFoundedInduction, TLAPS

-----------------------------------------------------------------------------
(* Induction over the naturals, for sets: the form the provers can use. *)

LEMMA LeastNumber ==
    ASSUME NEW T, T \subseteq Nat, T # {}
    PROVE  \E x \in T : \A y \in T : x <= y
<1> DEFINE R == OpToRel(<, Nat)
<1>1. IsWellFoundedOn(R, Nat)
  BY NatLessThanWellFounded
<1>2. \A x, y \in Nat : x < y => <<x, y>> \in R
  BY DEF OpToRel
<1> HIDE DEF R
<1>3. PICK x \in T : \A y \in T : ~ (<<y, x>> \in R)
  BY <1>1, WFMin
<1>4. \A y \in T : ~ (y < x)
  BY <1>2, <1>3
<1> QED
  BY <1>4

LEMMA SetInduction ==
    ASSUME NEW P, 0 \in P, \A n \in Nat : n \in P => n + 1 \in P
    PROVE  Nat \subseteq P
<1> SUFFICES ASSUME Nat \ P # {} PROVE FALSE
  OBVIOUS
<1>1. PICK x \in Nat \ P : \A y \in Nat \ P : x <= y
  BY LeastNumber
<1>2. x - 1 \in Nat /\ x - 1 \in P
  BY <1>1
<1> QED
  BY <1>1, <1>2

-----------------------------------------------------------------------------
(* EntriesIn keeps the entries of the given instances, each once. *)

Step(f, n, a, S) ==
    IF n = 0 THEN <<>>
    ELSE IF a[n].id \in S THEN Append(f[n - 1], a[n]) ELSE f[n - 1]

IsRun(f, n, a, S) == f = [i \in 0 .. n |-> Step(f, i, a, S)]

LEMMA RunExists ==
    ASSUME NEW a, NEW S
    PROVE  \A n \in Nat : \E f : IsRun(f, n, a, S)
<1> DEFINE P == {n \in Nat : \E f : IsRun(f, n, a, S)}
<1>1. 0 \in P
  <2>1. IsRun([i \in 0 .. 0 |-> <<>>], 0, a, S)
    BY DEF IsRun, Step
  <2> QED
    BY <2>1
<1>2. ASSUME NEW n \in Nat, n \in P
      PROVE  n + 1 \in P
  <2>1. PICK f : IsRun(f, n, a, S)
    BY <1>2
  <2> DEFINE g == [i \in 0 .. (n + 1) |-> IF i = n + 1 THEN Step(f, n + 1, a, S) ELSE f[i]]
             h == [i \in 0 .. (n + 1) |-> Step(g, i, a, S)]
  <2>2. \A i \in 0 .. n : f[i] = Step(f, i, a, S)
    BY <2>1 DEF IsRun
  <2>3. \A i \in 0 .. (n + 1) : g[i] = Step(g, i, a, S)
    <3> TAKE i \in 0 .. (n + 1)
    <3>1. i # 0 => i - 1 \in 0 .. n /\ g[i - 1] = f[i - 1]
      OBVIOUS
    <3>2. Step(g, i, a, S) = Step(f, i, a, S)
      <4> HIDE DEF g
      <4> QED
        BY <3>1 DEF Step
    <3>3. CASE i = n + 1
      BY <3>2, <3>3
    <3>4. CASE i # n + 1
      BY <2>2, <3>2, <3>4
    <3> QED
      BY <3>3, <3>4
  <2>4. g = h
    <3>1. g = [i \in 0 .. (n + 1) |-> g[i]] /\ h = [i \in 0 .. (n + 1) |-> h[i]]
      OBVIOUS
    <3> HIDE DEF g
    <3> QED
      BY <2>3, <3>1
  <2> HIDE DEF g
  <2> QED
    BY <2>4 DEF IsRun
<1> HIDE DEF P
<1>3. Nat \subseteq P
  BY <1>1, <1>2, SetInduction
<1> QED
  BY <1>3 DEF P

LEMMA EntriesInUnrolls ==
    ASSUME NEW a \in Seq(Entry), NEW S
    PROVE  \E f : IsRun(f, Len(a), a, S) /\ EntriesIn(a, S) = f[Len(a)]
<1> DEFINE F == CHOOSE f : IsRun(f, Len(a), a, S)
<1>1. IsRun(F, Len(a), a, S)
  BY RunExists
<1>2. EntriesIn(a, S) = F[Len(a)]
  BY DEF EntriesIn, IsRun, Step
<1> QED
  BY <1>1, <1>2

\* No two entries lead to one instance, and no two take one route.
Distinct(a) == \A m, n \in DOMAIN a :
                  a[m].id = a[n].id \/ a[m].route = a[n].route => m = n

\* k has the entries of a that belong to instances of S, and only those.
Filters(k, a, S) ==
    /\ k \in Seq(Entry)
    /\ \A m \in DOMAIN k : k[m].id \in S /\ \E i \in DOMAIN a : k[m] = a[i]
    /\ \A i \in DOMAIN a : a[i].id \in S => \E m \in DOMAIN k : k[m] = a[i]
    /\ Distinct(a) => Distinct(k)

LEMMA EntriesInKeeps ==
    ASSUME NEW a \in Seq(Entry), NEW S
    PROVE  Filters(EntriesIn(a, S), a, S)
<1>1. PICK f : IsRun(f, Len(a), a, S) /\ EntriesIn(a, S) = f[Len(a)]
  BY EntriesInUnrolls
<1> DEFINE From(k, n) == \A m \in DOMAIN k : k[m].id \in S /\ \E i \in 1 .. n : k[m] = a[i]
           All(k, n) == \A i \in 1 .. n : a[i].id \in S => \E m \in DOMAIN k : k[m] = a[i]
           Good(k, n) == /\ k \in Seq(Entry) /\ From(k, n) /\ All(k, n)
                         /\ Distinct(a) => Distinct(k)
           P == {n \in Nat : n <= Len(a) => Good(f[n], n)}
<1>2. \A i \in 0 .. Len(a) : f[i] = Step(f, i, a, S)
  BY <1>1 DEF IsRun
<1>3. 0 \in P
  <2>1. f[0] = <<>>
    BY <1>2 DEF Step
  <2>2. Good(<<>>, 0)
    BY DEF Distinct
  <2> QED
    BY <2>1, <2>2
<1>4. ASSUME NEW n \in Nat, n \in P
      PROVE  n + 1 \in P
  <2> SUFFICES ASSUME n + 1 <= Len(a) PROVE Good(f[n + 1], n + 1)
    OBVIOUS
  <2>1. Good(f[n], n)
    BY <1>4
  <2>2. f[n + 1] = IF a[n + 1].id \in S THEN Append(f[n], a[n + 1]) ELSE f[n]
    BY <1>2 DEF Step
  <2>3. n + 1 \in DOMAIN a /\ a[n + 1] \in Entry /\ n + 1 \in 1 .. (n + 1)
    OBVIOUS
  <2>4. CASE a[n + 1].id \notin S
    BY <2>1, <2>2, <2>4
  <2>5. CASE a[n + 1].id \in S
    <3> PICK k : k = f[n]
      OBVIOUS
    <3> PICK e : e = a[n + 1]
      OBVIOUS
    <3> DEFINE q == Append(k, e)
    <3>1. /\ q \in Seq(Entry) /\ DOMAIN q = 1 .. (Len(k) + 1) /\ q[Len(k) + 1] = e
          /\ DOMAIN k = 1 .. Len(k) /\ \A m \in 1 .. Len(k) : q[m] = k[m]
      BY <2>1, <2>3
    <3> HIDE DEF q
    <3>2. From(q, n + 1)
      BY <2>1, <2>3, <2>5, <3>1
    <3>3. All(q, n + 1)
      <4> SUFFICES ASSUME NEW i \in 1 .. (n + 1), a[i].id \in S
                   PROVE  \E m \in DOMAIN q : q[m] = a[i]
        OBVIOUS
      <4>1. CASE i = n + 1
        <5>1. Len(k) + 1 \in DOMAIN q /\ q[Len(k) + 1] = a[i]
          BY <2>1, <3>1, <4>1
        <5> QED
          BY <5>1
      <4>2. CASE i # n + 1
        <5>1. i \in 1 .. n
          BY <4>2
        <5>2. PICK m \in DOMAIN k : k[m] = a[i]
          BY <2>1, <5>1
        <5>3. m \in DOMAIN q /\ q[m] = a[i]
          BY <2>1, <3>1, <5>2
        <5> QED
          BY <5>3
      <4> QED
        BY <4>1, <4>2
    <3>4. ASSUME Distinct(a)
          PROVE  Distinct(q)
      <4>1. \A m \in 1 .. Len(k) : k[m].id # e.id /\ k[m].route # e.route
        <5> TAKE m \in 1 .. Len(k)
        <5>1. PICK i \in 1 .. n : k[m] = a[i]
          BY <2>1, <3>1
        <5>2. i \in DOMAIN a /\ i # n + 1
          OBVIOUS
        <5> QED
          BY <2>3, <3>4, <5>1, <5>2 DEF Distinct
      <4>2. \A m, j \in 1 .. Len(k) :
                k[m].id = k[j].id \/ k[m].route = k[j].route => m = j
        BY <2>1, <3>1, <3>4 DEF Distinct
      <4> SUFFICES ASSUME NEW m \in DOMAIN q, NEW j \in DOMAIN q,
                          q[m].id = q[j].id \/ q[m].route = q[j].route
                   PROVE  m = j
        BY DEF Distinct
      <4>3. Len(k) \in Nat
        BY <2>1
      <4> PICK l \in Nat : l = Len(k)
        BY <4>3
      <4>4. /\ m \in 1 .. (l + 1) /\ j \in 1 .. (l + 1)
            /\ q[l + 1] = e /\ \A i \in 1 .. l : q[i] = k[i]
        BY <3>1
      <4>5. CASE m = l + 1 /\ j # l + 1
        <5>1. j \in 1 .. l
          BY <4>4, <4>5
        <5>2. q[m] = e /\ q[j] = k[j]
          BY <4>4, <4>5, <5>1
        <5> QED
          BY <4>1, <5>1, <5>2
      <4>6. CASE m # l + 1 /\ j = l + 1
        <5>1. m \in 1 .. l
          BY <4>4, <4>6
        <5>2. q[j] = e /\ q[m] = k[m]
          BY <4>4, <4>6, <5>1
        <5> QED
          BY <4>1, <5>1, <5>2
      <4>7. CASE m # l + 1 /\ j # l + 1
        <5>1. m \in 1 .. l /\ j \in 1 .. l
          BY <4>4, <4>7
        <5>2. q[m] = k[m] /\ q[j] = k[j]
          BY <4>4, <5>1
        <5> QED
          BY <4>2, <5>1, <5>2
      <4> QED
        BY <4>5, <4>6, <4>7
    <3>5. Good(q, n + 1)
      BY <3>1, <3>2, <3>3, <3>4
    <3> QED
      BY <2>2, <2>5, <3>5 DEF q
  <2> QED
    BY <2>4, <2>5
<1> HIDE DEF P
<1>5. Nat \subseteq P
  BY <1>3, <1>4, SetInduction
<1>6. Good(f[Len(a)], Len(a)) /\ DOMAIN a = 1 .. Len(a)
  BY <1>5 DEF P
<1> QED
  BY <1>1, <1>6 DEF Filters

-----------------------------------------------------------------------------
(* What the engine's operations preserve. *)

SessionKeys == {"session", "detached"}

\* A registry: no session owns the record of a remote or of a container.
Store(store) ==
    /\ DOMAIN store \subseteq Ids
    /\ \A i \in DOMAIN store : /\ "owner" \in DOMAIN store[i]
                               /\ i \in Probed => store[i].owner \notin SessionKeys

\* A list of attached instances: a route that names an instance leads to it.
Routed(a) ==
    /\ a \in Seq(Entry) /\ Distinct(a)
    /\ \A n \in DOMAIN a :
          a[n].route.kind = "instance" => a[n].route = InstanceRoute(a[n].id)

IsCtrl(c) == c = [reg |-> c.reg, eng |-> c.eng, att |-> c.att, selected |-> c.selected]

Sound(c) == /\ IsCtrl(c) /\ Store(c.reg) /\ Store(c.eng) /\ Routed(c.att)
            /\ AttachedIds(c.att) \subseteq DOMAIN c.eng

\* Entries an operation may attach: their keys, and the routes to instances.
Attachable(c, entries) ==
    /\ Routed(entries)
    /\ \A n \in DOMAIN entries : entries[n].id \in Probed => entries[n].key \notin SessionKeys
    /\ \/ c.att = <<>>
       \/ \A n \in DOMAIN entries : entries[n].route = InstanceRoute(entries[n].id)

LEMMA RoutesDiffer ==
    /\ \A i : InstanceRoute(i).kind = "instance"
    /\ \A i, j : InstanceRoute(i) = InstanceRoute(j) => i = j
    /\ HostRoute.kind # "instance" /\ DispatcherRoute.kind # "instance"
    /\ HostRoute # DispatcherRoute
    /\ HostRoute \in Route /\ DispatcherRoute \in Route
    /\ \A i \in Ids : InstanceRoute(i) \in Route
<1>1. \A i : InstanceRoute(i).kind = "instance" /\ InstanceRoute(i).id = i
  BY DEF InstanceRoute
<1>2. HostRoute.kind = "host-control-plane" /\ DispatcherRoute.kind = "session-dispatcher"
  BY DEF HostRoute, DispatcherRoute
<1>3. /\ HostRoute \in Route /\ DispatcherRoute \in Route
      /\ \A i \in Ids : InstanceRoute(i) \in Route
  BY DEF Route
<1>4. \A i, j : InstanceRoute(i) = InstanceRoute(j) => i = j
  BY <1>1
<1> QED
  BY <1>1, <1>2, <1>3, <1>4

\* Attaching: every entry is there afterwards, and the others are as before.
LEMMA AttachAllIsSound ==
    ASSUME NEW c, Sound(c), NEW entries, Attachable(c, entries), NEW from
    PROVE  LET d == AttachAll(c, entries, from)
           IN  /\ Sound(d) /\ d.reg = c.reg /\ d.selected = c.selected
               /\ DOMAIN d.eng = DOMAIN c.eng \cup AttachedIds(entries)
               /\ \A n \in DOMAIN entries : \E m \in DOMAIN d.att : d.att[m] = entries[n]
<1> DEFINE ids == AttachedIds(entries)
           E(i) == entries[CHOOSE n \in DOMAIN entries : entries[n].id = i]
           old == [n \in DOMAIN c.att |-> IF c.att[n].id \in ids THEN E(c.att[n].id) ELSE c.att[n]]
           new == EntriesIn(entries, ids \ AttachedIds(c.att))
           more == [i \in ids |-> synthesize_instance_record(from, i, E(i).key)]
           q == old \o new
           store == Put(c.eng, more)
<1>1. /\ entries \in Seq(Entry) /\ Distinct(entries) /\ c.att \in Seq(Entry) /\ Distinct(c.att)
      /\ \A n \in DOMAIN entries : entries[n] \in Entry
      /\ \A n \in DOMAIN c.att : c.att[n] \in Entry
  BY DEF Attachable, Sound, Routed
<1>2. \A i \in ids : E(i).id = i /\ \E n \in DOMAIN entries : E(i) = entries[n]
  BY DEF AttachedIds
<1>3. \A n \in DOMAIN entries : entries[n].id \in ids /\ E(entries[n].id) = entries[n]
  <2> TAKE n \in DOMAIN entries
  <2>1. entries[n].id \in ids
    BY DEF AttachedIds
  <2>2. PICK m \in DOMAIN entries : m = CHOOSE k \in DOMAIN entries : entries[k].id = entries[n].id
    OBVIOUS
  <2>3. entries[m].id = entries[n].id
    BY <2>2
  <2> QED
    BY <1>1, <2>1, <2>2, <2>3 DEF Distinct
<1>4. AttachAll(c, entries, from) = [c EXCEPT !.eng = store, !.att = q]
  BY DEF AttachAll
<1> HIDE DEF E
<1>5. /\ old \in Seq(Entry) /\ DOMAIN old = DOMAIN c.att
      /\ \A n \in DOMAIN c.att : old[n].id = c.att[n].id
      /\ \A n \in DOMAIN c.att : old[n] = c.att[n] \/ \E m \in DOMAIN entries : old[n] = entries[m]
  <2>1. \A n \in DOMAIN c.att :
            (IF c.att[n].id \in ids THEN E(c.att[n].id) ELSE c.att[n]) \in Entry
    BY <1>1, <1>2
  <2>2. DOMAIN c.att = 1 .. Len(c.att) /\ Len(c.att) \in Nat
    BY <1>1
  <2>3. old \in [1 .. Len(c.att) -> Entry]
    BY <2>1, <2>2
  <2>4. old \in Seq(Entry)
    <3> HIDE DEF old
    <3> QED
      BY <2>2, <2>3
  <2>5. \A n \in DOMAIN c.att : old[n].id = c.att[n].id
    BY <1>2
  <2>6. \A n \in DOMAIN c.att : old[n] = c.att[n] \/ \E m \in DOMAIN entries : old[n] = entries[m]
    BY <1>2
  <2> QED
    BY <2>4, <2>5, <2>6
<1>6. /\ new \in Seq(Entry) /\ Distinct(new)
      /\ \A m \in DOMAIN new : /\ new[m].id \notin AttachedIds(c.att)
                               /\ \E i \in DOMAIN entries : new[m] = entries[i]
      /\ \A i \in DOMAIN entries : entries[i].id \notin AttachedIds(c.att)
              => \E m \in DOMAIN new : new[m] = entries[i]
  <2> PICK S : S = ids \ AttachedIds(c.att)
    OBVIOUS
  <2>1. new = EntriesIn(entries, S)
    OBVIOUS
  <2> HIDE DEF new
  <2>2. /\ new \in Seq(Entry) /\ (Distinct(entries) => Distinct(new))
        /\ \A m \in DOMAIN new : new[m].id \in S /\ \E i \in DOMAIN entries : new[m] = entries[i]
        /\ \A i \in DOMAIN entries : entries[i].id \in S
                => \E m \in DOMAIN new : new[m] = entries[i]
    <3>1. Filters(EntriesIn(entries, S), entries, S)
      BY <1>1, EntriesInKeeps
    <3>2. Filters(new, entries, S)
      BY <2>1, <3>1
    <3> QED
      BY <3>2 DEF Filters
  <2> QED
    BY <1>1, <1>3, <2>2
<1> HIDE DEF old, new
<1>7. /\ q \in Seq(Entry) /\ DOMAIN q = 1 .. (Len(old) + Len(new))
      /\ Len(old) \in Nat /\ Len(new) \in Nat
      /\ DOMAIN old = 1 .. Len(old) /\ DOMAIN new = 1 .. Len(new)
      /\ \A m \in DOMAIN old : q[m] = old[m] /\ m \in DOMAIN q
      /\ \A m \in DOMAIN new : q[Len(old) + m] = new[m] /\ Len(old) + m \in DOMAIN q
  BY <1>5, <1>6
<1> HIDE DEF q
<1>8. ASSUME NEW m \in DOMAIN q
      PROVE  \/ m \in DOMAIN old /\ q[m] = old[m]
             \/ \E n \in DOMAIN new : m = Len(old) + n /\ q[m] = new[n]
  <2> PICK k, l : k = Len(old) /\ l = Len(new)
    OBVIOUS
  <2>1. m \in 1 .. (k + l) /\ k \in Nat /\ l \in Nat
    BY <1>7
  <2>2. m \in 1 .. k \/ (m - k \in 1 .. l /\ m = k + (m - k))
    BY <2>1
  <2> QED
    BY <1>7, <2>2
<1>9. AttachedIds(q) = AttachedIds(c.att) \cup ids
  <2>1. ASSUME NEW m \in DOMAIN q
        PROVE  q[m].id \in AttachedIds(c.att) \cup ids
    BY <1>3, <1>5, <1>6, <1>8 DEF AttachedIds
  <2>2. ASSUME NEW n \in DOMAIN c.att
        PROVE  c.att[n].id \in AttachedIds(q)
    <3>1. q[n].id = c.att[n].id /\ n \in DOMAIN q
      BY <1>5, <1>7
    <3> QED
      BY <3>1 DEF AttachedIds
  <2>3. ASSUME NEW n \in DOMAIN entries
        PROVE  entries[n].id \in AttachedIds(q)
    <3>1. CASE entries[n].id \in AttachedIds(c.att)
      BY <2>2, <3>1 DEF AttachedIds
    <3>2. CASE entries[n].id \notin AttachedIds(c.att)
      <4>1. PICK m \in DOMAIN new : new[m] = entries[n]
        BY <1>6, <3>2
      <4>2. q[Len(old) + m] = entries[n] /\ Len(old) + m \in DOMAIN q
        BY <1>7, <4>1
      <4> QED
        BY <4>2 DEF AttachedIds
    <3> QED
      BY <3>1, <3>2
  <2>4. AttachedIds(c.att) \subseteq AttachedIds(q)
    BY <2>2 DEF AttachedIds
  <2>5. ids \subseteq AttachedIds(q)
    BY <2>3 DEF AttachedIds
  <2>6. AttachedIds(q) \subseteq AttachedIds(c.att) \cup ids
    BY <2>1 DEF AttachedIds
  <2> QED
    BY <2>4, <2>5, <2>6
<1>10. ASSUME NEW n \in DOMAIN entries
       PROVE  \E m \in DOMAIN q : q[m] = entries[n]
  <2>1. CASE entries[n].id \in AttachedIds(c.att)
    <3>1. PICK m \in DOMAIN c.att : c.att[m].id = entries[n].id
      BY <2>1 DEF AttachedIds
    <3>2. old[m] = E(c.att[m].id)
      BY <1>3, <3>1 DEF old
    <3>3. q[m] = entries[n] /\ m \in DOMAIN q
      BY <1>3, <1>5, <1>7, <3>1, <3>2
    <3> QED
      BY <3>3
  <2>2. CASE entries[n].id \notin AttachedIds(c.att)
    <3>1. PICK m \in DOMAIN new : new[m] = entries[n]
      BY <1>6, <2>2
    <3>2. q[Len(old) + m] = entries[n] /\ Len(old) + m \in DOMAIN q
      BY <1>7, <3>1
    <3> QED
      BY <3>2
  <2> QED
    BY <2>1, <2>2
<1>11. \A m, n \in DOMAIN q : q[m].id = q[n].id => m = n
  <2> SUFFICES ASSUME NEW m \in DOMAIN q, NEW n \in DOMAIN q, q[m].id = q[n].id
               PROVE  m = n
    OBVIOUS
  <2>1. \A k \in DOMAIN old : old[k].id \in AttachedIds(c.att)
    BY <1>5 DEF AttachedIds
  <2>2. CASE m \in DOMAIN old /\ q[m] = old[m] /\ n \in DOMAIN old /\ q[n] = old[n]
    BY <1>1, <1>5, <2>2 DEF Distinct
  <2>3. ASSUME NEW j \in DOMAIN new, m = Len(old) + j, q[m] = new[j],
               NEW k \in DOMAIN new, n = Len(old) + k, q[n] = new[k]
        PROVE  m = n
    BY <1>6, <2>3 DEF Distinct
  <2> QED
    BY <1>6, <1>8, <2>1, <2>2, <2>3
<1>12. \A m \in DOMAIN q : q[m].route.kind = "instance" => q[m].route = InstanceRoute(q[m].id)
  <2> TAKE m \in DOMAIN q
  <2>1. (\E n \in DOMAIN c.att : q[m] = c.att[n]) \/ (\E n \in DOMAIN entries : q[m] = entries[n])
    BY <1>5, <1>6, <1>8
  <2>2. \A n \in DOMAIN c.att :
            c.att[n].route.kind = "instance" => c.att[n].route = InstanceRoute(c.att[n].id)
    BY DEF Sound, Routed
  <2>3. \A n \in DOMAIN entries :
            entries[n].route.kind = "instance" => entries[n].route = InstanceRoute(entries[n].id)
    BY DEF Attachable, Routed
  <2> QED
    BY <2>1, <2>2, <2>3
<1>13. \A m, n \in DOMAIN q : q[m].route = q[n].route => m = n
  <2> SUFFICES ASSUME NEW m \in DOMAIN q, NEW n \in DOMAIN q, q[m].route = q[n].route
               PROVE  m = n
    OBVIOUS
  <2>1. CASE q[m].route.kind = "instance"
    BY <1>11, <1>12, <2>1, RoutesDiffer
  <2>2. CASE q[m].route.kind # "instance"
    <3>1. ASSUME c.att = <<>>
          PROVE  m = n
      <4>1. DOMAIN old = {}
        BY <1>5, <3>1
      <4> QED
        BY <1>6, <1>8, <4>1 DEF Distinct
    <3>2. ASSUME \A k \in DOMAIN entries : entries[k].route = InstanceRoute(entries[k].id)
          PROVE  m = n
      <4>1. \A k \in DOMAIN entries : entries[k].route.kind = "instance"
        BY <3>2, RoutesDiffer
      <4>2. m \in DOMAIN old /\ q[m] = c.att[m]
        BY <1>5, <1>6, <1>8, <2>2, <4>1
      <4>3. n \in DOMAIN old /\ q[n] = c.att[n]
        BY <1>5, <1>6, <1>8, <2>2, <4>1
      <4> QED
        BY <1>1, <1>5, <4>2, <4>3 DEF Distinct
    <3> QED
      BY <3>1, <3>2 DEF Attachable
  <2> QED
    BY <2>1, <2>2
<1>14. Routed(q)
  BY <1>7, <1>11, <1>12, <1>13 DEF Routed, Distinct
<1>15. DOMAIN store = DOMAIN c.eng \cup ids
  BY DEF Put
<1>16. Store(store)
  <2>1. ids \subseteq Ids
    BY <1>1 DEF AttachedIds, Entry
  <2>2. ASSUME NEW i \in ids
        PROVE  "owner" \in DOMAIN store[i] /\ (i \in Probed => store[i].owner \notin SessionKeys)
    <3>1. store[i] = synthesize_instance_record(from, i, E(i).key)
      BY DEF Put
    <3>2. "owner" \in DOMAIN store[i] /\ store[i].owner = E(i).key
      BY <3>1 DEF synthesize_instance_record
    <3> QED
      BY <1>2, <3>2 DEF Attachable
  <2>3. ASSUME NEW i \in DOMAIN c.eng, i \notin ids
        PROVE  "owner" \in DOMAIN store[i] /\ (i \in Probed => store[i].owner \notin SessionKeys)
    <3>1. store[i] = c.eng[i]
      BY <2>3 DEF Put
    <3> QED
      BY <3>1 DEF Sound, Store
  <2> HIDE DEF store
  <2> QED
    BY <1>15, <2>1, <2>2, <2>3 DEF Store, Sound
<1> HIDE DEF store, ids
<1> PICK d : d = [c EXCEPT !.eng = store, !.att = q]
  OBVIOUS
<1>17. /\ IsCtrl(d) /\ d.reg = c.reg /\ d.selected = c.selected
       /\ d.eng = store /\ d.att = q
  BY DEF Sound, IsCtrl
<1>18. Sound(d)
  BY <1>9, <1>14, <1>15, <1>16, <1>17 DEF Sound, ids
<1> QED
  BY <1>4, <1>10, <1>15, <1>17, <1>18 DEF ids

\* SetToSeq lists a finite set, each element once.
LEMMA SetToSeqLists ==
    ASSUME NEW S, IsFiniteSet(S)
    PROVE  /\ Cardinality(S) \in Nat /\ SetToSeq(S) \in [1 .. Cardinality(S) -> S]
           /\ \A m, n \in 1 .. Cardinality(S) : SetToSeq(S)[m] = SetToSeq(S)[n] => m = n
           /\ \A x \in S : \E n \in 1 .. Cardinality(S) : SetToSeq(S)[n] = x
<1> PICK k : k = Cardinality(S)
  OBVIOUS
<1>1. k \in Nat /\ ExistsBijection(1 .. k, S)
  BY FS_CardinalityType
<1>2. \E f \in [1 .. k -> S] : IsInjective(f)
  BY <1>1 DEF ExistsBijection, Bijection, Injection
<1>3. SetToSeq(S) \in [1 .. k -> S] /\ IsInjective(SetToSeq(S))
  BY <1>2 DEF SetToSeq
<1>4. SetToSeq(S) \in Injection(1 .. k, S)
  BY <1>3 DEF Injection
<1>5. Cardinality(1 .. k) = k
  BY <1>1, FS_Interval
<1>6. SetToSeq(S) \in Surjection(1 .. k, S)
  BY <1>4, <1>5, FS_Injection
<1> QED
  BY <1>1, <1>3, <1>6 DEF Surjection, IsInjective

LEMMA OwnEntryIsOwn ==
    \A i \in Ids : /\ OwnEntry(i) \in Entry /\ OwnEntry(i).id = i
                  /\ OwnEntry(i).route = InstanceRoute(i) /\ OwnEntry(i).key = "own"
  BY RoutesDiffer DEF OwnEntry, Entry, Owners

LEMMA OwnEntriesAttach ==
    ASSUME NEW c, NEW S \in SUBSET Ids
    PROVE  Attachable(c, OwnEntries(S)) /\ AttachedIds(OwnEntries(S)) = S
<1>1. IsFiniteSet(S)
  BY RegistryAssumption, FS_Subset
<1> PICK k, s : k = Cardinality(S) /\ s = SetToSeq(S)
  OBVIOUS
<1>2. /\ k \in Nat /\ s \in [1 .. k -> S]
      /\ \A m, n \in 1 .. k : s[m] = s[n] => m = n
      /\ \A x \in S : \E n \in 1 .. k : s[n] = x
  BY <1>1, SetToSeqLists
<1> PICK e : e = [n \in 1 .. k |-> OwnEntry(s[n])]
  OBVIOUS
<1>3. OwnEntries(S) = e
  <2>1. DOMAIN s = 1 .. k
    BY <1>2
  <2> QED
    BY <2>1 DEF OwnEntries
<1>4. DOMAIN e = 1 .. k /\ \A n \in 1 .. k : e[n] = OwnEntry(s[n]) /\ s[n] \in Ids
  BY <1>2
<1>5. \A n \in 1 .. k : /\ e[n] \in Entry /\ e[n].id = s[n]
                        /\ e[n].route = InstanceRoute(s[n]) /\ e[n].key = "own"
  BY <1>4, OwnEntryIsOwn
<1>6. e \in Seq(Entry)
  <2>1. e \in [1 .. k -> Entry]
    BY <1>5
  <2> QED
    BY <1>2, <2>1
<1>7. Distinct(e)
  BY <1>2, <1>4, <1>5, RoutesDiffer DEF Distinct
<1>8. AttachedIds(e) = S
  BY <1>2, <1>4, <1>5 DEF AttachedIds
<1>9. Attachable(c, e)
  BY <1>4, <1>5, <1>6, <1>7 DEF Attachable, Routed, SessionKeys
<1> QED
  BY <1>3, <1>8, <1>9

LEMMA OneEntryAttaches ==
    ASSUME NEW c, NEW i \in Ids
    PROVE  Attachable(c, <<OwnEntry(i)>>) /\ AttachedIds(<<OwnEntry(i)>>) = {i}
<1> PICK e : e = OwnEntry(i)
  OBVIOUS
<1>1. /\ e \in Entry /\ e.id = i /\ e.route = InstanceRoute(i) /\ e.key = "own"
  BY OwnEntryIsOwn
<1>2. <<e>> \in Seq(Entry) /\ DOMAIN <<e>> = {1} /\ <<e>>[1] = e
  BY <1>1
<1>3. Distinct(<<e>>) /\ AttachedIds(<<e>>) = {i}
  BY <1>1, <1>2 DEF Distinct, AttachedIds
<1> QED
  BY <1>1, <1>2, <1>3 DEF Attachable, Routed, SessionKeys

\* Publishing: the views' copy becomes the engine's.
LEMMA PublishedIsSound ==
    ASSUME NEW c, Sound(c)
    PROVE  LET d == Published(c)
           IN  /\ Sound(d) /\ d.reg = c.eng /\ d.eng = c.eng /\ d.att = c.att
               /\ d.selected = c.selected
<1> PICK d : d = [c EXCEPT !.reg = c.eng]
  OBVIOUS
<1>1. /\ IsCtrl(d) /\ d.reg = c.eng /\ d.eng = c.eng /\ d.att = c.att
      /\ d.selected = c.selected
  BY DEF Sound, IsCtrl
<1> QED
  BY <1>1 DEF Published, Sound

\* Instances attached under their own key, and published.
LEMMA RegisteredIsSound ==
    ASSUME NEW c, Sound(c), NEW S \in SUBSET Ids, NEW from
    PROVE  LET d == AttachAll(c, OwnEntries(S), from)
           IN  /\ Sound(d) /\ d.reg = c.reg /\ d.selected = c.selected
               /\ DOMAIN d.eng = DOMAIN c.eng \cup S
<1> PICK e : e = OwnEntries(S)
  OBVIOUS
<1>1. Attachable(c, e) /\ AttachedIds(e) = S
  BY OwnEntriesAttach
<1> PICK d : d = AttachAll(c, e, from)
  OBVIOUS
<1>2. /\ Sound(d) /\ d.reg = c.reg /\ d.selected = c.selected
      /\ DOMAIN d.eng = DOMAIN c.eng \cup AttachedIds(e)
  BY <1>1, AttachAllIsSound
<1> QED
  BY <1>1, <1>2

LEMMA OwnAttachmentIsSound ==
    ASSUME NEW c, Sound(c), NEW i \in Ids, NEW from
    PROVE  LET d == attach_instance(c, OwnEntry(i), from)
           IN  /\ Sound(d) /\ d.reg = c.reg /\ d.selected = c.selected
               /\ DOMAIN d.eng = DOMAIN c.eng \cup {i}
               /\ InstanceRoute(i) \in AttachedRoutes(d.att)
<1> PICK e : e = <<OwnEntry(i)>>
  OBVIOUS
<1>1. Attachable(c, e) /\ AttachedIds(e) = {i}
  BY OneEntryAttaches
<1> PICK d : d = AttachAll(c, e, from)
  OBVIOUS
<1>2. /\ Sound(d) /\ d.reg = c.reg /\ d.selected = c.selected
      /\ DOMAIN d.eng = DOMAIN c.eng \cup AttachedIds(e)
      /\ \A n \in DOMAIN e : \E m \in DOMAIN d.att : d.att[m] = e[n]
  BY <1>1, AttachAllIsSound
<1>3. 1 \in DOMAIN e /\ e[1] = OwnEntry(i)
  OBVIOUS
<1>4. InstanceRoute(i) \in AttachedRoutes(d.att)
  BY <1>2, <1>3, OwnEntryIsOwn DEF AttachedRoutes
<1> QED
  BY <1>1, <1>2, <1>4 DEF attach_instance

-----------------------------------------------------------------------------
(* The controller's handlers. *)

\* The lifecycle policy changes no owner.
LEMMA AgedKeepsOwner ==
    ASSUME NEW r, "owner" \in DOMAIN r
    PROVE  "owner" \in DOMAIN Aged(r) /\ Aged(r).owner = r.owner
<1>1. CASE r.age = Never
  BY <1>1 DEF Aged
<1>2. CASE r.age # Never
  BY <1>2 DEF Aged
<1> QED
  BY <1>1, <1>2

LEMMA EvaluatedIsSound ==
    ASSUME NEW c, Sound(c)
    PROVE  LET d == evaluate_instance_lifecycle(c)
           IN  /\ Sound(d) /\ d.reg = d.eng /\ d.att = c.att /\ d.selected = c.selected
               /\ DOMAIN d.eng = DOMAIN c.eng
<1> PICK store : store = evaluate_lifecycle_policy(c.eng)
  OBVIOUS
<1>1. DOMAIN store = DOMAIN c.eng /\ \A i \in DOMAIN c.eng : store[i] = Aged(c.eng[i])
  BY DEF evaluate_lifecycle_policy
<1>2. Store(store)
  BY <1>1, AgedKeepsOwner DEF Sound, Store
<1> PICK d : d = [c EXCEPT !.eng = store]
  OBVIOUS
<1>3. IsCtrl(d) /\ d.reg = c.reg /\ d.eng = store /\ d.att = c.att /\ d.selected = c.selected
  BY DEF Sound, IsCtrl
<1>4. Sound(d)
  BY <1>1, <1>2, <1>3 DEF Sound
<1>5. evaluate_instance_lifecycle(c) = Published(d)
  BY DEF evaluate_instance_lifecycle
<1> PICK p : p = Published(d)
  OBVIOUS
<1>6. /\ Sound(p) /\ p.reg = d.eng /\ p.eng = d.eng /\ p.att = d.att
      /\ p.selected = d.selected
  BY <1>4, PublishedIsSound
<1> QED
  BY <1>1, <1>3, <1>5, <1>6

\* The session's host and dispatcher are two instances, and no probed one.
LEMMA SessionAttaches ==
    ASSUME NEW c, c.att = <<>>, NEW store, Store(store), NEW ses \in Session,
           NEW host \in HostsFor(store, ses)
    PROVE  Attachable(c, reconcile_attached_instances(host, ses))
<1> PICK key : key = session_audit_key(ses)
  OBVIOUS
<1>1. key \in SessionKeys /\ key \in Owners
  BY DEF session_audit_key, SessionKeys, Owners
<1>2. host # NoId => host \in Ids /\ host \notin Probed /\ host # ses.dispatcher
  <2>1. CASE ses.host # NoId
    BY <2>1, RegistryAssumption DEF HostsFor, Session, Ids
  <2>2. CASE ses.host = NoId
    BY <1>1, <2>2 DEF HostsFor, Store
  <2> QED
    BY <2>1, <2>2
<1>3. ses.dispatcher # NoId => ses.dispatcher \in Ids /\ ses.dispatcher \notin Probed
  BY RegistryAssumption DEF Session, Ids
<1> PICK h : h = [id |-> host, route |-> HostRoute, key |-> key]
  OBVIOUS
<1> PICK d : d = [id |-> ses.dispatcher, route |-> DispatcherRoute, key |-> key]
  OBVIOUS
<1>4. /\ host # NoId => h \in Entry
      /\ h.id = host /\ h.route = HostRoute
      /\ ses.dispatcher # NoId => d \in Entry
      /\ d.id = ses.dispatcher /\ d.route = DispatcherRoute
  BY <1>1, <1>2, <1>3, RoutesDiffer DEF Entry
<1> PICK e : e = reconcile_attached_instances(host, ses)
  OBVIOUS
<1>5. e = (IF host = NoId THEN <<>> ELSE <<h>>) \o (IF ses.dispatcher = NoId THEN <<>> ELSE <<d>>)
  BY DEF reconcile_attached_instances
<1>6. ASSUME e \in Seq(Entry),
             \A n \in DOMAIN e : (e[n] = h /\ host # NoId) \/ (e[n] = d /\ ses.dispatcher # NoId),
             \A m, n \in DOMAIN e : e[m] = e[n] => m = n
      PROVE  Attachable(c, e)
  <2>1. \A n \in DOMAIN e : e[n].id \notin Probed /\ e[n].route.kind # "instance"
    BY <1>2, <1>3, <1>4, <1>6, RoutesDiffer
  <2>2. Distinct(e)
    BY <1>2, <1>4, <1>6, RoutesDiffer DEF Distinct
  <2> QED
    BY <1>6, <2>1, <2>2 DEF Attachable, Routed
<1>7. CASE host = NoId /\ ses.dispatcher = NoId
  <2>1. e = <<>>
    BY <1>5, <1>7
  <2> QED
    BY <1>6, <2>1
<1>8. CASE host # NoId /\ ses.dispatcher = NoId
  <2>1. e = <<h>>
    BY <1>4, <1>5, <1>8
  <2>2. e \in Seq(Entry) /\ Len(e) = 1 /\ e[1] = h
    <3>1. h \in Entry
      BY <1>4, <1>8
    <3> QED
      BY <2>1, <3>1
  <2>3. \A n \in DOMAIN e : n = 1
    BY <2>2
  <2>4. \A n \in DOMAIN e : (e[n] = h /\ host # NoId) \/ (e[n] = d /\ ses.dispatcher # NoId)
    <3> TAKE n \in DOMAIN e
    <3>1. n = 1 /\ e[1] = h
      BY <2>2, <2>3
    <3>2. e[n] = h
      BY <3>1
    <3> QED
      BY <1>8, <3>2
  <2>5. \A m, n \in DOMAIN e : m = n
    BY <2>3
  <2> QED
    BY <1>6, <2>2, <2>4, <2>5, Zenon
<1>9. CASE host = NoId /\ ses.dispatcher # NoId
  <2>1. e = <<d>>
    BY <1>4, <1>5, <1>9
  <2>2. e \in Seq(Entry) /\ Len(e) = 1 /\ e[1] = d
    <3>1. d \in Entry
      BY <1>4, <1>9
    <3> QED
      BY <2>1, <3>1
  <2>3. \A n \in DOMAIN e : n = 1
    BY <2>2
  <2>4. \A n \in DOMAIN e : (e[n] = h /\ host # NoId) \/ (e[n] = d /\ ses.dispatcher # NoId)
    <3> TAKE n \in DOMAIN e
    <3>1. n = 1 /\ e[1] = d
      BY <2>2, <2>3
    <3>2. e[n] = d
      BY <3>1
    <3> QED
      BY <1>9, <3>2
  <2>5. \A m, n \in DOMAIN e : m = n
    BY <2>3
  <2> QED
    BY <1>6, <2>2, <2>4, <2>5, Zenon
<1>10. CASE host # NoId /\ ses.dispatcher # NoId
  <2>1. e = <<h>> \o <<d>>
    BY <1>5, <1>10
  <2>2. e \in Seq(Entry) /\ DOMAIN e = {1, 2} /\ e[1] = h /\ e[2] = d
    <3>1. <<h>> \in Seq(Entry) /\ <<d>> \in Seq(Entry)
      BY <1>4, <1>10
    <3>2. e \in Seq(Entry) /\ Len(e) = 2 /\ e[1] = h /\ e[2] = d
      BY <2>1, <3>1
    <3>3. DOMAIN e = {1, 2}
      BY <3>2
    <3> QED
      BY <3>2, <3>3
  <2>3. h # d
    BY <1>4, RoutesDiffer
  <2> QED
    BY <1>6, <1>10, <2>2, <2>3
<1> QED
  BY <1>7, <1>8, <1>9, <1>10

\* The engine made anew from the registry and the session.
LEMMA RebuiltIsSound ==
    ASSUME NEW c, Store(c.reg), NEW ses \in Session, NEW host \in HostsFor(c.reg, ses)
    PROVE  LET d == rebuild_attached_instances(c, host, ses)
           IN  /\ Sound(d) /\ d.reg = d.eng /\ DOMAIN c.reg \subseteq DOMAIN d.eng
               /\ d.selected = selected_command_route_id(c.att, c.selected)
<1> PICK fresh : fresh = [reg |-> c.reg, eng |-> c.reg, att |-> <<>>,
                          selected |-> selected_command_route_id(c.att, c.selected)]
  OBVIOUS
<1>1. /\ IsCtrl(fresh) /\ fresh.reg = c.reg /\ fresh.eng = c.reg /\ fresh.att = <<>>
      /\ fresh.selected = selected_command_route_id(c.att, c.selected)
  BY DEF IsCtrl
<1>2. Sound(fresh)
  <2>1. Routed(<<>>) /\ AttachedIds(<<>>) = {}
    BY DEF Routed, Distinct, AttachedIds
  <2> QED
    BY <1>1, <2>1 DEF Sound
<1> PICK e : e = reconcile_attached_instances(host, ses)
  OBVIOUS
<1>3. Attachable(fresh, e)
  BY <1>1, SessionAttaches
<1> PICK d : d = AttachAll(fresh, e, c.reg)
  OBVIOUS
<1>4. /\ Sound(d) /\ d.selected = fresh.selected
      /\ DOMAIN d.eng = DOMAIN fresh.eng \cup AttachedIds(e)
  BY <1>2, <1>3, AttachAllIsSound
<1>5. rebuild_attached_instances(c, host, ses) = Published(d)
  BY DEF rebuild_attached_instances, Published
<1> QED
  BY <1>1, <1>4, <1>5, PublishedIsSound

\* Dropping entries leaves a list of attached instances.
LEMMA FilteredIsRouted ==
    ASSUME NEW a, Routed(a), NEW S
    PROVE  /\ Routed(EntriesIn(a, S))
           /\ AttachedIds(EntriesIn(a, S)) \subseteq AttachedIds(a) \cap S
<1> PICK k : k = EntriesIn(a, S)
  OBVIOUS
<1>1. a \in Seq(Entry)
  BY DEF Routed
<1>2. Filters(k, a, S)
  BY <1>1, EntriesInKeeps
<1>3. Routed(k)
  BY <1>2 DEF Filters, Routed
<1>4. AttachedIds(k) \subseteq AttachedIds(a) \cap S
  BY <1>2 DEF Filters, AttachedIds
<1> QED
  BY <1>3, <1>4

\* A purge drops only records that are not attached, and no detached service.
LEMMA PurgedIsSound ==
    ASSUME NEW c, Sound(c), NEW ses
    PROVE  LET d == purge_stale_instances(c, AttachedIds(c.att), ses)
           IN  /\ Sound(d) /\ d.reg = c.reg /\ d.selected = c.selected
               /\ DOMAIN c.eng \cap Detached \subseteq DOMAIN d.eng
               /\ DOMAIN d.eng \subseteq DOMAIN c.eng
<1> PICK active : active = AttachedIds(c.att)
  OBVIOUS
<1> DEFINE Purged(i) == c.eng[i].owner = session_audit_key(ses) /\ i \notin active
           left == {j \in DOMAIN c.eng : Purged(j) => j \in Detached}
           store == [i \in left |->
                       IF Purged(i)
                       THEN [c.eng[i] EXCEPT !.status = "Lost", !.ready = FALSE, !.fresh = "Stale"]
                       ELSE c.eng[i]]
           kept == EntriesIn(c.att, active)
<1>1. purge_stale_instances(c, active, ses) = [c EXCEPT !.att = kept, !.eng = store]
  BY DEF purge_stale_instances
<1>2. /\ DOMAIN store = left /\ left \subseteq DOMAIN c.eng
      /\ DOMAIN c.eng \cap Detached \subseteq left
      /\ DOMAIN c.eng \cap active \subseteq left
  OBVIOUS
<1>3. \A i \in left : "owner" \in DOMAIN c.eng[i]
                     => "owner" \in DOMAIN store[i] /\ store[i].owner = c.eng[i].owner
  OBVIOUS
<1> HIDE DEF left, store
<1>4. Store(store)
  BY <1>2, <1>3 DEF Sound, Store
<1>5. Routed(kept) /\ AttachedIds(kept) \subseteq AttachedIds(c.att) \cap active
  BY FilteredIsRouted DEF Sound
<1> HIDE DEF kept
<1> PICK d : d = [c EXCEPT !.att = kept, !.eng = store]
  OBVIOUS
<1>6. IsCtrl(d) /\ d.reg = c.reg /\ d.selected = c.selected /\ d.eng = store /\ d.att = kept
  BY DEF Sound, IsCtrl
<1>7. Sound(d)
  BY <1>2, <1>4, <1>5, <1>6 DEF Sound
<1> QED
  BY <1>1, <1>2, <1>6, <1>7

\* A session event rebuilds the engine and purges it.
LEMMA MutatedIsSound ==
    ASSUME NEW c, Store(c.reg), NEW ses \in Session, NEW host \in HostsFor(c.reg, ses)
    PROVE  LET d == handle_session_mutation(c, host, ses)
           IN  /\ Sound(d) /\ d.reg = d.eng
               /\ DOMAIN c.reg \cap Detached \subseteq DOMAIN d.eng
               /\ d.selected = selected_command_route_id(c.att, c.selected)
<1> PICK r : r = rebuild_attached_instances(c, host, ses)
  OBVIOUS
<1>1. /\ Sound(r) /\ r.reg = r.eng /\ DOMAIN c.reg \subseteq DOMAIN r.eng
      /\ r.selected = selected_command_route_id(c.att, c.selected)
  BY RebuiltIsSound
<1> PICK p : p = purge_stale_instances(r, AttachedIds(r.att), ses)
  OBVIOUS
<1>2. /\ Sound(p) /\ p.reg = r.reg /\ p.selected = r.selected
      /\ DOMAIN r.eng \cap Detached \subseteq DOMAIN p.eng
      /\ DOMAIN p.eng \subseteq DOMAIN r.eng
  BY <1>1, PurgedIsSound
<1> PICK d : d = Published(p)
  OBVIOUS
<1>3. Sound(d) /\ d.reg = p.eng /\ d.eng = p.eng /\ d.selected = p.selected
  BY <1>2, PublishedIsSound
<1>4. d = handle_session_mutation(c, host, ses)
  BY DEF handle_session_mutation
<1> QED
  BY <1>1, <1>2, <1>3, <1>4

\* The descriptor's instance is attached under its own key.
LEMMA SyncedIsSound ==
    ASSUME NEW c, Sound(c), c.reg = c.eng, NEW ses \in Session
    PROVE  LET d == sync_primary_descriptor_to_registry(c, ses)
           IN  /\ Sound(d) /\ d.reg = d.eng /\ DOMAIN c.eng \subseteq DOMAIN d.eng
               /\ d.selected = c.selected
<1>1. CASE ses.host \notin DOMAIN c.reg
  BY <1>1 DEF sync_primary_descriptor_to_registry
<1>2. CASE ses.host \in DOMAIN c.reg
  <2> PICK i : i = ses.host
    OBVIOUS
  <2>1. i \in Ids
    BY <1>2 DEF Sound, Store
  <2> PICK a : a = attach_instance(c, OwnEntry(i), c.reg)
    OBVIOUS
  <2>2. Sound(a) /\ a.selected = c.selected /\ DOMAIN a.eng = DOMAIN c.eng \cup {i}
    BY <2>1, OwnAttachmentIsSound
  <2> PICK d : d = Published(a)
    OBVIOUS
  <2>3. Sound(d) /\ d.reg = a.eng /\ d.eng = a.eng /\ d.selected = a.selected
    BY <2>2, PublishedIsSound
  <2>4. d = sync_primary_descriptor_to_registry(c, ses)
    BY <1>2 DEF sync_primary_descriptor_to_registry
  <2> QED
    BY <2>2, <2>3, <2>4
<1> QED
  BY <1>1, <1>2

\* Containers or remotes registered and published.
LEMMA RegisteredAndPublished ==
    ASSUME NEW c, Sound(c), NEW S \in SUBSET Ids, NEW from
    PROVE  LET d == Published(AttachAll(c, OwnEntries(S), from))
           IN  /\ Sound(d) /\ d.reg = d.eng /\ d.selected = c.selected
               /\ DOMAIN c.eng \subseteq DOMAIN d.eng
<1> PICK a : a = AttachAll(c, OwnEntries(S), from)
  OBVIOUS
<1>1. /\ Sound(a) /\ a.reg = c.reg /\ a.selected = c.selected
      /\ DOMAIN a.eng = DOMAIN c.eng \cup S
  BY RegisteredIsSound
<1> PICK d : d = Published(a)
  OBVIOUS
<1>2. Sound(d) /\ d.reg = a.eng /\ d.eng = a.eng /\ d.selected = a.selected
  BY <1>1, PublishedIsSound
<1> QED
  BY <1>1, <1>2

LEMMA DiscoveredIsSound ==
    ASSUME NEW c, Sound(c), c.reg = c.eng, NEW found, DOMAIN found \subseteq Ids
    PROVE  LET d == register_discovered(c, found)
           IN  /\ Sound(d) /\ d.reg = d.eng /\ d.selected = c.selected
               /\ DOMAIN c.eng \subseteq DOMAIN d.eng
<1> PICK S : S = {i \in DOMAIN found : found[i].ready /\ ~Shadowed(c.reg, i)}
  OBVIOUS
<1>1. S \in SUBSET Ids
  OBVIOUS
<1>2. register_discovered(c, found) =
          IF S = {} THEN c ELSE Published(AttachAll(c, OwnEntries(S), found))
  BY DEF register_discovered, register_container_agents
<1> QED
  BY <1>1, <1>2, RegisteredAndPublished

LEMMA ReattachedIsSound ==
    ASSUME NEW c, Sound(c), c.reg = c.eng
    PROVE  LET d == reattach_container_agents(c)
           IN  /\ Sound(d) /\ d.reg = d.eng /\ d.selected = c.selected
               /\ DOMAIN c.eng \subseteq DOMAIN d.eng
<1> PICK S : S = {i \in DOMAIN c.reg \cap Containers : c.reg[i].ready /\ ~Shadowed(c.reg, i)}
  OBVIOUS
<1>1. S \in SUBSET Ids
  BY DEF Ids
<1>2. reattach_container_agents(c) =
          IF S = {} THEN c ELSE Published(AttachAll(c, OwnEntries(S), c.reg))
  BY DEF reattach_container_agents, register_container_agents
<1> QED
  BY <1>1, <1>2, RegisteredAndPublished

\* A container that disappeared goes with its attachment and keeps its record:
\* no session owns it.
LEMMA DetachedIsSound ==
    ASSUME NEW c, Sound(c), NEW S, S \subseteq Containers, NEW ses
    PROVE  LET d == detach_instances(c, S, ses)
           IN  /\ Sound(d) /\ d.selected = c.selected /\ DOMAIN d.eng = DOMAIN c.eng
<1> DEFINE stays == {i \in Ids : i \in DOMAIN c.eng =>
                          ~(i \in S /\ c.eng[i].owner = session_audit_key(ses))}
           store == Keep(c.eng, stays)
           kept == EntriesIn(c.att, Ids \ S)
<1>1. detach_instances(c, S, ses) = [c EXCEPT !.att = kept, !.eng = store]
  BY DEF detach_instances
<1>2. DOMAIN c.eng \subseteq stays
  BY DEF Sound, Store, SessionKeys, session_audit_key, Probed
<1>3. DOMAIN store = DOMAIN c.eng /\ \A i \in DOMAIN c.eng : store[i] = c.eng[i]
  BY <1>2 DEF Keep
<1> HIDE DEF store
<1>4. Store(store)
  BY <1>3 DEF Sound, Store
<1>5. Routed(kept) /\ AttachedIds(kept) \subseteq AttachedIds(c.att)
  BY FilteredIsRouted DEF Sound
<1> HIDE DEF kept
<1> PICK d : d = [c EXCEPT !.att = kept, !.eng = store]
  OBVIOUS
<1>6. IsCtrl(d) /\ d.reg = c.reg /\ d.selected = c.selected /\ d.eng = store /\ d.att = kept
  BY DEF Sound, IsCtrl
<1>7. Sound(d)
  BY <1>3, <1>4, <1>5, <1>6 DEF Sound
<1> QED
  BY <1>1, <1>3, <1>6, <1>7

-----------------------------------------------------------------------------
(* The invariant, and the actions. *)

\* The engine is sound, and what it knows the views and the file know.
RegistryInv == /\ Sound(ctrl) /\ DOMAIN eng \subseteq DOMAIN reg
               /\ config \subseteq Remotes

\* What a step leaves: the registry, the detached services in it, and the
\* selected route, or the one in force.
Leaves(d) == /\ Sound(d) /\ DOMAIN d.eng \subseteq DOMAIN d.reg
             /\ DOMAIN eng \cap Detached \subseteq DOMAIN d.eng
             /\ d.selected \in {selected, selected_command_route_id(att, selected)}

LEMMA CtrlFields ==
    /\ ctrl.reg = reg /\ ctrl.eng = eng /\ ctrl.att = att /\ ctrl.selected = selected
  BY DEF ctrl

LEMMA BecomesIs ==
    ASSUME NEW d, IsCtrl(d),
           reg' = d.reg /\ eng' = d.eng /\ att' = d.att /\ selected' = d.selected
    PROVE  ctrl' = d
  BY DEF ctrl, IsCtrl

\* An iteration of the loop.
LEMMA TickLeaves ==
    ASSUME RegistryInv, PlainTick \/ ProbeTick
    PROVE  \E d : Leaves(d) /\ ctrl' = d /\ config' = config
<1> PICK c : c = ctrl
  OBVIOUS
<1>1. Sound(c) /\ c.eng = eng /\ c.selected = selected
  BY CtrlFields DEF RegistryInv
<1>2. PICK d : /\ d = evaluate_instance_lifecycle(c) /\ config' = config
               /\ reg' = d.reg /\ eng' = d.eng /\ att' = d.att /\ selected' = d.selected
  BY DEF PlainTick, ProbeTick, Evaluate, Becomes, world
<1>3. /\ Sound(d) /\ d.reg = d.eng /\ d.att = c.att /\ d.selected = c.selected
      /\ DOMAIN d.eng = DOMAIN c.eng
  BY <1>1, <1>2, EvaluatedIsSound
<1>4. ctrl' = d
  BY <1>2, <1>3, BecomesIs DEF Sound
<1> QED
  BY <1>1, <1>2, <1>3, <1>4 DEF Leaves

LEMMA ReconcileLeaves ==
    ASSUME RegistryInv, ReconcileTick
    PROVE  \E d : Leaves(d) /\ ctrl' = d /\ config' = config
<1> PICK c : c = ctrl
  OBVIOUS
<1>1. Sound(c) /\ c.eng = eng /\ c.selected = selected
  BY CtrlFields DEF RegistryInv
<1>2. PICK v : v = evaluate_instance_lifecycle(c) /\ reconcile_container_agents(v)
  BY DEF ReconcileTick
<1>3. PICK found, r, e :
          /\ found = discover_and_probe /\ r = register_discovered(v, found)
          /\ e = detach_disappeared(r, found, session)
          /\ Evaluate([e EXCEPT !.reg = Put(e.eng, found)])
  BY <1>2 DEF reconcile_container_agents
<1>4. PICK d : /\ d = [e EXCEPT !.reg = Put(e.eng, found)] /\ config' = config
               /\ reg' = d.reg /\ eng' = d.eng /\ att' = d.att /\ selected' = d.selected
  BY <1>3 DEF Evaluate, Becomes, world
<1>5. Sound(v) /\ v.reg = v.eng /\ v.selected = c.selected /\ DOMAIN v.eng = DOMAIN c.eng
  BY <1>1, <1>2, EvaluatedIsSound
<1>6. /\ DOMAIN found \subseteq Containers /\ DOMAIN found \subseteq Ids
      /\ \A i \in DOMAIN found : "owner" \in DOMAIN found[i] /\ found[i].owner = "auspex"
  BY <1>3 DEF discover_and_probe, container_to_instance_record, Ids
<1>7. Sound(r) /\ r.selected = v.selected /\ DOMAIN v.eng \subseteq DOMAIN r.eng
  BY <1>3, <1>5, <1>6, DiscoveredIsSound
<1>8. Sound(e) /\ e.selected = r.selected /\ DOMAIN e.eng = DOMAIN r.eng
  <2> PICK stale : stale = {i \in DOMAIN r.reg \cap Containers :
                              i \notin DOMAIN found /\ r.reg[i].status # "Exited"}
    OBVIOUS
  <2>1. e = detach_instances(r, stale, session) /\ stale \subseteq Containers
    BY <1>3 DEF detach_disappeared
  <2> QED
    BY <1>7, <2>1, DetachedIsSound
<1> PICK store : store = Put(e.eng, found)
  OBVIOUS
<1>9. /\ DOMAIN store = DOMAIN e.eng \cup DOMAIN found
      /\ \A i \in DOMAIN store : store[i] = IF i \in DOMAIN found THEN found[i] ELSE e.eng[i]
  BY DEF Put
<1>10. Store(store)
  BY <1>6, <1>8, <1>9 DEF Sound, Store, SessionKeys
<1>11. IsCtrl(d) /\ d.reg = store /\ d.eng = e.eng /\ d.att = e.att /\ d.selected = e.selected
  BY <1>4, <1>8 DEF Sound, IsCtrl
<1>12. Sound(d)
  BY <1>8, <1>10, <1>11 DEF Sound
<1>13. ctrl' = d
  BY <1>4, <1>11, BecomesIs
<1> QED
  BY <1>1, <1>4, <1>5, <1>7, <1>8, <1>9, <1>11, <1>12, <1>13 DEF Leaves

LEMMA ProbeResultsLeave ==
    ASSUME RegistryInv, ApplyProbeResults
    PROVE  \E d : Leaves(d) /\ ctrl' = d /\ config' = config
<1> PICK c : c = ctrl
  OBVIOUS
<1>1. /\ Sound(c) /\ c.reg = reg /\ c.eng = eng /\ c.selected = selected
      /\ DOMAIN c.eng \subseteq DOMAIN c.reg
  BY CtrlFields DEF RegistryInv
<1> PICK known : known = DOMAIN results \cap DOMAIN reg
  OBVIOUS
<1>2. PICK a, d :
          /\ a = attach_probed_remotes(c, results)
          /\ d = IF known = {} THEN c
                 ELSE [a EXCEPT !.reg = Put(a.eng, [i \in known \cap DOMAIN a.eng |->
                         [a.eng[i] EXCEPT !.ready = results[i].ready,
                                          !.version = @ \/ results[i].version]])]
          /\ reg' = d.reg /\ eng' = d.eng /\ att' = d.att /\ selected' = d.selected
          /\ config' = config
  BY DEF ApplyProbeResults, apply_remote_probe_results, Becomes, world
<1>3. Sound(a) /\ a.selected = c.selected /\ DOMAIN c.eng \subseteq DOMAIN a.eng
  <2> PICK new, probed :
          /\ new = {i \in DOMAIN results \cap DOMAIN c.reg :
                       results[i].ready /\ i \notin AttachedIds(c.att)}
          /\ a = AttachAll(c, OwnEntries(new), probed)
    BY <1>2 DEF attach_probed_remotes
  <2>1. new \in SUBSET Ids
    BY <1>1 DEF Sound, Store
  <2> QED
    BY <1>1, <2>1, RegisteredIsSound
<1>4. CASE known = {}
  <2>1. d = c
    BY <1>2, <1>4
  <2> QED
    BY <1>1, <1>2, <2>1, BecomesIs DEF Leaves, Sound
<1>5. CASE known # {}
  <2> DEFINE more == [i \in known \cap DOMAIN a.eng |->
                        [a.eng[i] EXCEPT !.ready = results[i].ready,
                                         !.version = @ \/ results[i].version]]
             store == Put(a.eng, more)
  <2>1. /\ DOMAIN more \subseteq DOMAIN a.eng
        /\ \A i \in DOMAIN more : "owner" \in DOMAIN a.eng[i]
               => "owner" \in DOMAIN more[i] /\ more[i].owner = a.eng[i].owner
    OBVIOUS
  <2>2. d = [a EXCEPT !.reg = store]
    BY <1>2, <1>5
  <2> HIDE DEF more
  <2>3. /\ DOMAIN store = DOMAIN a.eng
        /\ \A i \in DOMAIN store : store[i] = IF i \in DOMAIN more THEN more[i] ELSE a.eng[i]
    BY <2>1 DEF Put
  <2> HIDE DEF store
  <2>4. Store(store)
    BY <1>3, <2>1, <2>3 DEF Sound, Store
  <2>5. IsCtrl(d) /\ d.reg = store /\ d.eng = a.eng /\ d.att = a.att /\ d.selected = a.selected
    BY <1>3, <2>2 DEF Sound, IsCtrl
  <2>6. Sound(d)
    BY <1>3, <2>4, <2>5 DEF Sound
  <2>7. ctrl' = d
    BY <1>2, <2>5, BecomesIs
  <2> QED
    BY <1>1, <1>2, <1>3, <2>3, <2>5, <2>6, <2>7 DEF Leaves
<1> QED
  BY <1>4, <1>5

\* What the session reports.
LEMMA SessionLeaves ==
    ASSUME RegistryInv, NEW ses \in Session, SessionEvent(ses) \/ SessionRefresh(ses)
    PROVE  \E d : Leaves(d) /\ ctrl' = d /\ config' = config
<1> PICK c : c = ctrl
  OBVIOUS
<1>1. /\ Sound(c) /\ c.reg = reg /\ c.eng = eng /\ c.att = att /\ c.selected = selected
      /\ DOMAIN c.eng \subseteq DOMAIN c.reg /\ Store(c.reg)
  BY CtrlFields DEF RegistryInv, Sound
<1>2. config' = config
  BY DEF SessionEvent, SessionRefresh, world
<1>3. PICK host \in HostsFor(reg, ses) :
          \/ Becomes(sync_primary_descriptor_to_registry(
                        handle_session_mutation(c, host, ses), ses))
          \/ Becomes(handle_session_mutation(c, host, ses))
  BY DEF SessionEvent, SessionRefresh
<1> PICK m : m = handle_session_mutation(c, host, ses)
  OBVIOUS
<1>4. /\ Sound(m) /\ m.reg = m.eng
      /\ DOMAIN c.reg \cap Detached \subseteq DOMAIN m.eng
      /\ m.selected = selected_command_route_id(c.att, c.selected)
  BY <1>1, MutatedIsSound
<1> PICK y : y = sync_primary_descriptor_to_registry(m, ses)
  OBVIOUS
<1>5. /\ Sound(y) /\ y.reg = y.eng /\ DOMAIN m.eng \subseteq DOMAIN y.eng
      /\ y.selected = m.selected
  BY <1>4, SyncedIsSound
<1>6. PICK d : /\ d = m \/ d = y
               /\ reg' = d.reg /\ eng' = d.eng /\ att' = d.att /\ selected' = d.selected
  BY <1>3 DEF Becomes
<1>7. ctrl' = d
  BY <1>4, <1>5, <1>6, BecomesIs DEF Sound
<1>8. Leaves(d)
  BY <1>1, <1>4, <1>5, <1>6 DEF Leaves
<1> QED
  BY <1>2, <1>7, <1>8

\* A local agent: it is attached and selected.
LEMMA AttachLocalLeaves ==
    ASSUME RegistryInv, NEW i \in Locals, AttachLocal(i)
    PROVE  /\ \E d : /\ Sound(d) /\ d.reg = d.eng /\ ctrl' = d
                     /\ DOMAIN eng \subseteq DOMAIN d.eng
           /\ config' = config /\ selected' = InstanceRoute(i)
           /\ InstanceRoute(i) \in AttachedRoutes(att')
<1> PICK c : c = ctrl
  OBVIOUS
<1>1. Sound(c) /\ c.eng = eng /\ i \in Ids
  BY CtrlFields DEF RegistryInv, Ids
<1> PICK a : a = attach_instance(c, OwnEntry(i),
                                 [j \in {i} |-> instance_record_from_startup_descriptor])
  OBVIOUS
<1>2. /\ Sound(a) /\ DOMAIN a.eng = DOMAIN c.eng \cup {i}
      /\ InstanceRoute(i) \in AttachedRoutes(a.att)
  BY <1>1, OwnAttachmentIsSound
<1> PICK b : b = [a EXCEPT !.selected = InstanceRoute(i)]
  OBVIOUS
<1>3. /\ IsCtrl(b) /\ b.reg = a.reg /\ b.eng = a.eng /\ b.att = a.att
      /\ b.selected = InstanceRoute(i)
  BY <1>2 DEF Sound, IsCtrl
<1>4. Sound(b)
  BY <1>2, <1>3 DEF Sound
<1>5. PICK d : /\ d = Published(b) /\ config' = config
               /\ reg' = d.reg /\ eng' = d.eng /\ att' = d.att /\ selected' = d.selected
  BY DEF AttachLocal, apply_local_omegon_probe_attachment, Becomes, world
<1>6. Sound(d) /\ d.reg = b.eng /\ d.eng = b.eng /\ d.att = b.att /\ d.selected = b.selected
  BY <1>4, <1>5, PublishedIsSound
<1>7. ctrl' = d
  BY <1>5, <1>6, BecomesIs DEF Sound
<1> QED
  BY <1>1, <1>2, <1>3, <1>5, <1>6, <1>7

\* A new process: what an intact file holds is known again.
LEMMA RestartLeaves ==
    ASSUME RegistryInv, NEW torn \in BOOLEAN, NEW spawned \in BOOLEAN, NEW ses \in Session,
           Restart(torn, spawned, ses)
    PROVE  \E d : /\ Sound(d) /\ d.reg = d.eng /\ ctrl' = d /\ config' = config
                  /\ ~torn => DOMAIN eng \subseteq DOMAIN d.eng
<1> PICK file : file = IF torn THEN <<>> ELSE reg
  OBVIOUS
<1> PICK store : store = IF spawned THEN stale_rehydrated(file) ELSE file
  OBVIOUS
<1>1. Store(reg) /\ DOMAIN eng \subseteq DOMAIN reg /\ config \subseteq Remotes
  BY CtrlFields DEF RegistryInv, Sound
<1>2. Store(file) /\ (~torn => file = reg)
  BY <1>1 DEF Store
<1>3. DOMAIN store = DOMAIN file /\ Store(store)
  <2>1. CASE ~spawned
    BY <1>2, <2>1
  <2>2. CASE spawned
    <3>1. store = stale_rehydrated(file)
      BY <2>2
    <3>2. /\ DOMAIN store = DOMAIN file
          /\ \A i \in DOMAIN file : "owner" \in DOMAIN file[i]
                 => "owner" \in DOMAIN store[i] /\ store[i].owner = file[i].owner
      BY <3>1 DEF stale_rehydrated
    <3> QED
      BY <1>2, <3>2 DEF Store
  <2> QED
    BY <2>1, <2>2
<1> PICK loaded : loaded = [reg |-> store, eng |-> <<>>, att |-> <<>>, selected |-> LocalShell]
  OBVIOUS
<1>4. loaded.reg = store
  OBVIOUS
<1>5. PICK host \in HostsFor(loaded.reg, ses) :
          Becomes(register_remote_instances(reattach_container_agents(
                    rebuild_attached_instances(loaded, host, ses))))
  BY DEF Restart
<1> PICK r : r = rebuild_attached_instances(loaded, host, ses)
  OBVIOUS
<1>6. Sound(r) /\ r.reg = r.eng /\ DOMAIN store \subseteq DOMAIN r.eng
  BY <1>3, <1>4, RebuiltIsSound
<1> PICK a : a = reattach_container_agents(r)
  OBVIOUS
<1>7. Sound(a) /\ a.reg = a.eng /\ DOMAIN r.eng \subseteq DOMAIN a.eng
  BY <1>6, ReattachedIsSound
<1>8. PICK d : /\ d = register_remote_instances(a)
               /\ reg' = d.reg /\ eng' = d.eng /\ att' = d.att /\ selected' = d.selected
  BY <1>5 DEF Becomes
<1>9. Sound(d) /\ d.reg = d.eng /\ DOMAIN a.eng \subseteq DOMAIN d.eng
  <2>1. config \in SUBSET Ids
    BY <1>1 DEF Ids
  <2> QED
    BY <1>7, <1>8, <2>1, RegisteredAndPublished DEF register_remote_instances
<1>10. ctrl' = d /\ config' = config
  BY <1>8, <1>9, BecomesIs DEF Sound, Restart, world
<1>11. ~torn => DOMAIN eng \subseteq DOMAIN d.eng
  BY <1>1, <1>2, <1>3, <1>6, <1>7, <1>9
<1> QED
  BY <1>9, <1>10, <1>11

LEMMA TimeLeaves ==
    ASSUME RegistryInv, TimePasses
    PROVE  RegistryInv' /\ DOMAIN eng' = DOMAIN eng
<1>1. ASSUME NEW store, Store(store)
      PROVE  Store(Older(store)) /\ DOMAIN Older(store) = DOMAIN store
  <2> PICK t : t = Older(store)
    OBVIOUS
  <2>1. /\ DOMAIN t = DOMAIN store
        /\ \A i \in DOMAIN store : "owner" \in DOMAIN store[i]
               => "owner" \in DOMAIN t[i] /\ t[i].owner = store[i].owner
    BY DEF Older
  <2> QED
    BY <1>1, <2>1 DEF Store
<1>2. Sound(ctrl) /\ Store(reg) /\ Store(eng) /\ Routed(att) /\ AttachedIds(att) \subseteq DOMAIN eng
  BY CtrlFields DEF RegistryInv, Sound
<1>3. PICK r, e : /\ r = Older(reg) /\ e = Older(eng)
                  /\ reg' = r /\ eng' = e /\ UNCHANGED <<att, selected, config>>
  BY DEF TimePasses, world
<1>4. Store(r) /\ Store(e) /\ DOMAIN r = DOMAIN reg /\ DOMAIN e = DOMAIN eng
  BY <1>1, <1>2, <1>3
<1> PICK d : d = [reg |-> r, eng |-> e, att |-> att, selected |-> selected]
  OBVIOUS
<1>5. Sound(d)
  BY <1>2, <1>4 DEF Sound, IsCtrl
<1>6. ctrl' = d
  BY <1>3 DEF ctrl
<1> QED
  BY <1>3, <1>4, <1>5, <1>6 DEF RegistryInv

\* A step that leaves the controller alone, but for the selection.
LEMMA QuietLeaves ==
    ASSUME RegistryInv, UNCHANGED <<reg, eng, att>>, config' \subseteq Remotes
    PROVE  RegistryInv' /\ DOMAIN eng \subseteq DOMAIN eng' \cap DOMAIN reg'
<1> PICK c : c = ctrl
  OBVIOUS
<1> PICK d : d = ctrl'
  OBVIOUS
<1>1. Sound(c) /\ d.reg = c.reg /\ d.eng = c.eng /\ d.att = c.att /\ IsCtrl(d)
  BY DEF RegistryInv, ctrl, IsCtrl
<1>2. Sound(d)
  BY <1>1 DEF Sound
<1> QED
  BY <1>2 DEF RegistryInv

-----------------------------------------------------------------------------
(* The theorems. *)

\* The operator's route is the selected one as long as it has not been missing.
ChoiceInv == /\ missed \in BOOLEAN
             /\ ~missed => selected = chosen /\ chosen \in available_command_routes(att)

\* What a step does to the services the registry knows.
KeepsServices ==
    \A i \in Detached \cap DOMAIN eng :
        i \in DOMAIN eng' \cap DOMAIN reg'
          \/ \E spawned \in BOOLEAN : Restart(TRUE, spawned, session')

LEMMA RegistryInitially == Init => RegistryInv /\ ChoiceInv
<1> SUFFICES ASSUME Init PROVE RegistryInv /\ ChoiceInv
  OBVIOUS
<1>1. Store(<<>>) /\ Routed(<<>>) /\ AttachedIds(<<>>) = {}
  BY DEF Store, Routed, Distinct, AttachedIds
<1>2. Sound(ctrl)
  BY <1>1, CtrlFields DEF Init, Sound, ctrl, IsCtrl
<1>3. ChoiceInv
  BY DEF Init, ChoiceInv, available_command_routes
<1> QED
  BY <1>2, <1>3 DEF Init, RegistryInv

\* A step that leaves a sound controller keeps the registry's invariant.
LEMMA LeftIsKept ==
    ASSUME NEW d, RegistryInv, Sound(d), DOMAIN d.eng \subseteq DOMAIN d.reg,
           ctrl' = d, config' = config
    PROVE  RegistryInv' /\ eng' = d.eng /\ reg' = d.reg
<1>1. reg' = d.reg /\ eng' = d.eng
  BY DEF ctrl
<1> QED
  BY <1>1 DEF RegistryInv

\* The selection through a step in which the operator selects nothing.
LEMMA ChoiceIsKept ==
    ASSUME ChoiceInv, NEW alive, Remember(alive),
           selected' \in {selected, selected_command_route_id(att, selected)}
    PROVE  ChoiceInv'
<1>1. selected \in available_command_routes(att) => selected_command_route_id(att, selected) = selected
  BY DEF selected_command_route_id
<1>2. missed' = (missed \/ chosen \notin available_command_routes(att')) /\ chosen' = chosen
  BY DEF Remember
<1>3. missed' \in BOOLEAN
  BY <1>2
<1>4. ~missed' => ~missed /\ chosen \in available_command_routes(att')
  BY <1>2, Zenon DEF ChoiceInv
<1> QED
  BY <1>1, <1>2, <1>3, <1>4 DEF ChoiceInv

\* Every step of the session, the loop and the clock.
LEMMA StepKeepsRegistry ==
    ASSUME RegistryInv, ChoiceInv, [Next]_vars
    PROVE  RegistryInv' /\ ChoiceInv' /\ KeepsServices
<1>1. ASSUME NEW d, Leaves(d), ctrl' = d, config' = config, NEW alive, Remember(alive)
      PROVE  RegistryInv' /\ ChoiceInv' /\ KeepsServices
  <2>1. RegistryInv' /\ eng' = d.eng /\ reg' = d.reg
    BY <1>1, LeftIsKept DEF Leaves
  <2>2. selected' = d.selected
    BY <1>1 DEF ctrl
  <2>3. ChoiceInv'
    BY <1>1, <2>2, ChoiceIsKept DEF Leaves
  <2>4. KeepsServices
    BY <1>1, <2>1 DEF Leaves, KeepsServices
  <2> QED
    BY <2>1, <2>3, <2>4
<1>2. CASE PlainTick \/ ProbeTick
  BY <1>1, <1>2, TickLeaves DEF PlainTick, ProbeTick
<1>3. CASE ReconcileTick
  BY <1>1, <1>3, ReconcileLeaves DEF ReconcileTick
<1>4. CASE ApplyProbeResults
  BY <1>1, <1>4, ProbeResultsLeave DEF ApplyProbeResults
<1>5. ASSUME NEW ses \in Session, SessionEvent(ses) \/ SessionRefresh(ses)
      PROVE  RegistryInv' /\ ChoiceInv' /\ KeepsServices
  BY <1>1, <1>5, SessionLeaves DEF SessionEvent, SessionRefresh
<1>6. ASSUME UNCHANGED <<reg, eng, att>>, config' \subseteq Remotes
      PROVE  RegistryInv' /\ KeepsServices
  BY <1>6, QuietLeaves DEF KeepsServices
<1>7. CASE probe_remote_instances
  <2>1. /\ UNCHANGED <<reg, eng, att, selected, config>>
        /\ Remember({i \in targets : health[i] = "up"})
    BY <1>7 DEF probe_remote_instances, controller, world
  <2> QED
    BY <1>6, <2>1, ChoiceIsKept DEF RegistryInv
<1>8. ASSUME NEW route \in Route, select_command_route(route)
      PROVE  RegistryInv' /\ ChoiceInv' /\ KeepsServices
  <2>1. /\ UNCHANGED <<reg, eng, att, config>> /\ route \in available_command_routes(att)
        /\ selected' = route /\ chosen' = route /\ missed' = FALSE
    BY <1>8 DEF select_command_route, world
  <2>2. ChoiceInv'
    BY <2>1 DEF ChoiceInv
  <2> QED
    BY <1>6, <2>1, <2>2 DEF RegistryInv
<1>9. ASSUME NEW i \in Locals, AttachLocal(i)
      PROVE  RegistryInv' /\ ChoiceInv' /\ KeepsServices
  <2>1. PICK d : Sound(d) /\ d.reg = d.eng /\ DOMAIN eng \subseteq DOMAIN d.eng /\ ctrl' = d
    BY <1>9, AttachLocalLeaves
  <2>2. /\ config' = config /\ selected' = InstanceRoute(i) /\ chosen' = InstanceRoute(i)
        /\ missed' = FALSE /\ InstanceRoute(i) \in AttachedRoutes(att')
    BY <1>9, AttachLocalLeaves DEF AttachLocal
  <2>3. RegistryInv' /\ eng' = d.eng /\ reg' = d.reg
    BY <2>1, <2>2, LeftIsKept
  <2>4. ChoiceInv'
    <3>1. att' # <<>>
      BY <2>2 DEF AttachedRoutes
    <3> QED
      BY <2>2, <3>1 DEF ChoiceInv, available_command_routes
  <2>5. KeepsServices
    BY <2>1, <2>3 DEF KeepsServices
  <2> QED
    BY <2>3, <2>4, <2>5
<1>10. ASSUME NEW torn \in BOOLEAN, NEW spawned \in BOOLEAN, NEW ses \in Session,
              Restart(torn, spawned, ses)
       PROVE  RegistryInv' /\ ChoiceInv' /\ KeepsServices
  <2>1. PICK d : /\ Sound(d) /\ d.reg = d.eng /\ ctrl' = d /\ config' = config
                 /\ ~torn => DOMAIN eng \subseteq DOMAIN d.eng
    BY <1>10, RestartLeaves
  <2>2. RegistryInv' /\ eng' = d.eng /\ reg' = d.reg
    BY <2>1, LeftIsKept
  <2>3. missed' = TRUE /\ session' = ses
    BY <1>10 DEF Restart
  <2>4. ChoiceInv'
    BY <2>3 DEF ChoiceInv
  <2>5. CASE ~torn
    BY <2>1, <2>2, <2>4, <2>5 DEF KeepsServices
  <2>6. CASE torn
    <3>1. torn = TRUE
      BY <2>6
    <3>2. Restart(TRUE, spawned, session')
      BY <1>10, <2>3, <3>1
    <3> QED
      BY <2>2, <2>4, <3>2 DEF KeepsServices
  <2> QED
    BY <2>5, <2>6
<1>11. CASE TimePasses
  <2>1. RegistryInv' /\ DOMAIN eng' = DOMAIN eng
    BY <1>11, TimeLeaves
  <2>2. ChoiceInv'
    BY <1>11 DEF TimePasses, history, ChoiceInv
  <2>3. DOMAIN eng' \subseteq DOMAIN reg'
    BY <2>1 DEF RegistryInv
  <2> QED
    BY <2>1, <2>2, <2>3 DEF KeepsServices
<1>12. ASSUME UNCHANGED <<controller, history>>, config' \subseteq Remotes
       PROVE  RegistryInv' /\ ChoiceInv' /\ KeepsServices
  <2>1. ChoiceInv'
    BY <1>12 DEF controller, history, ChoiceInv
  <2> QED
    BY <1>6, <1>12, <2>1 DEF controller
<1>13. ASSUME NEW i \in Probed, NEW h, HealthChanges(i, h)
       PROVE  RegistryInv' /\ ChoiceInv' /\ KeepsServices
  BY <1>12, <1>13 DEF HealthChanges, RegistryInv
<1>14. ASSUME NEW S \in SUBSET Remotes, ConfigEdited(S)
       PROVE  RegistryInv' /\ ChoiceInv' /\ KeepsServices
  BY <1>12, <1>14 DEF ConfigEdited
<1>15. CASE Calm
  BY <1>12, <1>15 DEF Calm, RegistryInv
<1>16. CASE UNCHANGED vars
  BY <1>12, <1>16 DEF vars, world, RegistryInv
<1> QED
  BY <1>2, <1>3, <1>4, <1>5, <1>7, <1>8, <1>9, <1>10, <1>11, <1>13, <1>14, <1>15, <1>16
  DEF Next, Loop

LEMMA RegistryHolds == Spec => [](RegistryInv /\ ChoiceInv)
<1>1. Init => RegistryInv /\ ChoiceInv
  BY RegistryInitially
<1>2. RegistryInv /\ ChoiceInv /\ [Next]_vars => (RegistryInv /\ ChoiceInv)'
  BY StepKeepsRegistry
<1> QED
  BY <1>1, <1>2, PTL DEF Spec

\* Every command route leads to an instance with a record in both copies of
\* the registry and is the only one to it, whatever attach, detach, purge,
\* rebuild and restart come in whatever order (attached_instance_engine,
\* controller.rs).
THEOREM RoutesLeadSomewhere == Spec => []AttachedAreKnown
<1>1. RegistryInv => AttachedAreKnown
  BY CtrlFields DEF RegistryInv, Sound, Routed, Distinct, AttachedAreKnown
<1> QED
  BY <1>1, RegistryHolds, PTL

\* The route the operator selected is the route commands take until it goes
\* missing: no rebuild of the engine replaces it (rebuild_attached_instances).
THEOREM SelectionStands == Spec => []ChoiceIsHonoured
<1>1. ChoiceInv => ChoiceIsHonoured
  BY DEF ChoiceInv, ChoiceIsHonoured, selected_command_route_id
<1> QED
  BY <1>1, RegistryHolds, PTL

\* No step but a restart on a torn file takes a detached service out of the
\* registry: a purge marks it lost, and the detach of a container finds no
\* record that a session owns (purge_stale_instances, detach_instance).
THEOREM ServicesAreKept == Spec => DetachedServicesAreKept
<1>1. RegistryInv /\ ChoiceInv /\ [Next]_vars => KeepsServices
  BY StepKeepsRegistry
<1>2. KeepsServices <=>
          \A i \in Detached \cap DOMAIN eng :
              i \in DOMAIN eng' \cap DOMAIN reg'
                \/ \E spawned \in BOOLEAN : Restart(TRUE, spawned, session')
  BY DEF KeepsServices
<1> QED
  BY <1>1, <1>2, RegistryHolds, PTL DEF Spec, DetachedServicesAreKept
=============================================================================
