--------------------------- MODULE LocalDiscovery ---------------------------
(***************************************************************************)
(* Finding Omegon runtimes of the machine and attaching to one of them     *)
(* (auspex-core/src/local_omegon_discovery.rs, the Attach cards of         *)
(* src/app.rs).  A discovery reads the pid file, then the process table,   *)
(* then probes one address after the other, while processes come and go    *)
(* and probes time out; the evidence is merged by address and then by      *)
(* identity, shown as cards, and gathered again when a card is clicked.    *)
(***************************************************************************)
EXTENDS Integers, Sequences, FiniteSets, Functions, Selections

CONSTANTS
    MaxPid,         \* pids of Omegon processes are 1..MaxPid; a pid can be used again
    MaxControlPort, \* ports are 1..MaxControlPort in their order; 1 is the default port
    MaxLocalStarts, \* process starts altogether
    MaxScans        \* discoveries altogether

ASSUME LocalDiscoveryAssumption ==
    MaxPid \in Nat /\ MaxControlPort \in Nat \ {0} /\ MaxLocalStarts \in Nat /\ MaxScans \in Nat

VARIABLES
    runtime,   \* per pid: the process; born tells the starts apart, ids may come back
    owned,     \* auspex-owned-omegon.pid, 0 for none
    scan,      \* the discovery that is under way; the UI waits for it
    cards,     \* the cards on screen
    listing,   \* what the discovery behind the cards had read, as it was read
    starts,
    scans

ldVars == <<runtime, owned, scan, cards, listing, starts, scans>>

RuntimePids == 1..MaxPid
ControlPorts == 1..MaxControlPort
DefaultControlPort == 1
Gone == [up |-> FALSE, arg |-> 0, port |-> 0, id |-> 0, born |-> 0, ours |-> FALSE]
PidsListening(port) == {p \in RuntimePids : runtime[p].up /\ runtime[p].port = port}

----------------------------------------------------------------------------
\* LocalOmegonCandidate: 0 stands for a field without evidence; url is the address of both
\* the startup and the state endpoint.
Candidate(own, pid, url) == [own |-> own, pid |-> pid, url |-> url, id |-> 0]

\* strongest_ownership over all the evidence that was merged.
strongest_ownership(owns) ==
    IF "AuspexOwned" \in owns THEN "AuspexOwned"
    ELSE IF "UserOwned" \in owns THEN "UserOwned" ELSE "Unknown"

FirstKnown(values) ==
    LET known == {i \in DOMAIN values : values[i] # 0}
    IN  IF known = {} THEN 0 ELSE values[First(known)]

\* merge_candidate, one after the other, of the candidates at some places: the strongest
\* ownership, and the first evidence of everything else.
merge_candidates(cs, g) ==
    [own |-> strongest_ownership({cs[i].own : i \in g}),
     pid |-> FirstKnown([i \in g |-> cs[i].pid]),
     url |-> FirstKnown([i \in g |-> cs[i].url]),
     id  |-> FirstKnown([i \in g |-> cs[i].id])]

\* A key is a string; here it is its place among them all: instances, pids, addresses.
candidate_evidence_key(c) ==
    IF c.url # 0 THEN MaxLocalStarts + MaxPid + c.url ELSE MaxLocalStarts + c.pid
candidate_identity_key(c) == IF c.id # 0 THEN c.id ELSE candidate_evidence_key(c)
MergeKeys == 1..(MaxLocalStarts + MaxPid + MaxControlPort)

\* A BTreeMap filled with entry().and_modify().or_insert(): one candidate per key, merged
\* in the order they came, listed in the order of the keys.
MergedBy(key, cs) ==
    LET keys == SelectAt([k \in MergeKeys |-> k], Range(key))
    IN  [n \in 1..Len(keys) |-> merge_candidates(cs, {i \in DOMAIN cs : key[i] = keys[n]})]

merge_local_omegon_candidates(cs) ==
    LET by_evidence == MergedBy([i \in DOMAIN cs |-> candidate_evidence_key(cs[i])], cs)
    IN  MergedBy([i \in DOMAIN by_evidence |-> candidate_identity_key(by_evidence[i])], by_evidence)

\* discover_owned_pid_candidate: whatever the pid file names.
OwnedPidCandidates(pid) == IF pid = 0 THEN <<>> ELSE <<Candidate("AuspexOwned", pid, 0)>>

\* discover_process_table_candidates and upgrade_owned_pid_candidates: a ps that fails lists
\* nothing; the address comes from --control-port, if there is one.
ProcessCandidates(pid, worked) ==
    LET up == SelectAt([p \in RuntimePids |-> p], {p \in RuntimePids : worked /\ runtime[p].up})
    IN  [i \in DOMAIN up |->
            Candidate(IF up[i] = pid THEN "AuspexOwned" ELSE "UserOwned", up[i], runtime[up[i]].arg)]

discover_known_control_port_candidates(ports) ==
    LET sorted == SelectAt([q \in ControlPorts |-> q], ports)
    IN  [i \in DOMAIN sorted |-> Candidate("Unknown", 0, sorted[i])]

discover_local_omegon_candidates(pid, worked) ==
    merge_local_omegon_candidates(
        OwnedPidCandidates(pid) \o ProcessCandidates(pid, worked)
        \o discover_known_control_port_candidates({DefaultControlPort}))

\* Mutant: only the default port is looked at.
ScanDefaultOnly == {DefaultControlPort}

\* default_detect_scan_ports: the default, the fallback and the agent range.
default_detect_scan_ports == ControlPorts

\* discover_attach_candidates; a candidate without an address is left out of what is probed.
discover_attach_candidates(pid, worked) ==
    LET found == merge_local_omegon_candidates(
                    discover_local_omegon_candidates(pid, worked)
                    \o discover_known_control_port_candidates(default_detect_scan_ports))
    IN  SelectAt(found, {i \in DOMAIN found : found[i].url # 0})

\* probe_candidate_instance_id: the identity of whoever listens there now, and none when
\* nobody does, the request times out, is refused, or the answer has no descriptor.
ProbedAt(port, answers) ==
    IF answers /\ PidsListening(port) # {}
    THEN runtime[CHOOSE p \in PidsListening(port) : TRUE].id ELSE 0

----------------------------------------------------------------------------
NoCard == Candidate("Unknown", 0, 0)
NothingRead == [began |-> 0, pid |-> 0, reused |-> FALSE, silent |-> {}]

\* attached is the identity a click ended with, 0 for none.
NoScan == [phase |-> "idle", for |-> NoCard, read |-> NothingRead, list |-> <<>>, probed |-> 0, attached |-> 0]

LdInit ==
    /\ runtime = [p \in RuntimePids |-> Gone]
    /\ owned = 0 /\ starts = 0 /\ scans = 0
    /\ scan = NoScan /\ cards = <<>> /\ listing = NothingRead

\* A runtime starts on a free port: one of Auspex's, recorded and with its port in its
\* command line, or another, with or without it; in a container the port of the command
\* line is the default one, and the port of the host a different one.  Its identity is new
\* or that of an instance that ended.
StartsRuntime(p, port, arg, id, ours) ==
    /\ ~runtime[p].up /\ PidsListening(port) = {} /\ starts < MaxLocalStarts
    /\ id <= starts + 1 /\ \A q \in RuntimePids : runtime[q].id # id
    /\ ours => arg = port
    /\ arg = 0 => port = DefaultControlPort
    /\ starts' = starts + 1
    /\ runtime' = [runtime EXCEPT ![p] = [up |-> TRUE, arg |-> arg, port |-> port, id |-> id,
                                          born |-> starts + 1, ours |-> ours]]
    /\ owned' = IF ours THEN p ELSE owned
    /\ UNCHANGED <<scan, cards, listing, scans>>

\* A runtime ends; the exit reaper of Auspex may have removed the pid file.
StopsRuntime(p, cleared) ==
    /\ runtime[p].up /\ (cleared => owned = p)
    /\ runtime' = [runtime EXCEPT ![p] = Gone]
    /\ owned' = IF cleared THEN 0 ELSE owned
    /\ UNCHANGED <<scan, cards, listing, starts, scans>>

\* Mutant: a click gathers nothing again, and goes on with the card that is first by then.
StartWithFirst(for) ==
    /\ scan.phase = "idle" /\ scans < MaxScans
    /\ scans' = scans + 1
    /\ scan' = IF for = NoCard
               THEN [NoScan EXCEPT !.phase = "ps",
                                   !.read = [NothingRead EXCEPT !.began = starts, !.pid = owned]]
               ELSE [NoScan EXCEPT !.phase = "attach", !.for = for, !.list = <<cards[1]>>]
    /\ UNCHANGED <<runtime, owned, cards, listing, starts>>

\* The Add Agent drawer opens or its list is refreshed (NoCard), or a card is clicked: the
\* handler runs a discovery, which reads the pid file first.
StartDiscovery(for) ==
    /\ scan.phase = "idle" /\ scans < MaxScans
    /\ scans' = scans + 1
    /\ scan' = [NoScan EXCEPT !.phase = "ps", !.for = for,
                            !.read = [NothingRead EXCEPT !.began = starts, !.pid = owned]]
    /\ UNCHANGED <<runtime, owned, cards, listing, starts>>

\* ps is run.  What is remembered of the pid that was read: the process of Auspex's that ps
\* lists under it, if any, or that it is a process of the user's by now (reused).
ReadProcesses(worked) ==
    LET pid == scan.read.pid
        listed == worked /\ pid # 0 /\ runtime[pid].up
    IN  /\ scan.phase = "ps"
        /\ scan' = [scan EXCEPT !.phase = "probe", !.list = discover_attach_candidates(pid, worked),
                       !.read.pid = IF listed /\ runtime[pid].ours THEN pid ELSE 0,
                       !.read.reused = listed /\ ~runtime[pid].ours]
        /\ UNCHANGED <<runtime, owned, cards, listing, starts, scans>>

\* enrich_candidate_with_instance_id of the next candidate; one that listens may not answer.
ProbeNext(answers) ==
    LET i == scan.probed + 1
        port == scan.list[i].url
    IN  /\ scan.phase = "probe" /\ i \in DOMAIN scan.list
        /\ answers \/ PidsListening(port) # {}
        /\ scan' = [scan EXCEPT !.probed = i, !.list[i].id = ProbedAt(port, answers),
                       !.read.silent = IF answers THEN scan.read.silent ELSE scan.read.silent \cup {port}]
        /\ UNCHANGED <<runtime, owned, cards, listing, starts, scans>>

AllProbed == scan.phase = "probe" /\ scan.probed = Len(scan.list)

\* discover_enriched_attach_candidates returns, and local_runtime_candidate_models shows it.
ShowCards ==
    /\ AllProbed /\ scan.for = NoCard
    /\ cards' = merge_local_omegon_candidates(scan.list)
    /\ listing' = scan.read
    /\ scan' = NoScan
    /\ UNCHANGED <<runtime, owned, starts, scans>>

\* What the click goes on with: the first candidate with the identity or the address of the
\* card, if there still is one ("Detected runtime disappeared before attach.").
FoundAgain(card, again) ==
    LET found == {i \in DOMAIN again : (card.id # 0 /\ again[i].id = card.id) \/ again[i].url = card.url}
    IN  IF found = {} THEN <<>> ELSE <<again[First(found)]>>

FindCard ==
    /\ AllProbed /\ scan.for # NoCard
    /\ LET found == FoundAgain(scan.for, merge_local_omegon_candidates(scan.list))
       IN  scan' = IF found = <<>> THEN NoScan
                   ELSE [NoScan EXCEPT !.phase = "attach", !.for = scan.for, !.list = found]
    /\ UNCHANGED <<runtime, owned, cards, listing, starts, scans>>

\* attach_local_omegon_candidate: one more probe of the address, and whoever answers it is
\* attached.
Attach(answers) ==
    /\ scan.phase = "attach"
    /\ scan' = [NoScan EXCEPT !.attached = ProbedAt(scan.list[1].url, answers)]
    /\ UNCHANGED <<runtime, owned, cards, listing, starts, scans>>

LdNext ==
    \/ \E p \in RuntimePids, port \in ControlPorts, arg \in {0} \cup ControlPorts,
          id \in 1..MaxLocalStarts, ours \in BOOLEAN :
          arg \in {0, port, DefaultControlPort} /\ StartsRuntime(p, port, arg, id, ours)
    \/ \E p \in RuntimePids, cleared \in BOOLEAN : StopsRuntime(p, cleared)
    \/ StartDiscovery(NoCard) \/ \E i \in DOMAIN cards : StartDiscovery(cards[i])
    \/ \E worked \in BOOLEAN : ReadProcesses(worked)
    \/ \E answers \in BOOLEAN : ProbeNext(answers) \/ Attach(answers)
    \/ ShowCards \/ FindCard

LdSpec == LdInit /\ [][LdNext]_ldVars

----------------------------------------------------------------------------
\* The state is well formed, and every card has an address.
LdTypeOK ==
    /\ \A p \in RuntimePids : runtime[p].port \in {0} \cup ControlPorts /\ runtime[p].id \in 0..MaxLocalStarts
    /\ owned \in {0} \cup RuntimePids
    /\ \A i \in DOMAIN cards : cards[i].url \in ControlPorts /\ cards[i].pid \in {0} \cup RuntimePids
    /\ scan.phase \in {"idle", "ps", "probe", "attach"} /\ scan.probed \in 0..Len(scan.list)
    /\ scan.attached \in 0..MaxLocalStarts /\ starts \in 0..MaxLocalStarts /\ scans \in 0..MaxScans

\* Up since before a discovery began; on screen when it was what the cards came from.
SteadySince(read, p) == runtime[p].up /\ runtime[p].born <= read.began
CardsAt(port) == {i \in DOMAIN cards : cards[i].url = port}

\* A runtime that has been up since before the list was gathered has one card at its
\* address, and no other card has its identity, whatever started, ended or moved to another
\* port between the sources; the card has that identity unless its probe had no answer.
OneCardPerRuntime ==
    \A p \in RuntimePids : SteadySince(listing, p) =>
        \E i \in DOMAIN cards :
            /\ CardsAt(runtime[p].port) = {i}
            /\ cards[i].id = IF runtime[p].port \in listing.silent THEN 0 ELSE runtime[p].id
            /\ \A j \in DOMAIN cards : cards[j].id = runtime[p].id => j = i

\* Its card is AuspexOwned exactly when it is the process of Auspex's that the pid file named
\* when it was read and that ps listed, unless the pid that was read was a process of the
\* user's when ps was run; without ps no card is (strongest_ownership).
OwnedIsOurs ==
    \A p \in RuntimePids, i \in DOMAIN cards :
        /\ SteadySince(listing, p) /\ ~listing.reused
        /\ cards[i].url = runtime[p].port
        => (cards[i].own = "AuspexOwned" <=> listing.pid = p)

\* What is shown of a runtime that has been up since before the discovery is right, and one
\* identity has one card, although pid file, process list and probes were read one after the
\* other, with processes coming, going and reusing pids in between and probes left without
\* an answer (discover_enriched_attach_candidates).
CardsAreTheRuntimes ==
    /\ OneCardPerRuntime /\ OwnedIsOurs
    /\ \A i, j \in DOMAIN cards : cards[i].id # 0 /\ cards[i].id = cards[j].id => i = j

\* A click on the card of a runtime that has been up since the cards were gathered attaches
\* that runtime or nothing, although the click gathers everything again and probes once more
\* (attach_local_omegon_candidate).
ClickedIsAttached ==
    [][\A p \in RuntimePids :
          /\ scan.phase = "attach" /\ scan'.attached # 0
          /\ SteadySince(listing, p) /\ scan.for.url = runtime[p].port
          => scan'.attached = runtime[p].id]_ldVars

\* Expected to fail.  The ownership without the proviso: the pid file outlives its process,
\* and the next process with that pid counts as Auspex's ("Auspex spawned this runtime and
\* recorded the PID").
RecordedPidIsOurs ==
    \A p \in RuntimePids, i \in DOMAIN cards :
        /\ SteadySince(listing, p)
        /\ cards[i].url = runtime[p].port /\ cards[i].own = "AuspexOwned"
        => runtime[p].ours

\* Expected to fail.  Clicking a card attaches the instance the card named, or none
\* ("Detected runtime disappeared before attach."): the same address is enough.
ClickAttachesTheCard ==
    [][scan.phase = "attach" /\ scan'.attached # 0 /\ scan.for.id # 0
       => scan'.attached = scan.for.id]_ldVars
=============================================================================
