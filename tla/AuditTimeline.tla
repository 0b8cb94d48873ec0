---------------------------- MODULE AuditTimeline ----------------------------
(***************************************************************************)
(* The audit ledger of auspex-core/src/audit_timeline.rs: a list of        *)
(* entries, each with an id, of which an entry is appended once.  What a   *)
(* block says is carried as it is; labels and the JSON of the file are     *)
(* left out.                                                               *)
(***************************************************************************)
EXTENDS Integers, Sequences, FiniteSets

\* An empty store: no entries, and no ids seen.
EmptyStore == [entries |-> <<>>, seen |-> {}]

\* The id of a block is made of the session's key, the turn's number and the
\* block's place in the turn.
BlockId(key, turn, i) == [key |-> key, turn |-> turn, part |-> "block", index |-> i]

BlockEntry(key, turn, i, block) == [id |-> BlockId(key, turn, i), content |-> block]

\* One entry stands for the entries of one telemetry change, which differ in
\* their names only.
TelemetryEntry(key, sequence, telemetry) ==
    [id |-> [key |-> key, turn |-> 0, part |-> "telemetry", index |-> sequence],
     content |-> telemetry]

\* An entry whose id was seen is dropped, whatever it says: the entry that is there stays as it is.
append_entry(store, entry) ==
    IF entry.id \in store.seen THEN store
    ELSE [entries |-> Append(store.entries, entry), seen |-> store.seen \union {entry.id}]

append_all(store, entries) ==
    LET upTo[n \in 0..Len(entries)] ==
            IF n = 0 THEN store ELSE append_entry(upTo[n - 1], entries[n])
    IN  upTo[Len(entries)]

BlockEntries(key, turn) ==
    [i \in 1..Len(turn.blocks) |-> BlockEntry(key, turn.number, i, turn.blocks[i])]

\* Every block of every turn, in order: what is appended is what the new blocks say now.
append_transcript_snapshot(store, key, turns) ==
    LET upTo[t \in 0..Len(turns)] ==
            IF t = 0 THEN store ELSE append_all(upTo[t - 1], BlockEntries(key, turns[t]))
    IN  upTo[Len(turns)]

\* The file holds the entries only; what was seen is made from them.
load_or_default(entries) ==
    [entries |-> entries, seen |-> {entries[i].id : i \in DOMAIN entries}]
==============================================================================
