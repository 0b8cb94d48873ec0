----------------------------- MODULE CopSurface -----------------------------
(***************************************************************************)
(* The common operating picture (auspex-core/src/cop_surface.rs,           *)
(* cop_feature.rs, the COP screen of src/app.rs): one display whose        *)
(* regions are written by the tool calls of the primary agent, as their    *)
(* start events pass the controller, and by three projections of the       *)
(* controller itself, each of which also sets the layout.                  *)
(***************************************************************************)
EXTENDS Integers, Sequences, FiniteSets, SequencesExt

CONSTANTS
    AlertLimit,    \* MAX_ALERT_FEED_ENTRIES
    Batch,         \* alerts one call may bring
    MaxAlerts,     \* alerts altogether
    MaxWrites,     \* cop_write calls altogether
    MaxViews       \* projections altogether

ASSUME CopAssumption == AlertLimit \in Nat /\ Batch \in Nat

VARIABLES
    regions,    \* CopDisplayState::regions
    write_seq,
    layout,     \* active_regions and, for the properties, the projection that set it, 0 for the agent
    log,        \* for the properties: per region, the alerts its feed was sent since it became one
    alerts,     \* alerts written so far
    toolCalls,
    views

copVars == <<regions, write_seq, layout, log, alerts, toolCalls, views>>

\* CopRegion: the five of the segmenta layout, and a named one.
default_segmenta_regions == {"north", "west", "center", "east", "south"}
CopRegion == default_segmenta_regions \cup {"named"}
ContentType == {"table", "status_card", "alert_feed", "kv_grid", "text_block", "code_block", "metric"}

\* The data of a write, as far as the feed looks at it: an object with items, a bare array,
\* or neither.
Shapes == {"items", "array", "other"}

\* RegionContent; view is the projection that wrote it, 0 for the agent.
Vacant == [type |-> "none", shape |-> "other", items |-> <<>>, seq |-> 0, view |-> 0]
Content(type, shape, items, view) ==
    [type |-> type, shape |-> shape, items |-> items, seq |-> 0, view |-> view]

is_append_mode(type) == type = "alert_feed"

\* extend and drain: the newest AlertLimit entries stay.
Drained(items) ==
    IF Len(items) > AlertLimit THEN SubSeq(items, Len(items) - AlertLimit + 1, Len(items)) ELSE items

\* An alert feed written over an alert feed: both with items are joined; items over anything
\* else replace it; anything else changes nothing but the number of the write.
Appended(old, new) ==
    IF new.shape = "other" THEN old
    ELSE IF old.shape = "items" THEN [old EXCEPT !.items = Drained(@ \o new.items)]
    ELSE [old EXCEPT !.shape = "items", !.items = new.items]

\* CopDisplayState::write, with the number it gets.
write(rs, n, r, new) ==
    IF is_append_mode(new.type) /\ rs[r].type = new.type
    THEN [rs EXCEPT ![r] = [Appended(rs[r], new) EXCEPT !.seq = n]]
    ELSE [rs EXCEPT ![r] = [new EXCEPT !.seq = n]]

----------------------------------------------------------------------------
CopInit ==
    /\ regions = [r \in CopRegion |-> Vacant]
    /\ write_seq = 0
    /\ layout = [of |-> {}, view |-> 0]
    /\ log = [r \in CopRegion |-> <<>>]
    /\ alerts = 0 /\ toolCalls = 0 /\ views = 0

\* apply_cop_write: a content type nobody knows is left alone; the tool has answered ok
\* already (CopFeature::execute).
cop_write(r, type, shape, k) ==
    LET new == Content(type, shape, [i \in 1..k |-> alerts + i], 0)
    IN  /\ toolCalls < MaxWrites /\ toolCalls' = toolCalls + 1
        /\ alerts + k <= MaxAlerts /\ (k > 0 => type = "alert_feed" /\ shape # "other")
        /\ regions' = write(regions, write_seq + 1, r, new)
        /\ write_seq' = write_seq + 1
        /\ alerts' = alerts + k
        /\ log' = [log EXCEPT ![r] = IF type # "alert_feed" THEN <<>>
                                     ELSE IF regions[r].type # "alert_feed" THEN new.items
                                     ELSE @ \o new.items]
        /\ UNCHANGED <<layout, views>>

\* apply_cop_clear, of one region or of all.
cop_clear(rs) ==
    /\ toolCalls < MaxWrites /\ toolCalls' = toolCalls + 1
    /\ regions' = [r \in CopRegion |-> IF r \in rs THEN Vacant ELSE regions[r]]
    /\ log' = [r \in CopRegion |-> IF r \in rs THEN <<>> ELSE log[r]]
    /\ UNCHANGED <<write_seq, layout, alerts, views>>

\* apply_cop_layout
cop_layout(rs) ==
    /\ toolCalls < MaxWrites /\ toolCalls' = toolCalls + 1
    /\ layout' = [of |-> rs, view |-> 0]
    /\ UNCHANGED <<regions, write_seq, log, alerts, views>>

\* A projection: the layout, then its regions one after the other, each with the next number.
Project(types, order) ==
    LET number(r) == write_seq + CHOOSE i \in DOMAIN order : order[i] = r
        new(r) == Content(types[r], "other", <<>>, views + 1)
    IN  /\ views < MaxViews /\ views' = views + 1
        /\ regions' = [r \in CopRegion |-> IF r \in ToSet(order) THEN write(regions, number(r), r, new(r))[r]
                                           ELSE regions[r]]
        /\ write_seq' = write_seq + Len(order)
        /\ log' = [r \in CopRegion |-> IF r \in ToSet(order) THEN <<>> ELSE log[r]]
        /\ UNCHANGED <<alerts, toolCalls>>

FleetTypes == [r \in CopRegion |-> CASE r = "north" -> "status_card" [] r = "center" -> "table"
                                     [] r = "east" -> "kv_grid" [] OTHER -> "text_block"]

apply_gateway_fleet_projection ==
    /\ Project(FleetTypes, <<"north", "center", "east", "south">>)
    /\ layout' = [of |-> {"north", "center", "east", "south"}, view |-> views + 1]

\* Mutant: the discovery leaves the layout alone.
discovery_without_layout ==
    /\ Project(FleetTypes, <<"north", "center", "east">>)
    /\ layout' = [layout EXCEPT !.view = IF layout.of = {} THEN 0 ELSE views + 1]

\* discover_local_omegon_to_cop: the south region keeps what it has, out of sight.
apply_local_omegon_discovery_with_policy ==
    /\ Project(FleetTypes, <<"north", "center", "east">>)
    /\ layout' = [of |-> {"north", "center", "east"}, view |-> views + 1]

\* attach_local_omegon_candidate shows the probe: the fleet of the runtime if it was attached,
\* the evidence otherwise, in the same regions.
apply_local_omegon_probe_result ==
    /\ Project(FleetTypes, <<"north", "center", "east", "south">>)
    /\ layout' = [of |-> {"north", "center", "east", "south"}, view |-> views + 1]

\* The controller is replaced when an Omegon was started or attached: a new display.
NewController ==
    /\ write_seq > 0
    /\ regions' = [r \in CopRegion |-> Vacant]
    /\ write_seq' = 0
    /\ layout' = [of |-> {}, view |-> 0]
    /\ log' = [r \in CopRegion |-> <<>>]
    /\ UNCHANGED <<alerts, toolCalls, views>>

CopNext ==
    \/ \E r \in {"center", "south"}, type \in {"alert_feed", "table"}, shape \in Shapes, k \in 0..Batch :
          cop_write(r, type, shape, k)
    \/ \E rs \in {CopRegion, {"center"}, {"south"}} : cop_clear(rs)
    \/ \E rs \in {{}, {"center", "named"}, {"center", "south"}} : cop_layout(rs)
    \/ apply_gateway_fleet_projection \/ apply_local_omegon_discovery_with_policy
    \/ apply_local_omegon_probe_result \/ NewController

CopSpec == CopInit /\ [][CopNext]_copVars

----------------------------------------------------------------------------
\* render_cop_surface: the regions of the layout, or all five.
render_cop_surface == IF layout.of = {} THEN default_segmenta_regions ELSE layout.of

\* The state is well formed; every content has a write of its own.
CopTypeOK ==
    /\ \A r \in CopRegion : /\ regions[r].type \in ContentType \cup {"none"}
                            /\ regions[r].seq \in 0..write_seq
                            /\ regions[r].type # "none" => regions[r].seq > 0
    /\ \A r, q \in CopRegion : r # q /\ regions[r].seq > 0 => regions[r].seq # regions[q].seq
    /\ layout.of \subseteq CopRegion

\* An alert feed with items shows the newest alerts it was sent, in their order and without
\* a gap: appending drops the oldest first, and nothing of an earlier content of the region
\* comes back.
FeedIsTheTail ==
    \A r \in CopRegion : regions[r].type = "alert_feed" /\ regions[r].shape = "items" =>
        IsSuffix(regions[r].items, log[r])

\* As long as the layout is the one a projection set, the regions on screen show nothing of an
\* earlier projection: each projection writes every region it puts into the layout, also when
\* projections of different sizes follow one another.
OneProjectionOnScreen ==
    layout.view > 0 => \A r \in render_cop_surface : regions[r].view \in {0, layout.view}

\* Expected to fail.  "Maximum number of alert-feed entries retained per region": the first
\* write of a feed, and one over a bare array, are not cut.
FeedIsBounded ==
    \A r \in CopRegion : regions[r].type = "alert_feed" => Len(regions[r].items) <= AlertLimit

\* Expected to fail.  "new data is appended to existing entries (up to
\* `MAX_ALERT_FEED_ENTRIES`)": a feed begun with a bare array loses its entries at the next
\* write.
FeedKeepsEntries ==
    \A r \in CopRegion : regions[r].type = "alert_feed" /\ Len(log[r]) <= AlertLimit =>
        regions[r].items = log[r]

\* The COP shows one projection at a time and the newest alerts of each feed, whatever
\* projections, writes and drains follow one another.
CopIsCurrent == FeedIsTheTail /\ OneProjectionOnScreen
=============================================================================
