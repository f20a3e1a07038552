------------------------- MODULE NetworkResilience -------------------------
(***************************************************************************)
(* Direct Connect: the topology is fetched region by region, every gateway *)
(* is assessed on the circuits that feed it, and what is recommended is    *)
(* built (src/src/lambda/mcp/network-resilience).                          *)
(***************************************************************************)
EXTENDS Naturals, FiniteSets, Sequences, SequencesExt

CONSTANTS
    Circuits,       \* a sequence: location, device (its location and a number), region
                    \* and whether AWS tells the device
    Gateway,
    Associated,     \* of every gateway: the regions of what it is associated with
    Hosted,         \* circuits of another account, known by their VIFs only
    Site,           \* of every gateway: the location its second one would be
    Home,           \* the region discovery starts from
    MaxDown, MaxErrors, MaxBuilds, None

VARIABLES world, answer

Max2(m, n) == IF m > n THEN m ELSE n
Target == {"high", "maximum"}
NoAnswer == [tool |-> "none"]

\* world.vifs: which gateway has a VIF on which circuit; promised: the level
\* that was to be reached by what was built.
Init ==
    /\ \E vifs \in SUBSET (Gateway \X DOMAIN Circuits) :
        world = [circuits |-> Circuits, vifs |-> vifs, vifDown |-> {}, lineDown |-> {},
                 builds |-> 0, promised |-> [g \in Gateway |-> None]]
    /\ answer = NoAnswer

At(c) == world.circuits[c].at

-----------------------------------------------------------------------------
(* fetch_all_topology_data.  failed: the calls that raised; each has its   *)
(* line in fetchErrors and yields an empty list.                           *)

Global == "all regions"
Call == {Global} \X {"gateways", "associations"} \cup
        ({Home} \cup UNION {Associated[g] : g \in Gateway}) \X {"connections", "vifs"}

Known(failed) == IF <<Global, "gateways">> \in failed THEN {} ELSE Gateway

Searched(failed) ==
    {Home} \cup IF <<Global, "associations">> \in failed THEN {}
                ELSE UNION {Associated[g] : g \in Known(failed)}

Read(kind, failed) == {region \in Searched(failed) : <<region, kind>> \notin failed}

Vifs(failed) ==
    LET read == Read("vifs", failed) IN
    {v \in world.vifs : world.circuits[v[2]].region \in read}

Owned(failed) ==
    LET read == Read("connections", failed) IN
    {c \in DOMAIN world.circuits \ Hosted : world.circuits[c].region \in read}

\* A VIF whose connection is not listed has one made up for it, and that is
\* available.
Connections(failed) == Owned(failed) \cup {v[2] : v \in Vifs(failed)}

-----------------------------------------------------------------------------
(* The assessment *)

\* Mistake: every connection is a device.
DeviceByConnection(c) == <<At(c), c, 0>>

\* The key of get_location_device_counts: the connection where AWS does not
\* tell the device.
Device(c) == IF world.circuits[c].told THEN world.circuits[c].on ELSE <<At(c), c, 0>>

Locations(S) == {At(c) : c \in S}
DevicesAt(S, l) == Cardinality({Device(c) : c \in {c \in S : At(c) = l}})
AllMulti(S) == \A l \in Locations(S) : DevicesAt(S, l) >= 2

\* _determine_resiliency_level
Level(S) ==
    CASE Locations(S) = {} -> "none"
      [] Cardinality(Locations(S)) = 1 -> "devtest"
      [] Cardinality(Locations(S)) > 1 -> IF AllMulti(S) THEN "maximum" ELSE "high"

\* Auto-escalation: a gateway that is high is assessed for maximum.
Effective(level, target) == IF level \in {"high", "maximum"} THEN "maximum" ELSE target

\* _build_dxgw_scope
Scope(g, failed) == {v[2] : v \in {v \in Vifs(failed) : v[1] = g}}

\* rule_single_dx_location
SecondSite(g, S, target) ==
    IF Cardinality(Locations(S)) = 1
    THEN {<<Site[g], i>> : i \in IF target = "maximum" THEN {1, 2} ELSE {1}}
    ELSE {}

\* rule_single_connection_per_location
SecondDevices(S, target) ==
    IF target = "high" THEN {} ELSE {<<l, 3>> : l \in {l \in Locations(S) : DevicesAt(S, l) < 2}}

\* rule_vif_down, rule_connection_not_available
Critical(g, failed) ==
    \/ \E v \in Vifs(failed) \cap world.vifDown : v[1] = g
    \/ Scope(g, failed) \cap Owned(failed) \cap world.lineDown # {}

\* analyze_topology
Assess(target, failed) ==
    /\ answer' = LET level == [g \in Known(failed) |-> Level(Scope(g, failed))]
                     goal == [g \in Known(failed) |-> Effective(level[g], target)]
                 IN  [tool |-> "assessment", errors |-> failed, level |-> level, target |-> goal,
                      critical |-> {g \in Known(failed) : Critical(g, failed)},
                      ghosts |-> [g \in Known(failed) |->
                            SecondSite(g, Scope(g, failed), goal[g])
                              \cup SecondDevices(Scope(g, failed), goal[g])]]
    /\ UNCHANGED world

\* _handle_estimate_upgrade_cost, of a region that is named or inferred.
Estimate(target, failed) ==
    LET S == Connections(failed)
        n == Cardinality(Locations(S))
        devices == Cardinality({Device(c) : c \in S})
        wanted == IF target = "high" THEN Max2(2, n) ELSE 2 * Max2(2, n)
        present == IF target = "high" THEN n ELSE devices
    IN  /\ answer' = [tool |-> "cost", target |-> target, of |-> S, level |-> Level(S),
                      more |-> IF wanted > present THEN wanted - present ELSE 0]
        /\ UNCHANGED world

-----------------------------------------------------------------------------
(* What happens around the tool *)

\* What a complete assessment shows for a gateway is built: a circuit on a
\* device of its own for every ghost, with a VIF.
Build(g) ==
    /\ answer.tool = "assessment" /\ answer.errors = {} /\ answer.ghosts[g] # {}
    /\ world.builds < MaxBuilds
    /\ LET n == Len(world.circuits)
           Line(ghost) == [at |-> ghost[1], on |-> <<ghost[1], n, ghost[2]>>, region |-> Home,
                           told |-> TRUE]
           new == SetToSeq({Line(ghost) : ghost \in answer.ghosts[g]})
       IN  world' = [world EXCEPT
                !.circuits = @ \o new,
                !.vifs = @ \cup ({g} \X ((n + 1)..(n + Len(new)))),
                !.builds = @ + 1,
                !.promised[g] = answer.target[g]]
    /\ answer' = NoAnswer

\* The state of a hosted connection shows on its VIFs only.
Break(vifs, lines) ==
    /\ Cardinality(world.vifDown) + Cardinality(world.lineDown) < MaxDown
    /\ world' = [world EXCEPT !.vifDown = @ \cup vifs, !.lineDown = @ \cup lines]
    /\ UNCHANGED answer

Next ==
    \/ /\ answer = NoAnswer
       /\ \/ \E v \in world.vifs : Break({v}, {})
          \/ \E c \in DOMAIN world.circuits \ Hosted : Break({}, {c})
          \/ \E target \in Target, failed \in {{}} \cup {{call} : call \in Call} :
                /\ Cardinality(failed) <= MaxErrors
                /\ Assess(target, failed) \/ Estimate(target, failed)
    \/ \E g \in Gateway : Build(g)

Spec == Init /\ [][Next]_<<world, answer>>

-----------------------------------------------------------------------------
Carries(v) == v \notin world.vifDown /\ v[2] \notin world.lineDown
Feeding(g) == {v \in world.vifs : v[1] = g}
Told(g) == \A v \in Feeding(g) : world.circuits[v[2]].told
Rank(level) == CASE level = "none" -> 0 [] level = "devtest" -> 1
                 [] level = "high" -> 2 [] level = "maximum" -> 3
Boxes(S, l) == Cardinality({world.circuits[c].on : c \in {c \in S : At(c) = l}})
Gap(S) == 2 * (IF Cardinality(Locations(S)) < 2 THEN 2 - Cardinality(Locations(S)) ELSE 0)
            + Cardinality({l \in Locations(S) : Boxes(S, l) = 1})

\* A gateway that is said to be at maximum without a critical finding stays
\* connected when any one location and any one device elsewhere are lost; what
\* is down on a gateway in a region that was searched is a critical finding;
\* who builds what is recommended reaches the level it was recommended for; and
\* the estimate counts the connections that are missing, where no location has
\* more devices than it needs.
ResilienceHolds ==
    /\ answer.tool = "assessment" /\ answer.errors = {} =>
        \A g \in Gateway :
            /\ answer.level[g] = "maximum" /\ g \notin answer.critical /\ Told(g) =>
                  \A lost, other \in Feeding(g) : \E v \in Feeding(g) :
                    Carries(v) /\ At(v[2]) # At(lost[2])
                    /\ world.circuits[v[2]].on # world.circuits[other[2]].on
            /\ \A v \in Feeding(g) :
                  ~Carries(v) /\ world.circuits[v[2]].region \in Searched({}) => g \in answer.critical
            /\ world.promised[g] # None => Rank(answer.level[g]) >= Rank(world.promised[g])
    /\ answer.tool = "cost" /\ answer.target = "maximum"
            /\ (\A c \in answer.of : world.circuits[c].told /\ Boxes(answer.of, At(c)) <= 2) =>
        /\ answer.more = Gap(answer.of)
        /\ answer.more = 0 <=> answer.level = "maximum"
=============================================================================
