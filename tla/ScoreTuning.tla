---------------------------- MODULE ScoreTuning ----------------------------
(***************************************************************************)
(* tools/score-tuning.ts: the harness the scoring of the spray strategy is *)
(* chosen with.  It loads every threat once, cuts the time from the first  *)
(* to the last of them into windows, and lists each /24 that qualifies     *)
(* with the figures of its best window.  Nothing is awaited after the      *)
(* query, so a run is one step beside the replays and backfills of the     *)
(* same table; which of two equal lines is printed first is left out.      *)
(***************************************************************************)
EXTENDS FingerprintReplay

CONSTANTS
    WINDOW_MS,          \* the length of a window
    MIN_IPS,            \* addresses that make a cluster
    PATH_THREATS,       \* patterns over routes: [matches, severity]
    maxOR(_, _, _)      \* scoreMethods.maxOR of addresses, cohesion and attack paths

\* The tool has a copy of its own of the strategy's threshold, and shares the patterns.
ASSUME TuningAssumption ==
    /\ {WINDOW_MS, MIN_IPS} \subseteq Nat \ {0}
    /\ MinClusterIps \in Nat /\ MIN_IPS >= MinClusterIps
    /\ \A threat \in PATH_THREATS : threat.severity \in {"low", "medium", "high"}
    /\ AttackPaths = UNION {threat.matches : threat \in PATH_THREATS}

VARIABLE tuning     \* history: the table a run read and what it listed

toolVars == <<replayVars, tuning>>

NotTuned == [read |-> {}, listed |-> << >>]

SEV_RANK == [none |-> 0, low |-> 1, medium |-> 2, high |-> 3]

\* The highest of these severities, "none" without one.
Severest(severities) ==
    CHOOSE s \in severities \cup {"none"} : \A t \in severities : SEV_RANK[s] >= SEV_RANK[t]

pathSeverity(route) ==
    Severest({threat.severity : threat \in {t \in PATH_THREATS : route \in t.matches}})

\* WHERE family(ip) = 4 AND threat_level <> 'none' AND is_tor IS NOT TRUE
Threats(requests) == {r \in requests : r.family = 4 /\ r.threat /\ ~r.is_tor}

RoutesIn(rows) == {r.route : r \in rows}
AttackRoutes(rows) == {route \in RoutesIn(rows) : pathSeverity(route) # "none"}

\* One set per address, empty for one that probed no attack path.
AttackSets_Probing(rows) ==                    \* mutant: empty sets are left out
    LET ips == {r.ip : r \in {x \in rows : pathSeverity(x.route) # "none"}} IN
    [ip \in ips |-> AttackRoutes({r \in rows : r.ip = ip})]
AttackSets(rows) ==
    [ip \in {r.ip : r \in rows} |-> AttackRoutes({r \in rows : r.ip = ip})]

averageJaccard(sets) == averageOverlap(sets)

Qualifies(rows) ==
    Cardinality({r.ip : r \in rows}) >= MIN_IPS /\ AttackRoutes(rows) # {}

ClusterOf(rows, start) ==
    [ windowStart |-> start, distinctIps |-> Cardinality({r.ip : r \in rows}),
      cohesionAttack |-> averageJaccard(AttackSets(rows)),
      attackPathCount |-> Cardinality(AttackRoutes(rows)),
      unionSize |-> Cardinality(RoutesIn(rows)),
      maxSeverity |-> Severest({pathSeverity(route) : route \in AttackRoutes(rows)}) ]

Score(cluster) ==
    maxOR(cluster.distinctIps, cluster.cohesionAttack, cluster.attackPathCount)

---------------------------------------------------------------------------

Start(rows) == Min({r.created_at : r \in rows})
End(rows) == Max({r.created_at : r \in rows})

\* for (wStart = startMs; wStart < endMs; wStart += WINDOW_MS)
WindowStarts(rows) ==
    {t \in Start(rows)..(End(rows) - 1) : (t - Start(rows)) % WINDOW_MS = 0}

\* The rows of a subnet in a window.
Within(rows, subnet, start) ==
    {r \in rows : /\ SubnetOf[r.ip] = subnet
                  /\ r.created_at >= start /\ r.created_at < start + WINDOW_MS}

\* A later window takes over if it scores more.
Better(cluster, best) == best = << >> \/ Score(cluster) > Score(best[1])

\* A subnet's best qualifying window, in a sequence; empty without one.
BestWindow(rows, subnet) ==
    LET starts == Ascending(WindowStarts(rows))
        Consider(sofar, start) ==
            LET cluster == ClusterOf(Within(rows, subnet, start), start) IN
            IF Qualifies(Within(rows, subnet, start)) /\ Better(cluster, sofar)
            THEN <<cluster>> ELSE sofar
        best[k \in 0..Cardinality(WindowStarts(rows))] ==
            IF k = 0 THEN << >> ELSE Consider(best[k - 1], starts[k])
    IN  best[Cardinality(WindowStarts(rows))]

bestPerSubnet(rows) ==
    LET listed == {s \in {SubnetOf[r.ip] : r \in rows} : BestWindow(rows, s) # << >>} IN
    [subnet \in listed |-> BestWindow(rows, subnet)[1]]

\* main.  A run writes nothing, so what the others do after it is not followed.
Tune ==
    /\ tuning = NotTuned
    /\ LET rows == Threats(log) IN
       tuning' = [ read |-> log,
                   listed |-> IF rows = {} THEN << >> ELSE bestPerSubnet(rows) ]
    /\ UNCHANGED replayVars

ToolsInit == ReplayInit /\ tuning = NotTuned

ToolsNext == Tune \/ (tuning = NotTuned /\ ReplayNext /\ UNCHANGED tuning)

ToolsSpec == ToolsInit /\ [][ToolsNext]_toolVars

---------------------------------------------------------------------------
(* Properties *)

Listed == DOMAIN tuning.listed

\* Each /24 is listed exactly if it qualifies in some window, and no window of
\* it scores more than the one it is judged by.
JudgedByTheirBestWindow ==
    LET rows == Threats(tuning.read) IN
    rows # {} =>
        \A subnet \in {SubnetOf[r.ip] : r \in rows} :
            LET qualifying == {t \in WindowStarts(rows) : Qualifies(Within(rows, subnet, t))} IN
            /\ subnet \in Listed <=> qualifying # {}
            /\ \A t \in qualifying :
                  Score(tuning.listed[subnet]) >= Score(ClusterOf(Within(rows, subnet, t), t))

\* The requests of a window as a backtest loads them.
WindowFrom(requests, start) ==
    {r \in requests : r.family = 4 /\ r.created_at >= start /\ r.created_at < start + WINDOW_MS}

\* What is tuned here is what the strategy will fire on: every /24 that
\* qualifies is judged by its best window, and of that window's requests, in
\* whatever order they are loaded, subnetFingerprintOverlap computes the figures
\* the harness has listed, for a /24 of one ASN, unless it finds the paths too few.
TuningScoresWhatTheStrategySees ==
    /\ JudgedByTheirBestWindow
    /\ \A subnet \in Listed :
        LET cluster == tuning.listed[subnet] IN
        \A window \in Orders(WindowFrom(tuning.read, cluster.windowStart)) :
            LET group == EntriesAt(window, {i \in DOMAIN window :
                             SpraysFrom(window[i]) /\ SubnetOf[window[i].ip] = subnet})
                figures == SprayFigures(compute(window), group) IN
            {r.asn : r \in ToSet(group)} = {group[1].asn} /\ group[1].asn # NoAsn =>
                IF cluster.unionSize < 2 THEN figures = NoScore
                ELSE figures = << cluster.cohesionAttack, cluster.distinctIps,
                                  cluster.attackPathCount, cluster.unionSize >>
===========================================================================
