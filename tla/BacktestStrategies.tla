------------------------ MODULE BacktestStrategies ------------------------
(***************************************************************************)
(* A backtest with --persist (tools/backtest-strategies.ts): the log is    *)
(* scanned window by window, every strategy runs over every window, what   *)
(* it finds is upserted into the campaigns table, and the markers it       *)
(* leaves make a later strategy stand down.  The table survives the        *)
(* process; the markers (detector/MarkerSnapshot.ts) live in its memory.   *)
(* The table of requests stays as it is while the backtests run.           *)
(*                                                                         *)
(* The steps are cut at the awaits: the query that loads a window, and the *)
(* upsert, after which the process may die before it records the markers.  *)
(***************************************************************************)
EXTENDS RequestLog, CampaignRecords, Ordering, Strategies

CONSTANTS
    Logs,               \* the contents logs_requests may have: sets of requests
    FromArgs,           \* --from, or NoArg
    ScanTo,             \* --to, or the time of the run
    WindowIn,           \* windowInMs
    StepIns,            \* --stepInMs; WindowIn when it is not given
    MinConfidence,      \* --minConfidence
    SuppressFor,        \* default_suppress_for_ms, 8 hours for every strategy
    MaxRuns,            \* bound: times the command is started
    MaxSetAside,        \* bound: campaigns an operator closes or sets dormant
    Closable            \* bound: the strategies whose campaigns these are

\* An option that is not given.
NoArg == -1

ASSUME ScanAssumption ==
    /\ FromArgs \subseteq Nat \cup {NoArg} /\ ScanTo \in Nat
    /\ {WindowIn, MaxRuns} \cup StepIns \subseteq Nat \ {0}
    /\ {MinConfidence, SuppressFor, MaxSetAside} \subseteq Nat

ASSUME LogAssumption == \A requests \in Logs : IsATable(requests)

VARIABLES
    pc,         \* idle | load | score | mark | done
    scanFrom,   \* where the scan of this run begins
    step,       \* stepInMs of this run
    epoch,      \* the window being scanned
    metrics,    \* its requests, in the order the query returned them, and metrics
    turn,       \* index of the running strategy
    groups,     \* its groups still to be scored
    markers,    \* InMemoryMarkerStore: marker -> when it expires
    snapshot,   \* the markers the running strategy was handed
    rows, fires, outcome,   \* the campaigns table
    runs,       \* how often the command was started
    scanned,    \* history: how often this run loaded each request
    reports,    \* allReports: what this run reported, in order
    output      \* what it printed at its end

RequestIds == {r.id : r \in UNION Logs}

storeVars == <<rows, fires, outcome>>
runVars == <<scanFrom, step, epoch, metrics, turn, groups, markers, snapshot, scanned,
             reports, output>>
vars == <<log, pc, runVars, storeVars, runs>>

\* Neither the candidates nor the number of fires is bounded from outside.
Store == INSTANCE PostgresCampaignRecordStore WITH Candidates <- {}, MaxFires <- 0

NoOutput == [format |-> "table", fires |-> << >>, active |-> << >>]

---------------------------------------------------------------------------
(* Windows *)

\* resolveScanRange: without --from, from the first row on.  A log without
\* rows, or a range that ends before it begins, is an error.
Rejects(fromArg) ==
    \/ fromArg > ScanTo
    \/ fromArg = NoArg /\ \A r \in log : r.created_at > ScanTo

resolveScanRange(fromArg) ==
    IF fromArg = NoArg THEN Min({r.created_at : r \in log}) ELSE fromArg

\* generateEpochs; the last window ends where the scan ends.
EpochCount == (ScanTo - scanFrom + step - 1) \div step

EpochStart(k) == scanFrom + (k - 1) * step
EpochEnd_Untruncated(k) == EpochStart(k) + WindowIn           \* mutant
EpochEnd(k) == Earlier(EpochStart(k) + WindowIn, ScanTo)

\* The WHERE clause: half open in time, IPv4 only.
InWindow_Closed(r, k) ==                                      \* mutant
    r.created_at >= EpochStart(k) /\ r.created_at <= EpochEnd(k) /\ r.family = 4
InWindow(r, k) ==
    r.created_at >= EpochStart(k) /\ r.created_at < EpochEnd(k) /\ r.family = 4

---------------------------------------------------------------------------
(* Markers *)

\* The keys of the markers a strategy leaves on a group.
MarkersLeft(strategy, key) ==
    {Marker(left.scope_type, key, left.marker_name) : left \in markers_observed(strategy)}

---------------------------------------------------------------------------
(* Candidates *)

Strategy == OrderedStrategies[turn]
Group == Head(groups)
Figs == FiguresOf(Strategy, metrics, Group,
                  {key \in DOMAIN snapshot.markers : hasMarker(snapshot, key)})
Fires == Figs # NoScore /\ Confidence(Strategy, Figs) >= MinConfidence

buildCandidate ==
    LET times == {r.created_at : r \in ToSet(Group)} IN
    [ identifier |-> identifier_from(Strategy, metrics, Group),
      confidence |-> Confidence(Strategy, Figs),
      evidence |-> [figures |-> Figs, keyOrder |-> "asWritten"],
      first |-> Min(times), last |-> Max(times),
      contributing_ips |-> IpsOf(ToSet(Group)) ]

---------------------------------------------------------------------------
(* Reports *)

\* What upsertCandidate returns of the row it wrote.
Written(c) ==
    CHOOSE row \in ToSet(rows') : IsOpen(row) /\ HasKey(row, c.identifier, "backtest")

Report_CountsThisRun(c) ==                     \* mutant: numbered within the run
    [ strategy |-> Strategy, key |-> KeyOf(Strategy, Group[1]), candidate |-> c,
      outcome |-> outcome'[2],
      times_fired |-> 1 + Cardinality({i \in DOMAIN reports :
                              reports[i].candidate.identifier = c.identifier}),
      epoch |-> epoch, epochEnd |-> EpochEnd(epoch) ]
Report(c) ==
    [ strategy |-> Strategy, key |-> KeyOf(Strategy, Group[1]), candidate |-> c,
      outcome |-> outcome'[2], times_fired |-> Written(c).times_fired,
      epoch |-> epoch, epochEnd |-> EpochEnd(epoch) ]

\* renderOutput: the fires of --strategy, the most confident first.
renderOutput(filter) ==
    LET kept == {k \in DOMAIN reports : filter \in {"all", reports[k].strategy}}
        sorted == HighestFirst(kept, [k \in kept |-> reports[k].candidate.confidence])
    IN  [k \in DOMAIN sorted |-> reports[sorted[k]]]

\* --strategy and --output: only what is printed depends on them.
Formats == {"table", "jsonl"}
Filters == {"all"} \cup Range(OrderedStrategies)

---------------------------------------------------------------------------
(* The process *)

\* main: a new marker store; the table keeps what earlier runs left.
StartRun ==
    /\ pc \in {"idle", "done"} /\ runs < MaxRuns
    /\ runs' = runs + 1
    /\ step' \in StepIns
    /\ \E fromArg \in FromArgs :
          IF Rejects(fromArg)
          THEN /\ pc' = "idle"
               /\ UNCHANGED scanFrom
          ELSE /\ pc' = "load"
               /\ scanFrom' = resolveScanRange(fromArg)
    /\ epoch' = 1
    /\ markers' = NoMarkers
    /\ scanned' = [id \in RequestIds |-> 0]
    /\ reports' = << >> /\ output' = NoOutput
    /\ UNCHANGED <<log, metrics, turn, groups, snapshot, storeVars>>

\* A strategy is handed the window's metrics and a snapshot taken now.
Begins(k, computed) ==
    /\ pc' = "score" /\ turn' = k
    /\ groups' = GroupsOf(OrderedStrategies[k], computed)
    /\ snapshot' = memorySnapshot(markers, EpochEnd(epoch))

\* runEpoch returns at once and main goes on to the next window.
EmptyWindow_Retried ==                         \* mutant: main does not go on
    UNCHANGED <<epoch, pc, metrics, turn, groups, snapshot>>
EmptyWindow ==
    /\ epoch' = epoch + 1
    /\ UNCHANGED <<pc, metrics, turn, groups, snapshot>>

LoadRequests ==
    /\ pc = "load" /\ epoch <= EpochCount
    /\ LET loaded == {r \in log : InWindow(r, epoch)} IN
       /\ scanned' = [id \in RequestIds |->
                       scanned[id] + IF \E r \in loaded : r.id = id THEN 1 ELSE 0]
       /\ \E order \in Orders(loaded) :
             \/ order = << >> /\ EmptyWindow
             \/ /\ order # << >>
                /\ metrics' = compute(order)
                /\ Begins(1, metrics')
                /\ UNCHANGED epoch
    /\ UNCHANGED <<log, scanFrom, step, markers, storeVars, runs, reports, output>>

SkipGroup ==
    /\ pc = "score" /\ groups # << >> /\ ~Fires
    /\ groups' = Tail(groups)
    /\ UNCHANGED <<log, pc, scanFrom, step, epoch, metrics, turn, markers, snapshot,
                   storeVars, runs, scanned, reports, output>>

UpsertCandidate ==
    /\ pc = "score" /\ groups # << >> /\ Fires
    /\ Store!upsertCandidate(buildCandidate, "backtest")
    /\ reports' = Append(reports, Report(buildCandidate))
    /\ pc' = "mark"
    /\ UNCHANGED <<log, scanFrom, step, epoch, metrics, turn, groups, markers, snapshot, runs,
                   scanned, output>>

RecordMarkers ==
    /\ pc = "mark"
    /\ pc' = "score"
    /\ groups' = Tail(groups)
    /\ markers' = recordMarkers(markers, MarkersLeft(Strategy, KeyOf(Strategy, Group[1])),
                                EpochEnd(epoch) + SuppressFor)
    /\ UNCHANGED <<log, scanFrom, step, epoch, metrics, turn, snapshot, storeVars, runs,
                   scanned, reports, output>>

NextStrategy ==
    /\ pc = "score" /\ groups = << >>
    /\ \/ /\ turn < Len(OrderedStrategies)
          /\ Begins(turn + 1, metrics)
          /\ UNCHANGED epoch
       \/ /\ turn = Len(OrderedStrategies)
          /\ pc' = "load" /\ epoch' = epoch + 1
          /\ UNCHANGED <<turn, groups, snapshot>>
    /\ UNCHANGED <<log, scanFrom, step, metrics, markers, storeVars, runs, scanned,
                   reports, output>>

\* The fires are rendered, then, unless the output is jsonl, the campaigns that
\* are active now.
Finish ==
    /\ pc = "load" /\ epoch > EpochCount
    /\ pc' = "done"
    /\ \E filter \in Filters, format \in Formats :
          output' = [ format |-> format, fires |-> renderOutput(filter),
                      active |-> IF format = "jsonl" THEN << >>
                                 ELSE Store!listByStatus("active") ]
    /\ UNCHANGED <<log, scanFrom, step, epoch, metrics, turn, groups, markers, snapshot,
                   scanned, reports, storeVars, runs>>

\* The process dies, or a query fails and main exits: the table stays.
Crash ==
    /\ pc \in {"load", "score", "mark"}
    /\ pc' = "idle"
    /\ UNCHANGED <<log, runVars, storeVars, runs>>

\* An operator ends an episode or marks it dormant, whatever a backtest is doing.
SetCampaignStatus ==
    /\ \E i \in DOMAIN rows, status \in {"dormant", "closed"} :
          /\ rows[i].identifier[1] \in Closable
          /\ rows[i].status = "active" =>
                Cardinality({j \in DOMAIN rows : rows[j].status # "active"}) < MaxSetAside
          /\ Store!SetStatus(i, status)
    /\ UNCHANGED <<log, pc, runVars, runs>>

---------------------------------------------------------------------------

Init ==
    /\ log \in Logs
    /\ pc = "idle" /\ scanFrom = 0 /\ step = WindowIn /\ epoch = 1 /\ turn = 1
    /\ metrics = compute(<< >>) /\ groups = << >>
    /\ markers = NoMarkers
    /\ snapshot = memorySnapshot(NoMarkers, 0)
    /\ Store!Init
    /\ runs = 0
    /\ scanned = [id \in RequestIds |-> 0] /\ reports = << >>
    /\ output = NoOutput

Step ==
    \/ LoadRequests \/ SkipGroup \/ UpsertCandidate \/ RecordMarkers
    \/ NextStrategy \/ Finish

Next == StartRun \/ Step \/ Crash \/ SetCampaignStatus

Spec == Init /\ [][Next]_vars

\* The process keeps running while it is alive.
FairSpec == Spec /\ WF_vars(Step)

---------------------------------------------------------------------------
(* Properties *)

\* "so later strategies on the same actor read them and stand down": once a
\* /24 has been reported as a spray, no IP of it is reported as a burst of its
\* own in that window or in any window ending before the marker expires.
BurstsStandDown ==
    \A i, j \in DOMAIN reports :
        LET spray == reports[i]
            burst == reports[j] IN
        /\ spray.epoch <= burst.epoch
        /\ spray.strategy = "subnet-fingerprint-overlap"
        /\ burst.strategy = "single-ip-burst"
        /\ SubnetOf[burst.key] = spray.key
        => burst.epochEnd >= spray.epochEnd + SuppressFor

\* "only the scored cluster's own requests may enter it": what a fingerprint
\* cluster is stored with (its IPs, its paths) is what its evidence counted.
ClusterEvidenceIsItsOwn ==
    \A i \in DOMAIN reports :
        reports[i].strategy = "asn-path-fingerprint-cluster" =>
            LET c == reports[i].candidate IN
            /\ Cardinality(c.contributing_ips) = c.evidence.figures[1]
            /\ Cardinality(c.identifier[3]) = c.evidence.figures[2]

\* The cluster an ASN is scored by is unbeaten: it has two paths or more, its
\* IPs probed exactly its paths, and no cluster of two paths has more IPs.
DominantClusterUnbeaten ==
    \A asn \in DOMAIN metrics.clusters \ {NoAsn} :
        LET best == metrics.clusters[asn]
            routes == [ip \in IpsOf(ThreatsIn(metrics.requests)) |->
                          RouteSetOf(metrics.requests, asn, ip)] IN
        /\ \A ip \in best.ips : routes[ip] = best.fingerprint
        /\ best # NoCluster => Cardinality(best.fingerprint) >= 2
        /\ \A ip \in DOMAIN routes : Cardinality(routes[ip]) >= 2 =>
              /\ best # NoCluster
              /\ ipCount(best) >= Cardinality({x \in DOMAIN routes : routes[x] = routes[ip]})

\* A finished scan has looked at every IPv4 request of [from, to) and at no
\* other one: exactly once with tumbling windows, the last partial one
\* included, and at least once with overlapping ones.
EveryRequestScanned ==
    pc = "done" => \A r \in log :
        LET inScan == r.family = 4 /\ r.created_at \in scanFrom..(ScanTo - 1) IN
        /\ ~inScan => scanned[r.id] = 0
        /\ inScan /\ step = WindowIn => scanned[r.id] = 1
        /\ inScan /\ step < WindowIn => scanned[r.id] > 0

\* However often the scan dies and is started over: a report speaks of the scanned
\* range only, no campaign reaches past it, and the open campaign of what a run has
\* reported covers the report, unless an operator closed an episode of it.
CampaignsStayInScanRange ==
    /\ \A k \in DOMAIN reports :
          LET c == reports[k].candidate IN
          scanFrom <= c.first /\ c.first <= c.last /\ c.last < ScanTo
    /\ \A row \in ToSet(rows) : row.first_seen <= row.last_seen /\ row.last_seen < ScanTo
    /\ \A k \in DOMAIN reports, row \in ToSet(rows) :
          LET c == reports[k].candidate IN
          row.identifier = c.identifier /\ IsOpen(row) =>
             \/ row.first_seen <= c.first /\ c.last <= row.last_seen
             \/ \E other \in ToSet(rows) : ~IsOpen(other) /\ other.identifier = c.identifier

\* The re-fire numbers a run prints go on from what the table had: the fires
\* of one identifier carry consecutive numbers, and only an episode's first is
\* an insert; the count starts over only where an operator closed the episode.
ReportsAddUp ==
    \A j \in DOMAIN reports :
        LET later == reports[j]
            before == {i \in 1..(j - 1) : reports[i].candidate.identifier
                                              = later.candidate.identifier} IN
        /\ (later.outcome = "inserted") <=> (later.times_fired = 1)
        /\ before # {} /\ later.times_fired # 1 =>
              later.times_fired = reports[Max(before)].times_fired + 1
        /\ before # {} /\ later.times_fired = 1 =>
              \E row \in ToSet(rows) : ~IsOpen(row) /\ row.identifier = later.candidate.identifier

\* What the default output prints at the end agrees with the table: of every
\* identifier that is printed as a fire, the summary of active campaigns shows the
\* count of its last fire, and a peak no printed fire exceeds.  The one exception is
\* a campaign that an operator closed or set dormant: a fire leaves a dormant row
\* dormant, so it is counted there and missing from the summary.
OutputMatchesTable ==
    output.format = "table" => \A k \in DOMAIN output.fires :
        LET fire == output.fires[k]
            same == {i \in DOMAIN reports : reports[i].candidate.identifier
                                                = fire.candidate.identifier}
            setAside == \E row \in ToSet(rows) :
                row.status # "active" /\ row.identifier = fire.candidate.identifier IN
        setAside \/ \E row \in ToSet(output.active) :
            /\ row.identifier = fire.candidate.identifier
            /\ row.times_fired = reports[Max(same)].times_fired
            /\ row.peak_confidence >= fire.candidate.confidence

\* The dormant tracker can take the place of the markers in memory: with the
\* same markers in logs_flag_tracker, asked for the scopes of this window, its
\* snapshot answers the strategies as theirs does, expired markers included.
TrackerWouldAgree ==
    pc = "score" =>
        LET requests == ToSet(metrics.requests)
            filter == [ ips |-> {r.ip : r \in requests},
                        asns |-> {r.asn : r \in requests} \ {NoAsn},
                        subnets |-> {SubnetOf[r.ip] : r \in requests} ]
            tracked == trackerSnapshot(TableOf(snapshot.markers), filter, snapshot.asOfMs) IN
        \A r \in requests :
            LET key == Marker("asn_subnet", SubnetOf[r.ip], "seen_in_subnet_spray") IN
            /\ hasMarker(tracked, key) = hasMarker(snapshot, key)
            /\ markerTtl(tracked, key) = markerTtl(snapshot, key)

\* A scan that was started comes to its end, unless it dies first: no window,
\* empty or full of groups, is scanned for ever.
ScansEnd == pc = "load" ~> pc \in {"done", "idle"}
===========================================================================
