# honeylog in TLA+

honeylog is an Express middleware that logs every request with a threat verdict into
PostgreSQL, and a set of commands that work on that log: a backtest that looks for
campaigns, a migration runner, a backfill from nginx's access logs, an export and a mining
report. These modules model the parts of it that keep state or make decisions; TLC checks
them on small instances, and TLAPS proves every one of the invariants and action properties that
the passing runs check for every instance: both campaign stores and their contract, the
backtest's coverage, suppression, clusters, table and output, that replays agree and tuning
scores what the strategy sees, the migrations' record and order, the middleware's rows, levels,
secrets and chains, the backfill's completeness and what it may insert twice, what an export
may skip, and what report, clusters and trials say. What is left to TLC alone is liveness.

Paths below are relative to the repository (`src/middleware/honey.ts` and so on).

## 1. The system

| component | state | operations | talks to |
|---|---|---|---|
| Request middleware, `src/middleware/honey.ts` | none of its own; the request's `rateLimitInfo`, the lazily imported `jsonwebtoken` | `honeyMiddleware`: skip or attach a `finish` listener; the listener detects, reads token and forwarding chain, enriches and INSERTs without awaiting | threat detection, geo, Tor list, `logs_requests` |
| Threat detection, `honey.ts`, `threatDefinitions.ts` | `lastIndex` of the expressions with the g flag, shared by all requests | `detectThreats` | called by middleware, backfill, mining, replay check |
| Geo and IP classification, `src/helpers/geoLookup.ts`, `ipClassifier.ts` | two database readers; the Tor exit list | `initGeo`, `geoLookup`, `classifyIp`, `fetchTorExitNodes`, `isTorExitNode` | called by the middleware; the list is refreshed on a timer |
| Backtest, `src/tools/backtest-strategies.ts` | window, metrics, markers (in memory), a campaign store | one pass over the windows of a range | reads `logs_requests`, writes `campaigns` |
| Metrics and strategies, `src/detector/metrics`, `src/strategies` | none | `compute`; four strategies: observe, score, identifier, markers | the backtest, the replay check |
| Markers, `src/detector/MarkerSnapshot.ts`, `IpAsnMarkerTracker.ts` | the marker map a backtest holds; `logs_flag_tracker` | `hasMarker`, `markerTtl` over a snapshot of either | strategies read them; nothing calls the tracker yet |
| Campaign stores, `src/detector/persistence` | the `campaigns` table, or a Map of open rows | `upsertCandidate`, `findOpenByIdentifier`, `getOpenCampaigns` | the backtest now, a live detector later; operators close rows |
| Migration runner, `src/migrate.ts` | schema, `_migrations`, the tables | `up`, `down`, `status`, `reset` | deployments, possibly several at once |
| Backfill, `src/tools/run-backfill.ts` | the rows of `logs_requests` whose `is_tor` is NULL | one run: window, check, scan, batches | nginx's logs, the operator who follows its advice |
| Export and mining, `src/tools/export-new-rows.ts`, `mine-export.ts`, `validate-patterns.ts` | dated dumps in `personal/` | export, replay and report, trial of proposed patterns | `logs_requests` while the application writes it; detection |
| Replay check, `src/tools/fingerprint-replay-check.ts` | none | one check over a pinned range | metrics, one strategy, `logs_requests` |
| Score tuning, `src/tools/score-tuning.ts` | none | one report: each /24 by its best window | `logs_requests`, the path patterns; it computes the figures of the spray strategy on its own |

What is hard about it, and hard to test: the upsert that several processes run into one
table while operators close rows; a scan whose strategies must run in an order and whose
markers outlive a window but not the process; migrations without a lock; commands that die
between two statements; responses that end or are aborted while their INSERTs are on
their way; module-level regular expressions that remember; boundaries of time ranges that
are half open in one place and closed in another. `PROJECT.json` lists these hazards at
their lines, with the properties that would catch each one, or the reason none does.

## 2. Modules

| module | models | correspondence |
|---|---|---|
| `Ordering` | what ORDER BY, `sort`, `filter` and grouping in order of first occurrence do to positions | `Ascending`, `EntriesAt`, `FirstAt` and the stable `HighestFirst`, defined by counting what comes before instead of by recursion, so that they can be reasoned about |
| `CampaignRecords` | `types.ts`, `campaignRecordStore.ts` | candidates and rows as records; the evidence helpers under their own names |
| `CampaignRecordStore` | what both stores promise: the interface and `campaignRecordStoreContract.ts` | abstract: a row is the summary of the fires of one episode |
| `PostgresCampaignRecordStore` | `upsertCandidate`, the table and partial index of migration 003 | one action per statement: the upsert is one `INSERT ... ON CONFLICT`; `SetStatus` is the operator |
| `InMemoryCampaignRecordStore` | the Map of open rows | one action per method (none awaits), and callers that write to rows they were returned |
| `MetricsWithinWindow`, `Strategies` | the metrics and the four strategies | pure operators; the row order is an input, since ties depend on it |
| `Markers` | `MarkerSnapshot.ts`, `IpAsnMarkerTracker.ts`, the table of migration 002 | the map in memory with its expiry (`recordMarkers`, `MarkersLeft`), the table's rows, and the snapshot made of each |
| `RequestLog` | `logs_requests`, the table of migration 001 | the variable `log` that the backtest, the replay check and the harness read; what makes a set of rows a table |
| `BacktestStrategies` | the command with `--persist`, composed with the strategies and, by INSTANCE, the PostgreSQL store | steps cut at the awaits: load a window, score a group, upsert, record markers; `Crash` anywhere; `SetCampaignStatus` is an operator who closes a campaign or sets it dormant; `Finish` prints in either format |
| `FingerprintReplay` | the replay check over the same strategies | any order among requests of one instant; backfills between replays |
| `ScoreTuning` | `score-tuning.ts` | extends `FingerprintReplay`: the query, the windows from the first row on, `Tune` is the whole run; the weighted sigmoids are the constant `maxOR` |
| `MigrationRunner` | `migrate.ts` | steps cut at the awaits, one process per runner; transactions hold their tables' locks; `confirm` is where `reset` waits for an operator |
| `ReadmeInstall` | the README's `psql -f`, beside the runner | the two halves of the file, statement by statement |
| `ThreatDetection` | `detectThreats` | patterns are the texts they match, a severity and the g flag; `detectThreats(library, request, resuming)` takes the library of the moment, and `resuming` is the set with `lastIndex` not 0 |
| `Enrichment` | `detectSource`, `classifyIp`, `geoLookup` | pure operators used by the live row and the backfilled one; registry, patterns and agents are constants |
| `HoneyMiddleware` | the middleware with geo, Tor list and lazy import | `Finish` is the whole listener; a body is its values with their paths; `TokenOf` and `ChainOf` read cookies, headers and the forwarding chain; `InsertEnds` settles the query later; a Tor fetch is cut at its two awaits |
| `NginxBackfill` | `run-backfill.ts` and its queries | check, scan and each batch are steps of any number of processes; a line becomes a row by way of `ThreatDetection`, `Enrichment` and the tool's own `deriveSource`; the printed DELETE is an action of the operator. `runs[r].others` is history: what others inserted since the check |
| `ExportNewRows` | the export against an application that inserts over a pool | drawing an id and committing its row are two steps; the clock goes on or back; a dump replaces the one of its minute. `gaps` is history: the ids each export had a reason to leave out or lose |
| `CampaignClusters` | the three groupings of `mine-export.ts`, and the time range | pure operators: one pass over the rows in the dump's order (a recursive function, row by row), thresholds as constants |
| `MiningReplay` | logging, export, replay through a library that grows, and trial of proposals for any of its lists | extends `ExportNewRows` with verdicts and reports, calls `ThreatDetection` with the library of the moment, and clusters the dumped rows; one regular expression goes through the rows of a dump and then through the list of legitimate routes, with its `lastIndex` (`TestEach`). `MayHold` says which patterns the library may hold: path expressions without the g flag, whose `lastIndex` the detector would never reset |
| `MC*`, `SampleCandidates` | | the values of the constants for TLC |
| `OrderingProofs` | | what a sort returns, and the principle of the least number |
| `PostgresCampaignRecordStoreProofs`, `InMemoryStoreProofs`, `BacktestStrategiesProofs`, `MigrationRunnerProofs`, `HoneyMiddlewareProofs`, `NginxBackfillProofs`, `MiningReplayProofs` | | theorems (section 5) |

Definitions whose names end in `_Something` and carry the comment "mutant" are wrong
variants of the definition that follows them, the bugs each property is there to catch;
nothing else uses them.

What is abstracted: times and confidences are naturals; evidence is an opaque figure with
a key order, and `StoredForm` is what the JSON round trip makes of it; the weighted
sigmoids of a score are the constant `Confidence`; columns of a row that only copy their
input are left out; a pattern, a user agent and an organisation's name are the sets of texts
they match; an nginx line is its instant, its request and the agent nginx wrote for it, and
has neither body nor headers. External, and modelled from how the code
uses them: PostgreSQL (row locks of the upsert, UNIQUE, sequences that do not roll back,
DDL in transactions), jsonb, MaxMind's readers, `fetch`, Express's `finish` and `close`,
the file system, psql.

## 3. Runs

Each passing run checks its properties over every behaviour within its bounds; the
violations are disagreements between a document and the code (section 6).

| run | question | bounds and why they are enough |
|---|---|---|
| `postgres_store` | do fires and closings, in any order, keep one open row per key, the history true to the evidence, closed rows frozen, and the contract? | 4 upserts, 5 candidates, 2 sources, any status changes. Four fires are enough for an episode of three with two changes of evidence, or two episodes of a key with another key between |
| `in_memory_store` | the same contract, with callers that write to what they were returned | 3 upserts: two into one row and one beside it |
| `backtest` | suppression, membership of clusters, coverage of the range, what a run prints against the table, the tracker against the markers in memory, termination | a range of 8 in windows of 3 (the last one cut short) with steps of 3 and of 2, scanned from the first row on or from `--from`; a log of 14 requests, three logs that lack one it depends on, and none; 2 starts, so one run crashes or ends and another one scans over its rows, with its own step; an operator changes the status of one sprayed campaign at any time (`MaxSetAside`), as often as wanted; output as a table or as jsonl |
| `replay_agree` | do ties change what the replay check finds? Does the tuning harness list each /24 with the figures the strategy computes? | every subset of the pool, every order, 2 replays; two windows of the harness over three addresses of one /24 and one of another, a row stored as no threat, one over Tor, one past the range. A run of the harness writes nothing, so it is the last step of a behaviour |
| `migrations` | do record and tables agree, are migrations applied in order, do commands end? | 2 runners, 3 commands of every kind, two working trees, failures and crashes anywhere, `reset` answered with yes, with no or never. Three commands are an `up`, a `down` and an `up` over it, two of them at once if they like |
| `honey` | verdicts independent of earlier requests, levels right, secrets redacted, forwarding chains judged by what the client wrote, no response logged twice, the Tor list whole, INSERTs settled | 3 overlapping requests (one that a g expression matches in two texts, one with an address that is none whose URL and method it matches, one that is skipped), through both proxies or one, with blank, written and absent entries in the header, tokens that are valid, expired or absent in two places; a body with secrets in an array and below a sensitive key, a rate limit above the first one's level and below the second one's, 2 overlapping fetches, either database missing |
| `nginx_backfill` | which lines can a run insert twice, is a finished run complete, does a backfilled row say what a live one would? | 6 requests and a handshake's line in 2 files, overlapping windows of which one ends between two seconds and two on a logged one, and the detected window; batches of 2, 4 starts by 2 processes that overlap as they like, either database missing in each, dry runs, the DELETE followed or not. Four starts are enough for a crash, a refusal, and a refill beside another process |
| `export_and_mining` | what can the dumps lack, is anything hidden from the report, does a proposal catch what its trial said, and are the clusters the counts of their rows? | 4 rows, 2 of them in the first dump (`FirstRows`), one backfilled with an earlier instant, one without an ASN and one without a user agent (which `detectThreats` never calls "none"); two inserting connections, exports as often as wanted within a minute, 2 minutes of a clock that may go back, baselines passed by hand before and after the newest dump, runs that die while writing; proposals for URLs, bodies and a method, with and without the g flag, one of which matches only what the redaction wrote, tried on any dump, one of them added at any time (`MaxAdded`); thresholds of 2 and 3, reached and missed |

`AppliedIsPrefix` speaks of behaviours in which no `down` or `reset` ran beside
another command or over missing files; the other properties of `migrations` do not.

Deadlock is not checked: every one of these processes may stop, be idle for ever, or reach
the bound on starts, fires or commands.

### Fairness

- `backtest`: `WF(Step)`. A command that is alive goes on to its next statement; nothing
  blocks it, and `Crash` is not fair. `ScansEnd` (a started scan ends or dies) needs it.
- `migrations`: weak fairness of every process's next step, crashes and failures
  excepted.
  PostgreSQL releases a transaction's locks when it ends, so a waiting one goes on. The
  operator whom `reset` asks is not fair: `CommandsEnd` says that every command ends or
  waits for that answer.
- `honey`: weak fairness of `InsertEnds` for each request: the driver settles every query,
  with a result or an error. Nothing is assumed of clients, fetches or imports.
  `FinishedIsSettled`.

### Assumptions

Besides the types of the constants (`ScanAssumption`, `LogAssumption`, `ExportAssumption`,
`RunnerAssumption`, `RequestAssumption`, `RoundAssumption`, `DataAssumption`):
`ListsAssumption` says that the Tor project never answers with an empty list: the code
takes whatever a 2xx answer holds, so after an empty one nothing is an exit node.
`SeverityAssumption`: patterns and rate limiters use the severities of `SEVERITY_RANK`, as
their type demands, and in the mining round no pattern has the severity "none", as none of
`threatDefinitions.ts` has. `ClusterAssumption`: the thresholds of a report are positive.
`PoolAssumption`: what the replay check and the harness read is a table, finite and with `id`
as its primary key. `RoundAssumption`: the library the mining round starts with has no path
pattern with the g flag, as `threatDefinitions.ts` has none, and none is added (`MayHold`),
though proposals may have it; every row has an instant. `BackfillAssumption`: nginx writes the
agent a request sent, and a dash or nothing for none. `TuningAssumption`: the harness and the strategies know the same
attack paths, and the harness's `MIN_IPS` is no less than the strategy's `MIN_CLUSTER_IPS`
(both are 3, each in its own file). `StoredFormAssumption`: what went through JSON once is not changed by going
through it again. TLC evaluates all of them in the runs.

## 4. Properties

The comment above each definition states it; the ones that matter most:

- `OneOpenRowPerKey`, `HistoryFollowsEvidence`, `EpisodesOnlyWiden`:
  the table, whatever the order of fires and closings.
- `ImplementsContract`: both stores implement `CampaignRecordStore`. The contract keeps the
  fires of each episode (a history variable) and says that a row summarises exactly those;
  the concrete stores only fold one fire at a time into a row.
- `BurstsStandDown`: relates two reports of a scan, possibly windows apart, through
  markers, their expiry and the order of the strategies.
- `ReportsAddUp`, `OutputMatchesTable`: what a run prints while it scans and at its end, against
  the table that earlier runs wrote and an operator changes meanwhile. The second one's exception
  is a campaign that is closed or dormant: the upsert leaves a dormant row dormant.
- `TrackerWouldAgree`: the tracker over `logs_flag_tracker`, given the markers of a running
  backtest, answers the strategies as the map in memory does, instant of expiry included.
- `TuningScoresWhatTheStrategySees`: two implementations of one computation, one to tune the
  weights with and one to fire by, whatever order the strategy's window is loaded in. Its
  exceptions (a /24 with several ASNs or none, fewer than two paths) are those of the strategy.
- `ClusterEvidenceIsItsOwn`, `DominantClusterUnbeaten`, `ReplaysAgreeOnCluster`: what a
  cluster is stored with is what it was scored by, and ties change only its name.
- `EveryRequestScanned`, `CampaignsStayInScanRange`, `ScansEnd`: coverage of the range with
  either kind of windows, over crashes.
- `AppliedIsPrefix`, `RecordMatchesTables`, `DownRollsBackAtMostCount`, `CommandsEnd`.
- `EveryMatchIsSignalled`, `LevelCoversSignals`, `LoggedAtMostOnce`, `NoSecretIsStored`,
  `TorListStaysWhole`, `FinishedIsSettled`.
- `SpoofedMeansPreloaded`: a chain is called spoofed only where the client wrote into the
  header, and the claimed address is one that it wrote; behind both proxies whatever it
  wrote is noticed.
- `NoLineTwice`: of a run between the batches of others, crashes, refusals and DELETEs. It names
  the two cases in which a line is inserted twice, another process since the check and the
  window's last second, and says that there is no third; `DoneMeansComplete`.
- `BackfilledLikeLive`: relates a row the backfill inserts to the one the middleware would have
  inserted, where the backfill has copies of the middleware's code.
- `NothingSkipped`: rows that commit late, exports that die, overwrite each other or are told
  where to start. It names the three ways a row is missing for good and says that there is no
  fourth.
- `NothingIsHidden`; `ValidationForetells`: relates the trial of a proposal on dumped rows to
  what the middleware does with the requests once it is in the library, and its hits on
  legitimate routes to the verdicts of those. Where the forecast fails is part of it: a proposal
  for methods is tried on URLs (section 6), the body of a dump was redacted or is none, the
  method is not looked at, and an expression with the g flag passes over rows and routes. Every
  one of these exceptions occurs in the run, and without any one of them the property fails.
- `ClustersCountTheirRows`: the clusters are made in one pass with thresholds; they are
  compared with the sets of rows they stand for, in whatever order the dump has them; the
  rows counted as uncaught are those of the reported shapes that name a user agent. The report's
  time range spans the rows where ids and instants are in one order.

A type invariant is checked where another property or a proof leans on it: the PostgreSQL
store, the migrations and the middleware.

## 5. Proofs

The theorems hold for all values of the constants that satisfy the named assumptions: any
candidates, logs, files, requests and patterns, any number of fires, runners, processes and
fetches. Where one needs more than the types, the condition is a named hypothesis of it.

### The stores

| theorem | statement | argument |
|---|---|---|
| `PostgresCampaignRecordStoreProofs!TypeCorrect` | `Spec => []TypeOK` | inductive as it stands: `InsertedRowOK` and `DoUpdateOK` give the types of a written row |
| `OneOpenRow` | `Spec => []OneOpenRowPerKey` | with `TypeOK`: an insert happens only when no open row conflicts, an update keeps key and status, a closing only removes one |
| `HistoryCorrect` | `Spec => []HistoryFollowsEvidence` | inductive with `TypeOK`: an entry is appended exactly when the stored evidence differs, and the last entry holds the stored evidence before and after |
| `OnlyWiden` | `Spec => EpisodesOnlyWiden` | an update goes to an open row only (`FrozenStep`); by the fields of `DoUpdate` |
| `Implements` | `Spec => ImplementsContract` | the strengthening `Summary`: every row summarises the fires recorded for it, and its evidence is the stored form of the last fire's. The second conjunct is needed because the contract compares evidence of consecutive fires while the table compares the new one with what it stored; `StoredAlike` says these agree. `InsertSummarises` and `UpdateSummarises` preserve it, `HistoryExtends` is the step for the history |
| `InMemoryStoreProofs!Detached` | `Spec => RowsAreDetached` | `DetachedInv`: no row a caller holds shares memory with a stored one, since every answer is a clone; so a caller's write cannot change `openRows`. The types of rows and fires are part of it: an upsert must be seen to change `fires` |
| `InMemoryStoreProofs!Implements` | `Spec => ImplementsContract` | `Summary` of every key of the Map, with `DetachedInv`: callers' writes map to stutters because they cannot reach a stored row. Every row is open, so no episode ends |

### The backtest

| theorem | statement | argument |
|---|---|---|
| `RequestsScanned` | `Spec => []EveryRequestScanned` | `LoadInv`: by the time of window n every request of the range is loaded as often as there are windows before n that hold it; for tumbling windows, one. It rests on `ScanInv` and the arithmetic of window starts |
| `StandDown` | `Spec => []BurstsStandDown` | `BurstInv` with `ReportInv`: every spray that was reported has its marker, for as long as the suppression lasts (`IsMarked`), but for the one just reported, whose marker is the next step; bursts come last in a window, when the markers of its sprays are in the snapshot (`MarkInv`) |
| `TrackerAgrees` | `Spec => []TrackerWouldAgree` | `MarkInv`: the running strategy's snapshot is the one of the markers at the end of its window; both snapshots are then compared key by key |
| `ReportsCount` | `Spec => []ReportsAddUp` | `CountInv`: the open row of an identifier has the count of its last report. `RowsInv`: at most one open row of an identifier. `Upserted` names the two outcomes of the upsert, `Opens` and `Refires` |
| `OutputAgrees` | `Spec => []OutputMatchesTable` | `PeakInv`: every report's row has a peak that is at least its confidence, unless an operator set its campaign aside (`SetAside`: it has a row that is closed or dormant); then `HighestFirstLists`: the sorted list of active rows leaves none out. Hypothesis `ConfidencesAreNumbers` |
| `StayInRange` | `Spec => []CampaignsStayInScanRange` | `SpanInv`: every report lies within the range of the scan, every row ends before the end of it, and the open row of what was reported covers the report unless an operator closed an episode of it. It rests on `WindowInv` (what a group holds are requests of its window), so that a candidate's instants are requests' (`CandidateSpan`), and on `RowsInv`; `SpanUpserted` is the upsert |
| `ClusterUnbeaten` | `Spec => []DominantClusterUnbeaten` | `DominantIs`: the best cluster is that of a pass which replaces the best so far by a greater one only; `BestOfAll` says what such a pass returns, for any order of the rows |
| `EvidenceIsItsOwn` | `Spec => []ClusterEvidenceIsItsOwn` | `EvidenceInv`: a pending candidate names the cluster it was scored by; the IPs listed for it are those of that cluster's requests in the group (`ClusterGroup`, `FingerprintsListed`) |
| `ReplaysAgree` | `ToolsSpec => []ReplaysAgreeOnCluster` | `ReplayInv`: every verdict was computed from some list of the rows it loaded. `VerdictIs` says what it depends on, the size of the mined ASN's dominant cluster; `Unbeaten` says what that cluster is without saying in which order the rows came, so two lists of the same rows have dominant clusters that are no larger than each other (`SameRowsSameSize`). They may be different ones, which is why the fingerprint is not part of the property |
| `TuningRight` | `ToolsSpec => []TuningScoresWhatTheStrategySees` | `TuneInv`: what is listed was computed from the table that was read. `BestWindowIs`: the pass over the windows leaves the first of those that score most; `GroupIsWithin`: of a window in any order (`OrdersList`: none of its rows is lost), the strategy's group holds the rows the harness has counted; `FiguresAreTheSame`: so the tabs of its cohesion are the harness's sets, and `AttackPathIs` says that both count the same paths. Hypothesis `ScoresAreNumbers` |

### Migrations

| theorem | statement | argument |
|---|---|---|
| `RecordCorrect` | `Spec => []RecordMatchesTables` | inductive as it stands, since record and tables are only written together: by COMMIT, for the one migration of the transaction (`CommitKeeps`), and by DROP SCHEMA (`DropKeeps`). It needs nothing about which runner holds which lock |
| `TypeCorrect` | `Spec => []TypeOK` | not inductive as it stands: ids stay unique because two transactions that hold `_migrations` are `Apart`, they drew different ids from a sequence that does not roll back |
| `RollsBackAtMostCount` | `Spec => []DownRollsBackAtMostCount` | `CountInv`: what a `down` has done and what it still has to do are together at most its count; its list is a slice of that length. Hypothesis `PositiveCounts`: for 0 the run `migrations_count_zero` shows the opposite |
| `AppliedInOrder` | `Spec => []AppliedIsPrefix` | `OrderInv`: while nobody rolled back beside another command, the record holds the first n files in the order of their ids, and every runner's list of what to do continues from n (`Climbs`) or goes back from it (`Descends`), though the record moved on since it was read. Hypothesis `InitialSegments` |

### The middleware

| theorem | statement | argument |
|---|---|---|
| `LoggedOnce` | `Spec => []LoggedAtMostOnce` | `RowInv`: a row is stored, on its way or failed, and only one of these, and a request that is not closing has none; `RowStep` takes the actions one by one |
| `ListStaysWhole` | `Spec => TorListStaysWhole` | `ListInv`: a fetch that reads holds a whole list, so an assignment replaces the old list by one |
| `HoneyMiddlewareProofs!TypeCorrect` | `Spec => []TypeOK` | with `ListInv`: what a fetch assigns is a published list |
| `LevelCorrect` | `Spec => []LevelCoversSignals` | `Covers`, the level is the highest severity of the signals, holds of what the detector returns (`DetectorLevel`) and is kept by the spoof override and the rate limiter (`SpoofCovers`, `RateLimitCovers`), through `HighestOfMore`: one more signal raises the level to its own or leaves it |
| `MatchesSignalled` | `Spec => []EveryMatchIsSignalled` | `MatchInv`: no expression is left in the middle of a text, `resuming` is empty between two requests. That is what the reset of `honey.ts:167` is for, and without it the invariant does not hold |
| `NoSecretStored` | `Spec => []NoSecretIsStored` | by the path of each value: redaction stops at the first sensitive key, at any depth and through arrays |
| `SpoofTold` | `Spec => []SpoofedMeansPreloaded` | by the length of the forwarding chain: proxies append one entry each, the client wrote the rest, and blank entries are dropped first (`KeptEntries`: what is left of the header) |

### Backfill, export and mining

| theorem | statement | argument |
|---|---|---|
| `WindowsComplete` | `Spec => DoneMeansComplete` | `CoverInv`: what a run that inserts has not stored it still holds. For any number of processes at once |
| `NoneTwice` | `Spec => NoLineTwice` | `TwiceInv`: the lines a run still holds are distinct, and each that is stored was inserted by another run since the check, or logged in the last second of the window; `CountedNone` makes this true at the start, and every batch of another run keeps it, since it adds to `others`. No hypothesis |
| `LikeLive` | `Spec => []BackfilledLikeLive` | `ContentInv`: a stored line has the columns of its request, for what a line tells. Hypothesis `AgentsAreNoDashes` |
| `NoRowSkipped` | `Spec => []NothingSkipped` | `SkipInv`: a row up to a dumped id is dumped or excused, and an id on its way that was passed is one of those in flight, so that it is excused when it commits. `BaselineDumped`: the baseline an export finds is a dumped id, so the rows below it are settled already; `DumpedAfter`: what a dump that is written adds and loses. `ExportInv` bounds ids and minutes. No hypothesis |
| `NothingHidden` | `WeekSpec => []NothingIsHidden` | a dump knows less of a request than the library of the moment looks at, and less text makes no more signals (`BodilessSignalsLess`), so the replayed level is at most the live one |
| `ValidationRight` | `WeekSpec => []ValidationForetells` | every trial in a report is `Validate` of its dump with the library of that moment (`IdsInv` gives the ids). `NoneFound` and its converse say when a request slips through a library, text by text; `TrialSays` what a trial's one expression finds in row after row, which is at the start of each text unless it has the g flag; `TrialForetells` compares the two, list by list. No hypothesis |
| `ClustersRight` | `WeekSpec => []ClustersCountTheirRows` | by induction over the rows of the dump: after row k a group's cluster counts those of the first k rows that have its key, and its first and last instant are their least and greatest; then the thresholds; `RangeSpans` is the time range. No hypothesis |
| `RoundImplementsExport` | `WeekSpec => Spec` | mining and validation leave the export's variables alone; so the theorems of the export hold of the whole round |

### What they rest on

- *Assumptions of the modules* (section 3): the stores on `DataAssumption`,
  `StoredFormAssumption`, `CandidatesAssumption`; the backtest on `ScanAssumption` and
  `LogAssumption` (a table is finite, its ids are a primary key, instants are numbers); the
  replay check and the harness on `PoolAssumption` (the same of the rows there may be) and
  `TuningAssumption`; migrations on `RunnerAssumption`
  (file names are distinct, and none is one of the two words the model uses for "every
  migration" and for an unknown one); the middleware on `SeverityAssumption` for levels and
  `RequestAssumption` for chains and secrets (a client has an address; values of a body are
  told apart, so that one of them can be followed); backfill on `BackfillAssumption` (a line
  stands for one logged request); export and mining on `ExportAssumption` and
  `SeverityAssumption`.
- *Hypotheses of single theorems*, each a condition under which the tool keeps its promise,
  with section 6 on what happens without it: `PositiveCounts`; `InitialSegments` (working
  trees only ever add files behind the last, as the numbered names want it);
  `AgentsAreNoDashes` (nginx writes a dash for no agent).
- *Hypotheses that give a constant operator its type*, which TLC has no finite way to evaluate:
  `ConfidencesAreNumbers` and `ScoresAreNumbers` (the sigmoids of the strategies and of the
  harness return numbers).
- *The tools.* `BacktestStrategiesProofs` extends `ScoreTuning` as well: the replay check and the
  harness call the same strategies over the same table (`RequestLog`), so the lemmas about a
  window serve both specifications, `Spec` of the backtest and `ToolsSpec` of the tools.
- *Induction.* The installed provers cannot instantiate the library's induction theorems. Where
  an argument is by induction over numbers or positions, `LeastOf` and `GreatestOf`
  (`OrderingProofs`) give the least position at which a statement would fail; that is how
  `AscendingLists`, `AscendingUnique` and `HighestFirstLists` say what a sort returns,
  `EntriesAtLists` and `FirstAtHas` what a filter and a grouping do. `RecursionExists` is the
  same for the passes that carry something from row to row: a recursive function over the
  naturals that stays within a set has the values its equation says.

### Only model-checked

Liveness: `ScansEnd`, `CommandsEnd`, `FinishedIsSettled`. A proof needs ENABLED and fairness,
which are beyond the prover. The four properties of the violation runs are refuted, not proved;
`DownRollsBackAtMostCount` is both: proved for positive counts, refuted for 0.

## 6. Where documents and code disagree

Shown by a run each, whose property is the sentence of the document:

| run | what it shows |
|---|---|
| `migrations_count_zero` | `migrate.ts:216`: `down 0` rolls back everything |
| `readme_install` | `README.md:96`: psql runs the DOWN half too |
| `honey_geo` | `README.md:160`: one missing database disables both dimensions |
| `backfill_on_second` | `backfill-from-nginx.ts:186`: the occupied-window check and the scan have different boundaries |

Met while modelling, and reproducible with other constants where they say so:

- `Strategy.ts:26` calls `default_suppress_for_ms` "how long until the same identifer
  re-fires"; `runEpoch` only uses it for the expiry of markers, and the same identifier is
  reported again in the next window.
- `fingerprint-replay-check.ts:9` says that a pinned range "replays identically every
  run"; the query orders by `created_at` alone, and of two equally large clusters the
  first one in that order is named. `ReplaysAgreeOnCluster` states what does agree.
- `run-backfill.ts:89` prints a DELETE without an upper bound for "this window"
  (`FollowAdvice` models it): the rows of later windows go too.
- `run-backfill.ts:79`: check and insert are separate statements, so two backfills of one window
  at once insert its lines twice; the run has such behaviours, the first exception of
  `NoLineTwice`. Its second is the boundary of `backfill_on_second`: `--from` and `--to` are
  instants an operator writes down to the second (`run-backfill.ts:55`, `72`), and so are nginx's.
- `export-new-rows.ts:85` "pulls every row with a higher id": the middleware inserts over a pool
  of 20 connections, and a row whose INSERT commits after an export passed its id is in no dump,
  now or later (`gaps.inFlight`).
- `export-new-rows.ts:97-100`: two exports of one minute, or of the hour that the end of summer
  time repeats, have one name, and the second one replaces the first (`gaps.replaced`). A row that
  was only there is in no dump, unless a baseline below it is passed by hand.
- `validate-patterns.ts:1-9` promises what a pattern "would newly catch"; its type allows
  `METHOD_THREATS` (line 48), whose proposals it tries on the URL (lines 91-94), though the
  detector compares methods: rows counted will not be caught, and those that would be are not
  counted. The same holds of a body pattern that matches "[REDACTED]" or an empty text.
- `backtest-strategies.ts:302`: a campaign that was set dormant goes on being fired, since the
  upsert leaves the status alone (`PostgresCampaignRecordStore.ts:65-85`); its fires are printed
  and the summary of active campaigns does not have it.
- `mine-export.ts:233-236`: `time_range` is that of the first and the last row by id. With a
  backfilled row in the dump it may end before it begins; first and last sight of a cluster
  (lines 178-181) do compare.
- `mine-export.ts:5-7` wants to "only surface rows that are STILL none"; bodies are text in a
  dump and are not scanned, so requests caught by their body are reported as well. The
  converse, `NothingIsHidden`, holds.
- `honey.ts:268`: a `redactKeys` with the g flag resumes in the next key where it matched in
  the last (`honey.ts:167` resets this in the detector), so keys are missed; `SensitiveKeys`
  stands for an expression without it.
- `backfill-from-nginx.ts` stores the whole URL with its query as `route`, where the
  middleware stores `req.path`; a client that sends a literal dash as its agent is backfilled
  as one without an agent (`AgentsAreNoDashes` excludes it).
- `score-tuning.ts:105`: when the time from the first row to the last is a multiple of the
  window, the rows at the very last instant are in no window.
- `mine-export.ts` groups by ASN and organisation name together, so an ASN whose name changed
  between two rows is two clusters.
- `validate-patterns.ts:86` runs one expression over all rows: with the g flag it passes over
  matching rows and, since it goes on with the legitimate routes, over those as well: the
  count of new catches is too low, and a hit on the site's own routes may be missed. Added to
  `PATH_THREATS` with that flag, a pattern would remember requests in the detector as well, which
  resets body patterns only (`honey.ts:133-143`); the modelled library holds none.
- `--stepInMs 0` never ends (`backtest-strategies.ts:78`, `340`); `ScanAssumption` excludes it.

## 7. Not modelled

- `detectedCampaigns.ts`, `catalog-coverage-check.ts`: a table of literals, and one assertion
  over it that no other code uses.
- The patterns of `threatDefinitions.ts`, the ASN registry and the organisations' names are
  data; the models take arbitrary ones.
- The scores' weighted sigmoids are floating point: `Confidence` and `maxOR` stand for any
  function of the figures.
- `database_connector.ts` and the example application: wiring.
- Of modelled parts: splitting arguments, layout and colours, the printing of `status`, the
  samples listed beside the counts of a report, gzip, and the columns that copy a request.

## 8. Plan

Done: the stores with their contract; the backtest with metrics, strategies, markers and
output; replay check and score tuning; migrations; middleware, enrichment and the forwarding
chain; backfill; export; mining, clusters and validation; and the theorems of section 5.

`src/` has no live detector yet (nothing calls the tracker, nothing writes
`logs_flag_tracker`), so there is none to compose with the backtest; `TrackerWouldAgree` and
the two sources of `postgres_store` say what it can rely on.

What would come next:

1. The middleware composed with backfill and export over one `logs_requests`: identity, NULL
   `is_tor` and the detected window as shared state, where the modules now keep one view
   each.
2. Hazards without a property, when the code decides what it wants of them: the exit code of a
   failed migration, steps of 0, and the rows of later windows a followed DELETE takes.
3. What the exceptions of `NothingSkipped` and `NoLineTwice` cost, as properties of their own,
   should exports come to wait for open transactions and backfills to take a lock: each would
   then lose an exception.
