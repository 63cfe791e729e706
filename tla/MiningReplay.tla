--------------------------- MODULE MiningReplay ---------------------------
(***************************************************************************)
(* The weekly mining round, composed with the export: requests are logged  *)
(* with the verdict of their day, exported (ExportNewRows), and replayed   *)
(* through the pattern library as it is now (tools/mine-export.ts), so     *)
(* that what still slips through can be turned into patterns.  A report    *)
(* lists the shapes, method and URL, of the rows whose level is "none".    *)
(* A proposal is tried on a dump before it is added: which of those rows   *)
(* would it catch (tools/validate-patterns.ts)?                            *)
(***************************************************************************)
EXTENDS ExportNewRows, CampaignClusters, ThreatDetection, Ordering

CONSTANTS
    RequestOf,              \* id -> the request logged as that row
    AllPath, AllBody,       \* every pattern the library holds or is proposed to it,
    AllMethod,              \* by the list it belongs to
    FirstPatterns,          \* those it starts with
    MaxAdded,               \* bound: patterns added to it
    StoredText,             \* text of a body -> its text in a dump, redacted
    LegitRoutes,            \* LEGIT_FIXTURE: the routes of the site itself, a list
    Severities              \* what a rate limiter may add to a row

\* What the library holds: detectThreats never resets the lastIndex of a path
\* expression, so that one with the g flag would remember every earlier request.
MayHold(patterns) == \A threat \in patterns \cap AllPath : ~threat.global

ASSUME SeverityAssumption ==
    \A threat \in AllPath \cup AllBody \cup AllMethod :
        threat.severity \in DOMAIN SEVERITY_RANK \ {"none"}

ASSUME RoundAssumption ==
    /\ MaxAdded \in Nat /\ MayHold(FirstPatterns)
    /\ LegitRoutes \in Seq(STRING)
    /\ \A id \in 1..MaxId :
          RequestOf[id].is_tor \in BOOLEAN /\ RequestOf[id].created_at \in Nat

VARIABLES
    known,      \* the patterns the library holds
    stored,     \* threat_level of the rows, by id
    report      \* what a tool has just reported, and what it was made from

miningVars == <<known, stored, report>>
weekVars == <<vars, miningVars>>

\* The detector with a given library; a method threat names its method, and is
\* compared with it whole.
Library(patterns) ==
    [ path |-> patterns \cap AllPath, body |-> patterns \cap AllBody,
      method |-> patterns \cap AllMethod ]

LevelOf(patterns, request) == detectThreats(Library(patterns), request, {}).level

---------------------------------------------------------------------------

\* In a dump the JSONB columns are text, and text is not scanned as a body:
\* only an object is.
serializeRow(request) ==
    [ url |-> request.url, method |-> request.method, userAgent |-> request.userAgent,
      body |-> NoText ]

NoReport == [ tool |-> "none", patterns |-> {}, ids |-> {}, shapes |-> {},
              clusters |-> NoClusters, proposals |-> {} ]

\* A dump has its rows by id, which need not be the order they were logged in:
\* the nginx backfill inserts requests of the past.
InIdOrder(ids) == Ascending(ids)

Shape(id) == [method |-> RequestOf[id].method, full_url |-> RequestOf[id].url]

CurrentLevel_Stored(id) == stored[id]          \* mutant: the verdict of its day
CurrentLevel(id) == LevelOf(known, serializeRow(RequestOf[id]))

\* replay: a row and what the library says of it now.
Replayed(id) ==
    LET row == RequestOf[id] IN
    [ current_level |-> CurrentLevel(id), ip |-> row.ip, asn |-> row.asn, org |-> row.org,
      url |-> row.url, method |-> row.method, is_tor |-> row.is_tor,
      created_at |-> row.created_at ]
replay(ids) == LET order == InIdOrder(ids) IN [k \in DOMAIN order |-> Replayed(order[k])]

buildUncaughtShapes(ids) == {Shape(id) : id \in {i \in ids : CurrentLevel(i) = "none"}}

\* regex.test: an expression with the g flag goes on where it matched last.
Test(pattern, resumes, text) ==
    LET hit == text \in pattern.matches /\ ~resumes IN
    [hit |-> hit, resumes |-> hit /\ pattern.global]

\* What a proposal is tested on: body patterns on the stored body, then on the
\* URL; those for paths, and those for methods too, on the URL alone.
ProposalHaystacks_Always(pattern, id) ==       \* mutant: whatever the target
    <<StoredText[RequestOf[id].body], RequestOf[id].url>>
ProposalHaystacks(pattern, id) ==
    IF pattern \in AllBody THEN <<StoredText[RequestOf[id].body], RequestOf[id].url>>
    ELSE <<RequestOf[id].url>>

\* haystacks.some, over one text or two: up to the first hit.
TestSome(pattern, resumes, texts) ==
    LET first == Test(pattern, resumes, texts[1]) IN
    IF first.hit \/ Len(texts) = 1 THEN first ELSE Test(pattern, first.resumes, texts[2])

\* One regular expression over a list of such texts, one after the other.
TestEach(pattern, resumes, list) ==
    LET tested[k \in 0..Len(list)] ==
            IF k = 0 THEN [hit |-> FALSE, resumes |-> resumes]
            ELSE TestSome(pattern, tested[k - 1].resumes, list[k])
    IN  tested

\* The rows a proposal "would newly catch", in the order of the dump, and then
\* the legitimate routes it hits; one with the g flag may miss some of either.
Validate(pattern, ids) ==
    LET order == InIdOrder(ids)
        onRows == TestEach(pattern, FALSE,
                      [k \in DOMAIN order |-> ProposalHaystacks(pattern, order[k])])
        onRoutes == TestEach(pattern, onRows[Len(order)].resumes,
                        [k \in DOMAIN LegitRoutes |-> <<LegitRoutes[k]>>])
    IN  [ pattern |-> pattern,
          caught |-> {order[k] : k \in {j \in DOMAIN order :
                                          onRows[j].hit /\ CurrentLevel(order[j]) = "none"}},
          fixtureHits |-> {LegitRoutes[k] : k \in {j \in DOMAIN LegitRoutes : onRoutes[j].hit}} ]

---------------------------------------------------------------------------

\* The middleware: the verdict of the day, and a rate limiter's.
Log(c, severity) ==
    /\ DrawId(c)
    /\ stored' = Append(stored,
                  Escalate(LevelOf(known, RequestOf[nextId]), severity))
    /\ report' = NoReport
    /\ UNCHANGED known

\* A proposal is added to threatDefinitions.ts.
AddPattern(pattern) ==
    /\ pattern \notin known /\ MayHold({pattern})
    /\ Cardinality(known \ FirstPatterns) < MaxAdded
    /\ known' = known \cup {pattern}
    /\ report' = NoReport
    /\ UNCHANGED <<vars, stored>>

\* The newest dump, or the one given with --file; a torn one ends the run.
Mine(m) ==
    /\ dumps[m].whole
    /\ report' = [NoReport EXCEPT !.tool = "mine-export", !.patterns = known,
                     !.ids = dumps[m].ids, !.shapes = buildUncaughtShapes(dumps[m].ids),
                     !.clusters = buildClusters(replay(dumps[m].ids))]
    /\ UNCHANGED <<vars, known, stored>>

\* A file of proposals, tried one by one: whatever their target and flags.
Proposals == AllPath \cup AllBody \cup AllMethod

ValidatePatterns(m) ==
    /\ dumps[m].whole
    /\ report' = [NoReport EXCEPT !.tool = "validate-patterns", !.patterns = known,
                     !.ids = dumps[m].ids,
                     !.proposals = {Validate(p, dumps[m].ids) :
                                       p \in Proposals \ known}]
    /\ UNCHANGED <<vars, known, stored>>

WeekInit ==
    /\ Init
    /\ known = FirstPatterns
    /\ stored = [id \in 1..FirstRows |-> LevelOf(known, RequestOf[id])]
    /\ report = NoReport

WeekNext ==
    \/ \E c \in Connections, severity \in Severities \cup {"none"} : Log(c, severity)
    \/ /\ \/ \E c \in Connections : EndInsert(c)
          \/ MinutePasses \/ ClockGoesBack
          \/ \E sinceId \in Baselines : Export(sinceId)
       /\ report' = NoReport
       /\ UNCHANGED <<known, stored>>
    \/ \E pattern \in Proposals : AddPattern(pattern)
    \/ \E m \in DOMAIN dumps : Mine(m) \/ ValidatePatterns(m)

WeekSpec == WeekInit /\ [][WeekNext]_weekVars

---------------------------------------------------------------------------
(* Properties *)

\* A request for a page of the site.
Visit(url) == [url |-> url, method |-> "GET", body |-> NoText, userAgent |-> "browser"]

SlipsThrough(id) == LevelOf(report.patterns, RequestOf[id]) = "none"

\* Nothing is hidden from the miners: a dumped request in which the library
\* finds nothing is in the report, whatever level its row was stored with.
NothingIsHidden ==
    report.tool = "mine-export" =>
        \A id \in report.ids : SlipsThrough(id) => Shape(id) \in report.shapes

\* A proposal that finds something in the method, where no trial looks.
SeenInMethod(pattern, method) ==
    \/ pattern \in AllMethod /\ pattern.method = method
    \/ pattern \in AllBody /\ method \in pattern.matches

\* A body pattern is tried on what the dump has for a body: on its text after the
\* redaction, and on an empty one.
NotTheScannedBody(pattern, body) ==
    pattern \in AllBody /\ (body = NoText \/ StoredText[body] # body)

\* What a trial says of a row: what is counted is caught once the proposal is in,
\* and what slips through until then is counted.
ForetellsRow(patterns, trial, id) ==
    LET pattern == trial.pattern
        request == RequestOf[id]
        caught == LevelOf(patterns \cup {pattern}, request) # "none"
    IN  /\ id \in trial.caught =>
              caught \/ pattern \in AllMethod \/ NotTheScannedBody(pattern, request.body)
        /\ LevelOf(patterns, request) = "none" /\ caught =>
              \/ id \in trial.caught
              \/ StoredText[request.body] # request.body
              \/ SeenInMethod(pattern, request.method)
              \/ pattern.global

\* What it says of the legitimate routes.
ForetellsVisits(patterns, trial) ==
    trial.fixtureHits = {} =>
        \/ SeenInMethod(trial.pattern, "GET")
        \/ trial.pattern.global
        \/ \A k \in DOMAIN LegitRoutes :
              LevelOf(patterns \cup {trial.pattern}, Visit(LegitRoutes[k]))
                  = LevelOf(patterns, Visit(LegitRoutes[k]))

\* "how many still-uncaught shapes each pattern would newly catch": a validation
\* foretells what the middleware will do.  A request counted as newly caught is
\* caught once the proposal is in the library, unless the proposal is for methods,
\* which is tried on the URL, or was tried on a body that is not the one the
\* middleware scans.  One that slips through until then is counted, unless what
\* gives it away is a part of the body that is not stored, or the method, or the
\* proposal has the g flag, with which the tool passes over some rows.  A proposal
\* that hits no legitimate route changes the verdict of none, but for the method and
\* the g flag again.  Of a path expression with the g flag nothing is said.
ValidationForetells ==
    \A trial \in report.proposals : MayHold({trial.pattern}) =>
        /\ \A id \in report.ids : ForetellsRow(report.patterns, trial, id)
        /\ ForetellsVisits(report.patterns, trial)

OfRows(Key(_), key) == {i \in report.ids : Key(RequestOf[i]) = key}

\* What a cluster says is what counting its rows says, whatever order they were
\* logged in; and its uncaught requests are the rows of the reported shapes, but
\* for those without a user agent, which are never uncaught.
CountsItsRows(cluster, rows, shapes) ==
    LET times == {RequestOf[i].created_at : i \in rows} IN
    /\ cluster.request_count = Cardinality(rows)
    /\ cluster.ips = {RequestOf[i].ip : i \in rows}
    /\ cluster.tor_count = Cardinality({i \in rows : RequestOf[i].is_tor})
    /\ {cluster.first_seen, cluster.last_seen} \subseteq times
    /\ \A at \in times : cluster.first_seen <= at /\ at <= cluster.last_seen
    /\ cluster.threat_levels["none"] = Cardinality({i \in rows : Shape(i) \in shapes
                                       /\ RequestOf[i].userAgent # NoText})
    /\ cluster.threat_levels["none"] + cluster.threat_levels["low"]
        + cluster.threat_levels["medium"] + cluster.threat_levels["high"] = Cardinality(rows)

\* No backfill among them: of two rows the earlier one has the smaller id.
LoggedInIdOrder(ids) ==
    \A i, j \in ids : i <= j => RequestOf[i].created_at <= RequestOf[j].created_at

\* The two files of a report agree: every cluster counts its rows, by whatever it
\* groups them, and every /24 that is busy enough is there.  The time range of the
\* report is that of its first and last row, and so spans them all if no row was
\* backfilled.
ClustersCountTheirRows ==
    LET found == report.clusters
        Right(cluster, rows) == CountsItsRows(cluster, rows, report.shapes)
    IN
    /\ \A ip \in DOMAIN found.by_ip : Right(found.by_ip[ip], OfRows(IpKey, ip))
    /\ \A key \in DOMAIN found.by_asn : Right(found.by_asn[key], OfRows(AsnKey, key))
    /\ \A net \in DOMAIN found.by_subnet : Right(found.by_subnet[net], OfRows(SubnetKey, net))
    /\ report.tool = "mine-export" =>
          /\ \A net \in Range(Subnet24) :
                LET rows == OfRows(SubnetKey, net) IN
                /\ Cardinality(rows) >= MinRequests
                /\ Cardinality({RequestOf[i].ip : i \in rows}) >= MinSubnetIps
                => net \in DOMAIN found.by_subnet
          /\ LoggedInIdOrder(report.ids) =>
                \A i \in report.ids : /\ found.time_range.first <= RequestOf[i].created_at
                                      /\ RequestOf[i].created_at <= found.time_range.last
===========================================================================
