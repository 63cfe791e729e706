-------------------------- MODULE NginxBackfill --------------------------
(***************************************************************************)
(* tools/run-backfill.ts: requests the middleware missed are inserted into *)
(* logs_requests from nginx's access logs, which log whole seconds.  A run *)
(* settles its window, refuses it if backfilled rows exist there (they are *)
(* the rows whose is_tor is NULL), reads the log files, and inserts what   *)
(* falls into the window batch by batch, each batch one statement.  A run  *)
(* that refused prints the DELETE an operator should run first.  A line is *)
(* what nginx logged of a request: not the body, nor the headers the       *)
(* middleware would have read.                                             *)
(***************************************************************************)
EXTENDS Enrichment, FiniteSets

CONSTANTS
    Lines,          \* the lines of the log files, in the order read
    Parseable,      \* those NGINX_COMBINED_LOG_FORMAT matches
    At,             \* line -> its timestamp
    RequestOf,      \* line -> the request behind it: [ip, url, method, body, userAgent]
    LoggedAgent,    \* line -> the user agent nginx wrote: "-" or "" for none
    RealAt,         \* created_at of the middleware's own rows
    Now,            \* when the tool is run
    Windows,        \* the windows given with --from and --to
    BatchSize,      \* BATCH_SIZE
    Runs,           \* concurrent processes
    MaxRuns         \* bound: times the tool is started

\* A line stands for the place it has in the files: no two are one.
ASSUME BackfillAssumption ==
    /\ Lines \in Seq(ToSet(Lines)) /\ \A i, j \in DOMAIN Lines : Lines[i] = Lines[j] => i = j
    /\ At \in [ToSet(Lines) -> Nat] /\ Parseable \subseteq ToSet(Lines)
    /\ \A line \in Parseable :
          LoggedAgent[line] \in IF RequestOf[line].userAgent = NoText THEN {"-", ""}
                               ELSE {RequestOf[line].userAgent}
    /\ RealAt \subseteq Nat /\ Now \in Nat
    /\ Windows \subseteq [from : Nat, to : Nat]
    /\ {BatchSize, MaxRuns} \subseteq Nat \ {0}

VARIABLES
    stored,     \* line -> how many backfilled rows logs_requests has of it
    content,    \* line -> what the last of them says
    runs,       \* per process: pc, window, dryRun, loaded databases, rows to insert;
                \* history: what others inserted since its window was checked
    advised,    \* the windows whose DELETE was printed and not yet run
    started     \* times the tool was started

vars == <<stored, content, runs, advised, started>>

NoRow == [threat_level |-> "no row"]

NoWindow == [from |-> 0, to |-> 0]
Idle == [pc |-> "idle", window |-> NoWindow, dryRun |-> FALSE, geo |-> {},
         rest |-> << >>, others |-> {}]

---------------------------------------------------------------------------
(* A line *)

\* parseNginxLog: "-", or nothing, stands for no user agent.
UserAgent_Dash(line) ==                        \* mutant: "-" is taken for one
    IF LoggedAgent[line] = "" THEN NoText ELSE LoggedAgent[line]
UserAgent(line) == IF LoggedAgent[line] \in {"-", ""} THEN NoText ELSE LoggedAgent[line]

parseNginxLog(line) ==
    [ ip |-> RequestOf[line].ip, url |-> RequestOf[line].url,
      method |-> RequestOf[line].method, user_agent |-> UserAgent(line) ]

\* A copy of detectSource of the middleware, with copies of its expressions but for
\* BOT_PATTERNS.
deriveSource_BrowserFirst(userAgent) ==        \* mutant: the copy drifts
    IF userAgent = NoText THEN "no-agent"
    ELSE IF userAgent \in AgentsOf.browser THEN "browser"
    ELSE IF userAgent \in AgentsOf.bot THEN "bot"
    ELSE IF userAgent \in AgentsOf.curl THEN "curl"
    ELSE "unknown"
deriveSource(userAgent) ==
    IF userAgent = NoText THEN "no-agent"
    ELSE IF userAgent \in AgentsOf.curl THEN "curl"
    ELSE IF userAgent \in AgentsOf.postman THEN "postman"
    ELSE IF userAgent \in AgentsOf.insomnia THEN "insomnia"
    ELSE IF userAgent \in AgentsOf.bot THEN "bot"
    ELSE IF userAgent \in AgentsOf.browser THEN "browser"
    ELSE "unknown"

\* enrichRequest, and the columns bulkInsertBackfilledRows writes.  An address
\* is looked up once in a run, whose databases do not change.
enrichRequest(parsed, geo) ==
    LET location == geoLookup(geo, parsed.ip)
        request == [ url |-> parsed.url, method |-> parsed.method,
                     body |-> NoText, userAgent |-> parsed.user_agent ]
        threats == detectThreats(Library, request, {})
    IN  [ ip |-> parsed.ip, full_url |-> parsed.url, method |-> parsed.method,
          source |-> deriveSource(parsed.user_agent),
          threat_level |-> threats.level, threat_details |-> threats.signals,
          ip_location |-> location, ip_type |-> classifyIp(location, parsed.ip) ]

---------------------------------------------------------------------------
(* Windows *)

\* SELECT COUNT(*) ... created_at >= $1 AND created_at < $2 AND is_tor IS NULL
InCount_Upper(line, window) == At[line] >= window.to     \* mutant: counts beside the window
InCount(line, window) == At[line] >= window.from /\ At[line] < window.to

countBackfilledRowsInWindow(window) ==
    Cardinality({line \in ToSet(Lines) : stored[line] > 0 /\ InCount(line, window)})

\* The lines kept: timestamp <= startOfGap and timestamp > endOfGap are not.
InGap(line, window) == At[line] > window.from /\ At[line] <= window.to

\* Rows in the order the files were read.
RowsOf(window) ==
    EntriesAt(Lines, {i \in DOMAIN Lines : Lines[i] \in Parseable /\ InGap(Lines[i], window)})

\* Without --from and --to: from the last row of the middleware's until now.
DetectedWindows ==
    {[from |-> last, to |-> Now] : last \in {t \in RealAt : \A u \in RealAt : u <= t}}

---------------------------------------------------------------------------
(* A run *)

\* initGeo goes on with the databases it could load.
Start(r, window, dryRun, geo) ==
    /\ runs[r].pc = "idle" /\ started < MaxRuns
    /\ started' = started + 1
    /\ runs' = [runs EXCEPT ![r] = [Idle EXCEPT !.pc = "check", !.window = window,
                                                !.dryRun = dryRun, !.geo = geo]]
    /\ UNCHANGED <<stored, content, advised>>

Ends(r) == runs' = [runs EXCEPT ![r] = Idle]

Refuses(r) ==
    /\ runs[r].pc = "check" /\ ~runs[r].dryRun
    /\ countBackfilledRowsInWindow(runs[r].window) > 0
    /\ advised' = advised \cup {runs[r].window}
    /\ Ends(r)
    /\ UNCHANGED <<stored, content, started>>

\* The files are read and nothing is written.
DryRuns(r) ==
    /\ runs[r].pc = "check" /\ runs[r].dryRun
    /\ Ends(r)
    /\ UNCHANGED <<stored, content, advised, started>>

Scans(r) ==
    LET rows == RowsOf(runs[r].window) IN
    /\ runs[r].pc = "check" /\ ~runs[r].dryRun
    /\ countBackfilledRowsInWindow(runs[r].window) = 0
    /\ runs' = [runs EXCEPT ![r].pc = IF rows = << >> THEN "idle" ELSE "insert",
                            ![r].rest = rows]
    /\ UNCHANGED <<stored, content, advised, started>>

Least(a, b) == IF a <= b THEN a ELSE b

\* for (i = 0; i < allRows.length; i += BATCH_SIZE): the next slice.
NextBatch_DropsShort(rest) ==                  \* mutant: the last slice is dropped
    [now |-> IF Len(rest) < BatchSize THEN << >> ELSE SubSeq(rest, 1, BatchSize),
     later |-> SubSeq(rest, BatchSize + 1, Len(rest))]
NextBatch(rest) ==
    [now |-> SubSeq(rest, 1, Least(BatchSize, Len(rest))),
     later |-> SubSeq(rest, BatchSize + 1, Len(rest))]

InsertBatch(r) ==
    LET batch == NextBatch(runs[r].rest) IN
    /\ runs[r].pc = "insert"
    /\ stored' = [line \in ToSet(Lines) |->
                     stored[line] + IF line \in ToSet(batch.now) THEN 1 ELSE 0]
    /\ content' = [line \in ToSet(Lines) |->
                      IF line \in ToSet(batch.now)
                      THEN enrichRequest(parseNginxLog(line), runs[r].geo) ELSE content[line]]
    /\ runs' = [s \in Runs |->
                    IF s = r
                    THEN [runs[r] EXCEPT !.rest = batch.later,
                                         !.pc = IF batch.later = << >> THEN "idle" ELSE "insert"]
                    ELSE [runs[s] EXCEPT !.others =
                             IF runs[s].pc = "insert" THEN @ \cup ToSet(batch.now) ELSE @]]
    /\ UNCHANGED <<advised, started>>

\* The process dies or a statement fails: batches already inserted stay.
Crash(r) ==
    /\ runs[r].pc # "idle"
    /\ Ends(r)
    /\ UNCHANGED <<stored, content, advised, started>>

\* The operator runs the DELETE that was printed, which has no upper end;
\* nobody is taken to run it while the tool is still inserting.
DeletedBy(window) == {line \in ToSet(Lines) : At[line] >= window.from}

FollowAdvice(window) ==
    /\ window \in advised /\ \A r \in Runs : runs[r].pc = "idle"
    /\ advised' = advised \ {window}
    /\ stored' = [line \in ToSet(Lines) |->
                     IF line \in DeletedBy(window) THEN 0 ELSE stored[line]]
    /\ content' = [line \in ToSet(Lines) |->
                      IF line \in DeletedBy(window) THEN NoRow ELSE content[line]]
    /\ UNCHANGED <<runs, started>>

---------------------------------------------------------------------------

Init ==
    /\ stored = [line \in ToSet(Lines) |-> 0]
    /\ content = [line \in ToSet(Lines) |-> NoRow]
    /\ runs = [r \in Runs |-> Idle]
    /\ advised = {} /\ started = 0

Next ==
    \/ \E r \in Runs :
          \/ \E window \in Windows \cup DetectedWindows, dryRun \in BOOLEAN,
                geo \in SUBSET {"city", "asn"} : Start(r, window, dryRun, geo)
          \/ Refuses(r) \/ DryRuns(r) \/ Scans(r) \/ InsertBatch(r) \/ Crash(r)
    \/ \E window \in advised : FollowAdvice(window)

Spec == Init /\ [][Next]_vars

---------------------------------------------------------------------------
(* Properties *)

\* "Aborting: N backfilled rows already exist in this window": however often runs
\* die, are refused and are started over, a run inserts a line that the table has
\* already in two cases only: another process inserted it since this one checked its
\* window, or it was logged in the very last second of the window, which the check
\* does not count.
NoLineTwice ==
    [][\A r \in Runs, line \in ToSet(Lines) :
          InsertBatch(r) /\ stored[line] > 0 /\ stored'[line] > stored[line] =>
              At[line] = runs[r].window.to \/ line \in runs[r].others]_vars

\* A run that inserts its last batch leaves every request of its window in
\* the table: batches cover the window, and what a crashed run left behind is
\* never taken for the whole.
DoneMeansComplete ==
    [][\A r \in Runs :
          runs[r].pc = "insert" /\ InsertBatch(r) /\ runs'[r].pc = "idle"
              => \A line \in Parseable : InGap(line, runs[r].window) => stored'[line] > 0]_vars

\* "Aborting: N backfilled rows already exist in this window": no run inserts
\* into a window that held backfilled rows when it was checked.
OccupiedWindowsRefused ==
    [][\A r \in Runs : runs[r].pc = "check" /\ runs'[r].pc = "insert" =>
          \A line \in ToSet(Lines) : InGap(line, runs[r].window) => stored[line] = 0]_vars

\* A backfilled row says of its request what the middleware's row would have
\* said: the same source and, but for what the body alone gives away, the same
\* verdict; and a network of a type only where the address was located.
BackfilledLikeLive ==
    \A line \in ToSet(Lines) :
        stored[line] > 0 =>
            LET row == content[line]
                request == RequestOf[line]
                live == detectThreats(Library, request, {})
            IN  /\ row.source = detectSource(request.userAgent)
                /\ row.threat_details = {s \in live.signals : s.category # "body"}
                /\ live.signals = row.threat_details => row.threat_level = live.level
                /\ row.ip_type = IF row.ip_location = {} THEN Unknown
                                 ELSE classifyIp({"city", "asn"}, request.ip)
===========================================================================
