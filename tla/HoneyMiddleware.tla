-------------------------- MODULE HoneyMiddleware --------------------------
(***************************************************************************)
(* The Express middleware (middleware/honey.ts) and what it reads when a   *)
(* response has been sent: the GeoLite2 databases (helpers/geoLookup.ts),  *)
(* the Tor exit list (helpers/ipClassifier.ts) and the lazily imported     *)
(* jsonwebtoken.  Requests overlap; each one runs the handler of its own   *)
(* "finish" event in one go, and its INSERT ends later, in any order.      *)
(* Columns that only copy the request (route, status, timings) are left    *)
(* out.  A body is the text that is scanned and, for the column, its       *)
(* values: each with its path, the keys and array positions that lead to   *)
(* it.  X-Forwarded-For is what the client wrote into it and what the      *)
(* proxies on its way appended.                                            *)
(***************************************************************************)
EXTENDS Enrichment, FiniteSets, FiniteSetsExt

CONSTANTS
    Ids,            \* requests
    RequestOf,      \* id -> [path, url, method, body, values, userAgent, ip,
                    \*        tokens, preloaded, via]
    SensitiveKeys,  \* the keys redactKeys matches, without a g flag
    SkipPaths,      \* skipPaths
    ValidIps,       \* addresses that VALID_IP accepts
    RateLimits,     \* severities an upstream rate limiter attaches
    TorLists,       \* what check.torproject.org may answer
    Fetches         \* fetchTorExitNodes calls, which may overlap

ASSUME ListsAssumption == \A list \in TorLists : list # {}

\* A client has an address; the values of a body are told apart.
ASSUME RequestAssumption ==
    \A id \in Ids :
        LET request == RequestOf[id] IN
        /\ request.via \in {"cloudflare", "proxy", "direct"}
        /\ request.preloaded \in Seq(STRING) /\ request.client \in STRING \ {Blank}
        /\ \A leaf \in request.values : leaf.value # "[REDACTED]"
        /\ \A leaf, other \in request.values : leaf.value = other.value => leaf = other

ASSUME SeverityAssumption ==
    /\ RateLimits \subseteq DOMAIN SEVERITY_RANK
    /\ \A threat \in PathThreats \cup BodyThreats \cup MethodThreats :
          threat.severity \in DOMAIN SEVERITY_RANK

VARIABLES
    phase,          \* id -> new | open | skipped | closing | closed
    rateLimitInfo,  \* id -> the severity attached to it, or "none"
    row,            \* id -> the parameters of its INSERT
    inserts,        \* ids of INSERTs on their way
    stored,         \* id -> how many rows logs_requests has of it
    failed,         \* ids of INSERTs that failed
    resuming,       \* body patterns whose lastIndex is not 0
    geo,            \* the databases that are loaded
    torExitNodes,   \* the exit list in memory
    fetches,        \* fetch -> [pc, list]
    jwtLib          \* importing | loaded | missing

logVars == <<row, inserts, stored, failed>>
enrichVars == <<geo, torExitNodes, fetches, jwtLib>>
vars == <<phase, rateLimitInfo, resuming, logVars, enrichVars>>

NoRow == [ip |-> "none"]

TypeOK ==
    /\ phase \in [Ids -> {"new", "open", "skipped", "closing", "closed"}]
    /\ rateLimitInfo \in [Ids -> RateLimits \cup {"none"}]
    /\ inserts \subseteq Ids /\ failed \subseteq Ids
    /\ stored \in [Ids -> Nat]
    /\ resuming \subseteq BodyThreats
    /\ geo \subseteq {"city", "asn"}
    /\ torExitNodes \in {{}} \cup TorLists
    /\ jwtLib \in {"importing", "loaded", "missing"}

---------------------------------------------------------------------------
(* Enrichment *)

isTorExitNode(ip) == ip \in torExitNodes

\* The first of cookieNames that the request has, as a cookie or else as a
\* header; what a later one has is not looked at.
TokenOf(request) ==
    LET Candidate(named) == IF named.cookie # "none" THEN named.cookie ELSE named.header
        candidates == [i \in DOMAIN request.tokens |-> Candidate(request.tokens[i])]
    IN  FirstOf(candidates, LAMBDA token : token # "none", "none")

\* It is verified if the library has arrived by then.
UserOf(request) ==
    IF jwtLib = "loaded" /\ TokenOf(request) = "valid" THEN "user" ELSE "null"

\* The proxies a request passes: Cloudflare and the reverse proxy, the proxy
\* alone, or none.  Each appends the address it was called from.
Appended(request) ==
    CASE request.via = "cloudflare" -> <<request.client, "cf">>
      [] request.via = "proxy" -> <<request.client>>
      [] request.via = "direct" -> << >>

ChainOf(request) ==
    parseForwardingChain(request.preloaded \o Appended(request), request.via = "cloudflare")

---------------------------------------------------------------------------
(* Redaction *)

SensitiveAt(keys) == {i \in DOMAIN keys : keys[i] \in SensitiveKeys}

\* Arrays and objects are descended into, down to the first sensitive key: all
\* there is below it becomes one "[REDACTED]".
Redact_LastKey(leaf) ==                        \* mutant: looks at the innermost key only
    IF leaf.keys = <<>> \/ Last(leaf.keys) \notin SensitiveKeys THEN leaf
    ELSE [leaf EXCEPT !.value = "[REDACTED]"]
Redact(leaf) ==
    IF SensitiveAt(leaf.keys) = {} THEN leaf
    ELSE [ keys |-> SubSeq(leaf.keys, 1, Min(SensitiveAt(leaf.keys))),
           value |-> "[REDACTED]" ]

redactPII(values) == {Redact(leaf) : leaf \in values}

---------------------------------------------------------------------------
(* The finish handler *)

\* An address that is none gives the highest level there is.
WithSpoof(threats, ip) ==
    IF ip \in ValidIps THEN threats
    ELSE [ signals |-> threats.signals \cup {[category |-> "ip", severity |-> "high"]},
           level |-> "high" ]

WithRateLimit_Overrides(threats, severity) ==      \* mutant: the limiter has the last word
    IF severity = "none" THEN threats
    ELSE [ signals |-> threats.signals \cup {[category |-> "rate_limit", severity |-> severity]},
           level |-> severity ]
WithRateLimit(threats, severity) ==
    IF severity = "none" THEN threats
    ELSE [ signals |-> threats.signals \cup {[category |-> "rate_limit", severity |-> severity]},
           level |-> Escalate(threats.level, severity) ]

Parameters(id) ==
    LET request == RequestOf[id]
        ip == IF request.ip \in ValidIps THEN request.ip ELSE "0.0.0.0"
        found == detectThreats(Library, request, resuming)
        threats == WithRateLimit(
            WithSpoof([signals |-> found.signals, level |-> found.level], request.ip),
            rateLimitInfo[id])
        location == geoLookup(geo, ip)
    IN  [ ip |-> ip, user_id |-> UserOf(request),
          request_body |-> redactPII(request.values),
          threat_level |-> threats.level, threat_details |-> threats.signals,
          source |-> detectSource(request.userAgent),
          ip_location |-> location, ip_type |-> classifyIp(location, ip),
          is_tor |-> isTorExitNode(ip), forwarding_chain |-> ChainOf(request) ]

\* Everything the "finish" listener does before it returns.
LogRequest(id) ==
    /\ row' = [row EXCEPT ![id] = Parameters(id)]
    /\ inserts' = inserts \cup {id}
    /\ resuming' = detectThreats(Library, RequestOf[id], resuming).resuming
    /\ UNCHANGED <<stored, failed>>

---------------------------------------------------------------------------
(* Requests *)

\* Skipped paths go straight on; the others get a listener and go on.
Arrive(id) ==
    /\ phase[id] = "new"
    /\ phase' = [phase EXCEPT ![id] =
                    IF RequestOf[id].path \in SkipPaths THEN "skipped" ELSE "open"]
    /\ UNCHANGED <<rateLimitInfo, resuming, logVars, enrichVars>>

\* Any other middleware may attach its verdict before the response is sent.
RateLimited(id, severity) ==
    /\ phase[id] = "open" /\ rateLimitInfo[id] = "none"
    /\ rateLimitInfo' = [rateLimitInfo EXCEPT ![id] = severity]
    /\ UNCHANGED <<phase, resuming, logVars, enrichVars>>

Finish(id) ==
    /\ phase[id] = "open"
    /\ phase' = [phase EXCEPT ![id] = "closing"]
    /\ LogRequest(id)
    /\ UNCHANGED <<rateLimitInfo, enrichVars>>

\* "close": after "finish", or without it when the client went away first.
\* Nothing listens to it.
OnClose_Logs(id) == LogRequest(id)             \* mutant: res.on("close") as well
OnClose(id) == UNCHANGED <<resuming, logVars>>

Close(id) ==
    /\ phase[id] \in {"open", "closing"}
    /\ phase' = [phase EXCEPT ![id] = "closed"]
    /\ OnClose(id)
    /\ UNCHANGED <<rateLimitInfo, enrichVars>>

InsertEnds_Swallows(id) ==                     \* mutant: a failure is not reported
    /\ id \in inserts
    /\ inserts' = inserts \ {id}
    /\ stored' \in {stored, [stored EXCEPT ![id] = @ + 1]}
    /\ UNCHANGED <<phase, rateLimitInfo, row, failed, resuming, enrichVars>>
InsertEnds(id) ==
    /\ id \in inserts
    /\ inserts' = inserts \ {id}
    /\ \/ /\ stored' = [stored EXCEPT ![id] = @ + 1]
          /\ UNCHANGED failed
       \/ /\ failed' = failed \cup {id}
          /\ UNCHANGED stored
    /\ UNCHANGED <<phase, rateLimitInfo, row, resuming, enrichVars>>

---------------------------------------------------------------------------
(* Startup and refresh *)

\* Both files are opened, then both readers are replaced together.
InitGeo(loaded) ==
    /\ geo = {} /\ geo' = loaded
    /\ UNCHANGED <<phase, rateLimitInfo, resuming, logVars, torExitNodes, fetches, jwtLib>>

ImportSettles(outcome) ==
    /\ jwtLib = "importing" /\ jwtLib' = outcome
    /\ UNCHANGED <<phase, rateLimitInfo, resuming, logVars, geo, torExitNodes, fetches>>

\* fetchTorExitNodes, cut at its two awaits.
FetchStarts(f) ==
    /\ fetches[f].pc = "idle"
    /\ fetches' = [fetches EXCEPT ![f].pc = "requested"]
    /\ UNCHANGED torExitNodes

ResponseArrives_Clears(f, list) ==             \* mutant: clear() before the text is there
    /\ fetches' = [fetches EXCEPT ![f] = [pc |-> "reading", list |-> list]]
    /\ torExitNodes' = {}
ResponseArrives_PartOfList(f, list) ==         \* mutant: adds without clear()
    /\ fetches' = [fetches EXCEPT ![f] = [pc |-> "reading", list |-> list]]
    /\ torExitNodes' = torExitNodes \cup list
ResponseArrives(f, list) ==
    /\ fetches' = [fetches EXCEPT ![f] = [pc |-> "reading", list |-> list]]
    /\ UNCHANGED torExitNodes

\* clear() and the adds run without an await between them.
TextArrives(f) ==
    /\ fetches[f].pc = "reading"
    /\ torExitNodes' = fetches[f].list
    /\ fetches' = [fetches EXCEPT ![f] = [pc |-> "done", list |-> {}]]

\* A status other than 2xx, or an error in either await.
FetchFails(f) ==
    /\ fetches[f].pc \in {"requested", "reading"}
    /\ fetches' = [fetches EXCEPT ![f] = [pc |-> "done", list |-> {}]]
    /\ UNCHANGED torExitNodes

FetchStep(f) ==
    /\ \/ FetchStarts(f) \/ TextArrives(f) \/ FetchFails(f)
       \/ \E list \in TorLists : fetches[f].pc = "requested" /\ ResponseArrives(f, list)
    /\ UNCHANGED <<phase, rateLimitInfo, resuming, logVars, geo, jwtLib>>

---------------------------------------------------------------------------

Init ==
    /\ phase = [id \in Ids |-> "new"]
    /\ rateLimitInfo = [id \in Ids |-> "none"]
    /\ row = [id \in Ids |-> NoRow]
    /\ inserts = {} /\ failed = {} /\ resuming = {}
    /\ stored = [id \in Ids |-> 0]
    /\ geo = {} /\ torExitNodes = {} /\ jwtLib = "importing"
    /\ fetches = [f \in Fetches |-> [pc |-> "idle", list |-> {}]]

Next ==
    \/ \E id \in Ids :
          \/ Arrive(id) \/ Finish(id) \/ Close(id) \/ InsertEnds(id)
          \/ \E severity \in RateLimits : RateLimited(id, severity)
    \/ \E loaded \in SUBSET {"city", "asn"} : InitGeo(loaded)
    \/ \E outcome \in {"loaded", "missing"} : ImportSettles(outcome)
    \/ \E f \in Fetches : FetchStep(f)

Spec == Init /\ [][Next]_vars

\* The database driver settles every query, with a row or with an error.
FairSpec == Spec /\ \A id \in Ids : WF_vars(InsertEnds(id))

---------------------------------------------------------------------------
(* Properties *)

Logged == {id \in Ids : row[id] # NoRow}

\* A row's level is the highest severity among its signals, whichever of the
\* detector, the spoof override and the rate limiter raised them.
LevelCoversSignals ==
    \A id \in Logged :
        row[id].threat_level = HighestOf({s.severity : s \in row[id].threat_details})

Haystacks(request) ==
    { [category |-> "url", text |-> request.url], [category |-> "method", text |-> request.method] }
        \cup IF request.body = NoText THEN {} ELSE {[category |-> "body", text |-> request.body]}

\* Whatever texts and requests were scanned before, a body pattern that
\* matches the body, the URL or the method of a request is in its verdict,
\* once for each of them: no expression resumes where an earlier match ended.
EveryMatchIsSignalled ==
    \A id \in Logged, threat \in BodyThreats :
        \A haystack \in Haystacks(RequestOf[id]) :
            haystack.text \in threat.matches =>
                Signal(haystack.category, threat) \in row[id].threat_details

\* "Keys matching ... are replaced before the body is persisted": no value with
\* such a key anywhere on its path is in the row, the others all are.
NoSecretIsStored ==
    \A id \in Logged : \A leaf \in RequestOf[id].values :
        IF ToSet(leaf.keys) \cap SensitiveKeys = {} THEN leaf \in row[id].request_body
        ELSE \A kept \in row[id].request_body : kept.value # leaf.value

NonBlank(entries) == {entry \in ToSet(entries) : entry # Blank}

\* "More means the client pre-loaded the header": no request is called spoofed
\* unless its client had written an entry itself, and then that entry is the
\* address it is said to claim; and through both proxies none gets away with it.
SpoofedMeansPreloaded ==
    \A id \in Logged :
        LET request == RequestOf[id]
            found == row[id].forwarding_chain
            written == NonBlank(request.preloaded)
        IN  /\ found.spoofed => found.claimed_ip \in written
            /\ request.via = "cloudflare" /\ written # {} => found.spoofed

\* Once an exit list is in memory, no refresh, overlapping or failing, leaves
\* the process without a whole one.
TorListStaysWhole == [][torExitNodes # {} => torExitNodes' \in TorLists]_vars

\* A response that was sent leaves one row or one failure, never two rows; a
\* skipped path leaves none.
LoggedAtMostOnce ==
    \A id \in Ids :
        /\ stored[id] + (IF id \in failed \cup inserts THEN 1 ELSE 0) <= 1
        /\ phase[id] \in {"new", "open", "skipped"} => id \notin Logged

\* The INSERT of a finished response is settled: stored, or reported failed.
FinishedIsSettled ==
    \A id \in Ids : phase[id] = "closing" ~> (stored[id] = 1 \/ id \in failed)

\* "If either file fails to load, that dimension is silently disabled": an
\* address is located by the databases that are loaded.
LoadedLayersAreUsed ==
    [][\A id \in Ids :
          row'[id] # row[id] /\ geo # {} /\ row'[id].ip \notin LocalIps
              => row'[id].ip_location = geo]_vars
===========================================================================
