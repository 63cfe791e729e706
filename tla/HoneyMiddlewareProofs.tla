---------------------- MODULE HoneyMiddlewareProofs ----------------------
(***************************************************************************)
(* Theorems about the middleware, for any requests, patterns and lists,    *)
(* and any number of requests and refreshes that overlap.                  *)
(***************************************************************************)
EXTENDS HoneyMiddleware, OrderingProofs, SequenceTheorems

\* What a step may do, by the variables it touches.
LEMMA NextCases ==
    ASSUME [Next]_vars
    PROVE  \/ \E id \in Ids : Arrive(id)
           \/ \E id \in Ids : Finish(id)
           \/ \E id \in Ids : Close(id)
           \/ \E id \in Ids : InsertEnds(id)
           \/ \E id \in Ids, severity \in RateLimits : RateLimited(id, severity)
           \/ \E loaded \in SUBSET {"city", "asn"} : InitGeo(loaded)
           \/ \E outcome \in {"loaded", "missing"} : ImportSettles(outcome)
           \/ \E f \in Fetches : FetchStep(f)
           \/ UNCHANGED vars
  BY DEF Next

---------------------------------------------------------------------------
(* One row for a response *)

\* Where the row of a request is: not there before its response was sent, then
\* on its way, then stored or failed.
RowInv ==
    /\ phase \in [Ids -> {"new", "open", "skipped", "closing", "closed"}]
    /\ stored \in [Ids -> 0..1]
    /\ DOMAIN row = Ids /\ row = [id \in Ids |-> row[id]]
    /\ \A id \in Ids :
          /\ phase[id] \in {"new", "open", "skipped"} =>
                /\ row[id] = NoRow /\ stored[id] = 0
                /\ id \notin inserts /\ id \notin failed
          /\ id \in inserts => stored[id] = 0 /\ id \notin failed
          /\ id \in failed => stored[id] = 0

LEMMA RowStep == RowInv /\ [Next]_vars => RowInv'
  <1> SUFFICES ASSUME RowInv, [Next]_vars PROVE RowInv'
    OBVIOUS
  <1> USE DEF RowInv
  <1>1. ASSUME NEW id \in Ids, Arrive(id) PROVE RowInv'
    BY <1>1 DEF Arrive, logVars, enrichVars
  <1>2. ASSUME NEW id \in Ids, Finish(id) PROVE RowInv'
    <2>1. /\ phase[id] = "open" /\ phase' = [phase EXCEPT ![id] = "closing"]
          /\ inserts' = inserts \cup {id} /\ stored' = stored /\ failed' = failed
          /\ row' = [row EXCEPT ![id] = Parameters(id)]
      BY <1>2 DEF Finish, LogRequest
    <2>2. QED BY <2>1
  <1>3. ASSUME NEW id \in Ids, Close(id) PROVE RowInv'
    <2>1. /\ phase' = [phase EXCEPT ![id] = "closed"]
          /\ inserts' = inserts /\ stored' = stored /\ failed' = failed /\ row' = row
      BY <1>3 DEF Close, OnClose, logVars
    <2>2. QED BY <2>1
  <1>4. ASSUME NEW id \in Ids, InsertEnds(id) PROVE RowInv'
    <2>1. /\ id \in inserts /\ inserts' = inserts \ {id}
          /\ phase' = phase /\ row' = row
      BY <1>4 DEF InsertEnds
    <2>2. CASE stored' = [stored EXCEPT ![id] = @ + 1] /\ failed' = failed
      BY <2>1, <2>2
    <2>3. CASE failed' = failed \cup {id} /\ stored' = stored
      BY <2>1, <2>3
    <2>4. QED BY <1>4, <2>2, <2>3 DEF InsertEnds
  <1>5. ASSUME NEW id \in Ids, NEW severity \in RateLimits, RateLimited(id, severity)
        PROVE  RowInv'
    BY <1>5 DEF RateLimited, logVars
  <1>6. ASSUME NEW loaded \in SUBSET {"city", "asn"}, InitGeo(loaded) PROVE RowInv'
    BY <1>6 DEF InitGeo, logVars
  <1>7. ASSUME NEW outcome \in {"loaded", "missing"}, ImportSettles(outcome) PROVE RowInv'
    BY <1>7 DEF ImportSettles, logVars
  <1>8. ASSUME NEW f \in Fetches, FetchStep(f) PROVE RowInv'
    BY <1>8 DEF FetchStep, logVars
  <1>9. CASE UNCHANGED vars
    BY <1>9 DEF vars, logVars
  <1>10. QED
    BY <1>1, <1>2, <1>3, <1>4, <1>5, <1>6, <1>7, <1>8, <1>9, NextCases

LEMMA RowCorrect == Spec => []RowInv
  <1>1. Init => RowInv
    BY DEF Init, RowInv
  <1>2. QED BY <1>1, RowStep, PTL DEF Spec

\* However requests overlap and whichever of them are aborted: a response that
\* was sent leaves one row or one failure, a skipped path leaves none.
THEOREM LoggedOnce == Spec => []LoggedAtMostOnce
  <1>1. RowInv => LoggedAtMostOnce
    BY DEF RowInv, LoggedAtMostOnce, Logged
  <1>2. QED BY <1>1, RowCorrect, PTL

---------------------------------------------------------------------------
(* The Tor exit list *)

\* A fetch that reads holds a whole list, and so does the process or none.
ListInv ==
    /\ torExitNodes \in {{}} \cup TorLists
    /\ fetches = [f \in Fetches |-> fetches[f]]
    /\ \A f \in Fetches : fetches[f].pc = "reading" => fetches[f].list \in TorLists

LEMMA FetchKeeps ==
    ASSUME ListInv, NEW f \in Fetches, FetchStep(f)
    PROVE  ListInv' /\ (torExitNodes # {} => torExitNodes' \in TorLists)
  <1> USE DEF ListInv
  <1>1. CASE FetchStarts(f)
    BY <1>1 DEF FetchStarts
  <1>2. CASE TextArrives(f)
    BY <1>2 DEF TextArrives
  <1>3. CASE FetchFails(f)
    BY <1>3 DEF FetchFails
  <1>4. ASSUME NEW list \in TorLists, fetches[f].pc = "requested", ResponseArrives(f, list)
        PROVE  ListInv' /\ (torExitNodes # {} => torExitNodes' \in TorLists)
    BY <1>4 DEF ResponseArrives
  <1>5. QED BY <1>1, <1>2, <1>3, <1>4 DEF FetchStep

LEMMA ListStep ==
    ASSUME ListInv, [Next]_vars
    PROVE  ListInv' /\ (torExitNodes # {} => torExitNodes' \in TorLists)
  <1>1. CASE \E f \in Fetches : FetchStep(f)
    BY <1>1, FetchKeeps
  <1>2. CASE UNCHANGED <<torExitNodes, fetches>>
    BY <1>2 DEF ListInv
  <1>3. \/ \E f \in Fetches : FetchStep(f)
        \/ UNCHANGED <<torExitNodes, fetches>>
    BY NextCases
    DEF Arrive, Finish, Close, InsertEnds, RateLimited, InitGeo, ImportSettles,
        vars, enrichVars
  <1>4. QED BY <1>1, <1>2, <1>3

\* Once a list is in memory no refresh, overlapping or failing, leaves the
\* process without a whole one.
THEOREM ListStaysWhole == Spec => TorListStaysWhole
  <1>1. Init => ListInv
    BY DEF Init, ListInv
  <1>2. ListInv /\ [Next]_vars => ListInv'
    BY ListStep
  <1>3. ListInv /\ [Next]_vars => [torExitNodes # {} => torExitNodes' \in TorLists]_vars
    BY ListStep
  <1>4. QED BY <1>1, <1>2, <1>3, PTL DEF Spec, TorListStaysWhole
---------------------------------------------------------------------------
(* Levels *)

Severities == {"none", "low", "medium", "high"}
Ranked(signals) == {s.severity : s \in signals}

LEMMA Ranks ==
    /\ DOMAIN SEVERITY_RANK = Severities
    /\ SEVERITY_RANK["none"] = 0 /\ SEVERITY_RANK["low"] = 1
    /\ SEVERITY_RANK["medium"] = 2 /\ SEVERITY_RANK["high"] = 3
  BY DEF SEVERITY_RANK, Severities

\* There is one highest severity.
LEMMA HighestIs ==
    ASSUME NEW S \in SUBSET Severities
    PROVE  /\ HighestOf(S) \in S \cup {"none"}
           /\ HighestOf(S) \in Severities
           /\ \A s \in S : SEVERITY_RANK[s] <= SEVERITY_RANK[HighestOf(S)]
  <1>1. \E level \in S \cup {"none"} : \A s \in S : SEVERITY_RANK[s] <= SEVERITY_RANK[level]
    <2>1. CASE "high" \in S BY <2>1, Ranks DEF Severities
    <2>2. CASE "high" \notin S /\ "medium" \in S BY <2>2, Ranks DEF Severities
    <2>3. CASE "high" \notin S /\ "medium" \notin S /\ "low" \in S BY <2>3, Ranks DEF Severities
    <2>4. CASE S \subseteq {"none"} BY <2>4, Ranks DEF Severities
    <2>5. QED BY <2>1, <2>2, <2>3, <2>4 DEF Severities
  <1>2. QED BY <1>1 DEF HighestOf, Severities

LEMMA HighestUnique ==
    ASSUME NEW S \in SUBSET Severities, NEW level \in S \cup {"none"},
           \A s \in S : SEVERITY_RANK[s] <= SEVERITY_RANK[level]
    PROVE  level = HighestOf(S)
  <1>1. /\ level \in Severities /\ HighestOf(S) \in Severities
        /\ SEVERITY_RANK[level] <= SEVERITY_RANK[HighestOf(S)]
        /\ SEVERITY_RANK[HighestOf(S)] <= SEVERITY_RANK[level]
    BY HighestIs, Ranks DEF Severities
  <1>2. QED BY <1>1, Ranks DEF Severities

\* One more signal raises the level to its severity, or leaves it.
LEMMA HighestOfMore ==
    ASSUME NEW S \in SUBSET Severities, NEW severity \in Severities
    PROVE  HighestOf(S \cup {severity}) = Escalate(HighestOf(S), severity)
  <1> DEFINE level == Escalate(HighestOf(S), severity)
  <1>1. /\ level \in S \cup {severity} \cup {"none"}
        /\ SEVERITY_RANK[HighestOf(S)] <= SEVERITY_RANK[level]
        /\ SEVERITY_RANK[severity] <= SEVERITY_RANK[level]
        /\ level \in Severities
    BY HighestIs, Ranks DEF Escalate, Severities
  <1>2. \A s \in S \cup {severity} : SEVERITY_RANK[s] <= SEVERITY_RANK[level]
    BY <1>1, HighestIs, Ranks DEF Severities
  <1> HIDE DEF level
  <1>3. level = HighestOf(S \cup {severity})
    BY <1>1, <1>2, HighestUnique
  <1>4. QED BY <1>3 DEF level

LEMMA RankedMore ==
    ASSUME NEW signals, NEW signal
    PROVE  Ranked(signals \cup {signal}) = Ranked(signals) \cup {signal.severity}
  BY DEF Ranked

\* The detector's level is the highest of its signals.
LEMMA DetectorLevel ==
    ASSUME NEW request, NEW seen
    PROVE  LET found == detectThreats(Library, request, seen) IN
           /\ Ranked(found.signals) \subseteq Severities
           /\ found.level = HighestOf(Ranked(found.signals))
  BY SeverityAssumption, Ranks DEF detectThreats, Library, Signal, Ranked, Severities

\* Signals and level of a verdict belong together.
Covers(threats) ==
    /\ Ranked(threats.signals) \subseteq Severities
    /\ threats.level = HighestOf(Ranked(threats.signals))

LEMMA SpoofCovers ==
    ASSUME NEW threats, Covers(threats), NEW ip
    PROVE  Covers(WithSpoof(threats, ip))
  <1>1. CASE ip \in ValidIps
    BY <1>1 DEF WithSpoof
  <1>2. CASE ip \notin ValidIps
    <2> DEFINE before == Ranked(threats.signals)
               after == WithSpoof(threats, ip)
               signal == [category |-> "ip", severity |-> "high"]
    <2>0. /\ after.level = "high" /\ after.signals = threats.signals \cup {signal}
          /\ signal.severity = "high"
      BY <1>2 DEF WithSpoof
    <2>1. after.level = "high" /\ Ranked(after.signals) = before \cup {"high"}
      <3> HIDE DEF signal, after
      <3> QED BY <2>0, RankedMore
    <2>2. before \in SUBSET Severities /\ "high" \in Severities
      BY DEF Covers, Severities
    <2> HIDE DEF before, after
    <2>3. \A s \in before \cup {"high"} : SEVERITY_RANK[s] <= SEVERITY_RANK["high"]
      BY <2>2, Ranks DEF Severities
    <2>4. "high" = HighestOf(before \cup {"high"})
      BY <2>2, <2>3, HighestUnique
    <2>5. Covers(after)
      BY <2>1, <2>2, <2>4 DEF Covers
    <2>6. QED BY <2>5 DEF after
  <1>3. QED BY <1>1, <1>2

LEMMA RateLimitCovers ==
    ASSUME NEW threats, Covers(threats), NEW severity \in RateLimits \cup {"none"}
    PROVE  Covers(WithRateLimit(threats, severity))
  <1>1. CASE severity = "none"
    BY <1>1 DEF WithRateLimit
  <1>2. CASE severity # "none"
    <2> DEFINE before == Ranked(threats.signals)
               after == WithRateLimit(threats, severity)
               signal == [category |-> "rate_limit", severity |-> severity]
    <2>0. /\ after.level = Escalate(threats.level, severity)
          /\ after.signals = threats.signals \cup {signal}
          /\ signal.severity = severity
      BY <1>2 DEF WithRateLimit
    <2>1. /\ after.level = Escalate(threats.level, severity)
          /\ Ranked(after.signals) = before \cup {severity}
      <3> HIDE DEF signal, after
      <3> QED BY <2>0, RankedMore
    <2>2. before \in SUBSET Severities /\ severity \in Severities
      BY <1>2, SeverityAssumption, Ranks DEF Covers
    <2>3. threats.level = HighestOf(before)
      BY DEF Covers
    <2> HIDE DEF before, after
    <2>4. Covers(after)
      BY <2>1, <2>2, <2>3, HighestOfMore DEF Covers
    <2>5. QED BY <2>4 DEF after
  <1>3. QED BY <1>1, <1>2

LevelInv ==
    /\ rateLimitInfo \in [Ids -> RateLimits \cup {"none"}]
    /\ row = [id \in Ids |-> row[id]]
    /\ LevelCoversSignals

LEMMA RowCovers ==
    ASSUME NEW id \in Ids, rateLimitInfo[id] \in RateLimits \cup {"none"}
    PROVE  Parameters(id).threat_level
               = HighestOf({s.severity : s \in Parameters(id).threat_details})
  <1> DEFINE request == RequestOf[id]
             found == detectThreats(Library, request, resuming)
             seen == [signals |-> found.signals, level |-> found.level]
             spoofed == WithSpoof(seen, request.ip)
             limited == WithRateLimit(spoofed, rateLimitInfo[id])
  <1>1. /\ Parameters(id).threat_level = limited.level
        /\ Parameters(id).threat_details = limited.signals
    BY DEF Parameters
  <1>2. Covers(seen)
    BY DetectorLevel DEF Covers
  <1> HIDE DEF seen
  <1>3. Covers(spoofed)
    BY <1>2, SpoofCovers
  <1> HIDE DEF spoofed
  <1>4. Covers(limited)
    BY <1>3, RateLimitCovers
  <1> HIDE DEF limited
  <1>5. QED BY <1>1, <1>4 DEF Covers, Ranked

LEMMA LevelStep == LevelInv /\ [Next]_vars => LevelInv'
  <1> SUFFICES ASSUME LevelInv, [Next]_vars PROVE LevelInv'
    OBVIOUS
  <1> USE DEF LevelInv, LevelCoversSignals, Logged
  <1>1. ASSUME NEW id \in Ids, Finish(id) PROVE LevelInv'
    <2>1. /\ row' = [row EXCEPT ![id] = Parameters(id)]
          /\ rateLimitInfo' = rateLimitInfo
      BY <1>1 DEF Finish, LogRequest
    <2>2. \A other \in Ids : row'[other] = IF other = id THEN Parameters(id) ELSE row[other]
      BY <2>1
    <2>3. Parameters(id).threat_level
              = HighestOf({s.severity : s \in Parameters(id).threat_details})
      BY RowCovers
    <2>4. LevelCoversSignals'
      BY <2>2, <2>3
    <2>5. QED BY <2>1, <2>4
  <1>2. ASSUME NEW id \in Ids, NEW severity \in RateLimits, RateLimited(id, severity)
        PROVE  LevelInv'
    BY <1>2 DEF RateLimited, logVars
  <1>3. CASE UNCHANGED <<row, rateLimitInfo>>
    BY <1>3
  <1>4. \/ \E id \in Ids : Finish(id)
        \/ \E id \in Ids, severity \in RateLimits : RateLimited(id, severity)
        \/ UNCHANGED <<row, rateLimitInfo>>
    BY NextCases
    DEF Arrive, Close, OnClose, InsertEnds, InitGeo, ImportSettles, FetchStep, vars, logVars
  <1>5. QED BY <1>1, <1>2, <1>3, <1>4

\* A row's level is the highest severity among its signals, whichever of the
\* detector, the spoof override and the rate limiter raised them.
THEOREM LevelCorrect == Spec => []LevelCoversSignals
  <1>1. Init => LevelInv
    BY DEF Init, LevelInv, LevelCoversSignals, Logged
  <1>2. LevelInv => LevelCoversSignals
    BY DEF LevelInv
  <1>3. QED BY <1>1, <1>2, LevelStep, PTL DEF Spec

---------------------------------------------------------------------------
(* Types *)

LEMMA TypeStep ==
    ASSUME TypeOK, ListInv, [Next]_vars
    PROVE  TypeOK'
  <1> USE DEF TypeOK
  <1>1. torExitNodes' \in {{}} \cup TorLists
    BY ListStep DEF ListInv
  <1>2. ASSUME NEW id \in Ids, Arrive(id) PROVE TypeOK'
    BY <1>1, <1>2 DEF Arrive, logVars, enrichVars
  <1>3. ASSUME NEW id \in Ids, Finish(id) PROVE TypeOK'
    <2>1. /\ phase' = [phase EXCEPT ![id] = "closing"] /\ inserts' = inserts \cup {id}
          /\ resuming' = detectThreats(Library, RequestOf[id], resuming).resuming
          /\ stored' = stored /\ failed' = failed /\ rateLimitInfo' = rateLimitInfo
          /\ geo' = geo /\ jwtLib' = jwtLib
      BY <1>3 DEF Finish, LogRequest, enrichVars
    <2>2. resuming' \subseteq BodyThreats
      BY <2>1 DEF detectThreats, Library
    <2>3. QED BY <1>1, <2>1, <2>2
  <1>4. ASSUME NEW id \in Ids, Close(id) PROVE TypeOK'
    BY <1>1, <1>4 DEF Close, OnClose, logVars, enrichVars
  <1>5. ASSUME NEW id \in Ids, InsertEnds(id) PROVE TypeOK'
    <2>1. /\ inserts' \subseteq Ids /\ phase' = phase /\ rateLimitInfo' = rateLimitInfo
          /\ resuming' = resuming /\ geo' = geo /\ jwtLib' = jwtLib
      BY <1>5 DEF InsertEnds, enrichVars
    <2>2. stored' \in [Ids -> Nat] /\ failed' \subseteq Ids
      BY <1>5 DEF InsertEnds
    <2>3. QED BY <1>1, <2>1, <2>2
  <1>6. ASSUME NEW id \in Ids, NEW severity \in RateLimits, RateLimited(id, severity)
        PROVE  TypeOK'
    BY <1>1, <1>6 DEF RateLimited, logVars, enrichVars
  <1>7. ASSUME NEW loaded \in SUBSET {"city", "asn"}, InitGeo(loaded) PROVE TypeOK'
    BY <1>1, <1>7 DEF InitGeo, logVars
  <1>8. ASSUME NEW outcome \in {"loaded", "missing"}, ImportSettles(outcome) PROVE TypeOK'
    BY <1>1, <1>8 DEF ImportSettles, logVars
  <1>9. ASSUME NEW f \in Fetches, FetchStep(f) PROVE TypeOK'
    BY <1>1, <1>9 DEF FetchStep, logVars
  <1>10. CASE UNCHANGED vars
    BY <1>10 DEF vars, logVars, enrichVars
  <1>11. QED
    BY <1>2, <1>3, <1>4, <1>5, <1>6, <1>7, <1>8, <1>9, <1>10, NextCases

\* The state stays typed; above all, the exit list in memory is none or one that
\* was published, never a mixture of two.
THEOREM TypeCorrect == Spec => []TypeOK
  <1>1. Init => TypeOK /\ ListInv
    <2>1. Init => TypeOK
      BY DEF Init, TypeOK
    <2>2. Init => ListInv
      BY DEF Init, ListInv
    <2>3. QED BY <2>1, <2>2
  <1>2. ListInv /\ [Next]_vars => ListInv'
    BY ListStep
  <1>3. TypeOK /\ ListInv /\ [Next]_vars => TypeOK'
    BY TypeStep
  <1>4. QED BY <1>1, <1>2, <1>3, PTL DEF Spec

---------------------------------------------------------------------------
(* What a row says of its request *)

LEMMA ScanFacts ==
    ASSUME NEW threat, NEW seen, NEW category, NEW text, ~seen.resumes
    PROVE  LET after == Scan(threat, seen, category, text) IN
           /\ ~after.resumes
           /\ text \in threat.matches => category \in after.categories
           /\ \A c \in seen.categories : c \in after.categories
  BY DEF Scan

\* An expression that starts at the beginning finds every text it matches, and
\* the next one starts at the beginning again.
LEMMA BodyScanFinds ==
    ASSUME NEW threat, NEW request
    PROVE  LET found == BodyScan(threat, request, {}) IN
           /\ ~found.resumes
           /\ \A haystack \in Haystacks(request) :
                 haystack.text \in threat.matches => haystack.category \in found.categories
  <1> DEFINE start == [categories |-> {}, resumes |-> threat \in {}]
             scanned == Scan(threat, start, "body", request.body)
             body == IF request.body = NoText THEN start ELSE scanned
             url == Scan(threat, body, "url", request.url)
             found == Scan(threat, url, "method", request.method)
  <1>1. BodyScan(threat, request, {}) = found
    BY DEF BodyScan
  <1>2. ~start.resumes
    BY Zenon
  <1> HIDE DEF start
  <1>3. ~scanned.resumes /\ (request.body \in threat.matches => "body" \in scanned.categories)
    BY <1>2, ScanFacts
  <1> HIDE DEF scanned
  <1>4. /\ ~body.resumes
        /\ request.body # NoText /\ request.body \in threat.matches => "body" \in body.categories
    BY <1>2, <1>3
  <1> HIDE DEF body
  <1>5. /\ ~url.resumes /\ (request.url \in threat.matches => "url" \in url.categories)
        /\ \A c \in body.categories : c \in url.categories
    BY <1>4, ScanFacts
  <1> HIDE DEF url
  <1>6. /\ ~found.resumes /\ (request.method \in threat.matches => "method" \in found.categories)
        /\ \A c \in url.categories : c \in found.categories
    BY <1>5, ScanFacts
  <1> HIDE DEF found
  <1>7. ASSUME NEW haystack \in Haystacks(request), haystack.text \in threat.matches
        PROVE  haystack.category \in found.categories
    <2>1. \/ haystack.category = "url" /\ haystack.text = request.url
          \/ haystack.category = "method" /\ haystack.text = request.method
          \/ /\ haystack.category = "body" /\ haystack.text = request.body
             /\ request.body # NoText
      BY DEF Haystacks
    <2>2. QED BY <1>4, <1>5, <1>6, <1>7, <2>1
  <1>8. QED BY <1>1, <1>6, <1>7

LEMMA DetectsMatches ==
    ASSUME NEW request, NEW threat \in BodyThreats, NEW haystack \in Haystacks(request),
           haystack.text \in threat.matches
    PROVE  Signal(haystack.category, threat) \in detectThreats(Library, request, {}).signals
  <1> DEFINE scans == [t \in BodyThreats |-> BodyScan(t, request, {})]
             body == UNION {{Signal(c, t) : c \in scans[t].categories} : t \in BodyThreats}
  <1>1. body \subseteq detectThreats(Library, request, {}).signals
    BY DEF detectThreats, Library
  <1>2. haystack.category \in scans[threat].categories
    BY BodyScanFinds
  <1> HIDE DEF scans
  <1>3. Signal(haystack.category, threat) \in body
    BY <1>2
  <1>4. QED BY <1>1, <1>3

LEMMA NothingResumes ==
    ASSUME NEW request
    PROVE  detectThreats(Library, request, {}).resuming = {}
  <1>1. \A t : ~BodyScan(t, request, {}).resumes
    BY BodyScanFinds
  <1>2. QED BY <1>1 DEF detectThreats

\* Neither the spoof override nor the rate limiter takes a signal away.
LEMMA DetailsKeepSignals ==
    ASSUME NEW id \in Ids
    PROVE  detectThreats(Library, RequestOf[id], resuming).signals \subseteq Parameters(id).threat_details
  <1> DEFINE found == detectThreats(Library, RequestOf[id], resuming)
             seen == [signals |-> found.signals, level |-> found.level]
             spoofed == WithSpoof(seen, RequestOf[id].ip)
             limited == WithRateLimit(spoofed, rateLimitInfo[id])
  <1>1. Parameters(id).threat_details = limited.signals
    BY DEF Parameters
  <1>2. seen.signals = found.signals
    OBVIOUS
  <1> HIDE DEF found, seen
  <1>3. seen.signals \subseteq spoofed.signals
    BY DEF WithSpoof
  <1> HIDE DEF spoofed
  <1>4. spoofed.signals \subseteq limited.signals
    BY DEF WithRateLimit
  <1>5. QED BY <1>1, <1>2, <1>3, <1>4 DEF found

\* A row is written once, from its request and what the process knows then.
LEMMA RowWritten ==
    ASSUME RowInv, [Next]_vars
    PROVE  \/ row' = row /\ resuming' = resuming
           \/ \E id \in Ids : /\ row' = [row EXCEPT ![id] = Parameters(id)]
                             /\ resuming' = detectThreats(Library, RequestOf[id], resuming).resuming
                             /\ row'[id] = Parameters(id)
                             /\ \A other \in Ids : other # id => row'[other] = row[other]
  <1>1. ASSUME NEW id \in Ids, Finish(id)
        PROVE  /\ row' = [row EXCEPT ![id] = Parameters(id)]
               /\ resuming' = detectThreats(Library, RequestOf[id], resuming).resuming
               /\ row'[id] = Parameters(id)
               /\ \A other \in Ids : other # id => row'[other] = row[other]
    BY <1>1 DEF Finish, LogRequest, RowInv
  <1>2. (\E id \in Ids : Finish(id)) \/ (row' = row /\ resuming' = resuming)
    BY NextCases
    DEF Arrive, Close, OnClose, InsertEnds, RateLimited, InitGeo, ImportSettles, FetchStep,
        vars, logVars
  <1>3. QED BY <1>1, <1>2

MatchInv == RowInv /\ resuming = {} /\ EveryMatchIsSignalled

\* Whatever was scanned before, by whichever request: a body pattern that matches
\* the body, the URL or the method of a request is in its verdict, once for each,
\* for any library of patterns, with the g flag or without.
THEOREM MatchesSignalled == Spec => []EveryMatchIsSignalled
  <1>1. Init => MatchInv
    BY DEF Init, MatchInv, RowInv, EveryMatchIsSignalled, Logged
  <1>2. MatchInv /\ [Next]_vars => MatchInv'
    <2> SUFFICES ASSUME MatchInv, [Next]_vars PROVE MatchInv'
      OBVIOUS
    <2>1. RowInv'
      BY RowStep DEF MatchInv
    <2>2. CASE row' = row /\ resuming' = resuming
      BY <2>1, <2>2 DEF MatchInv, EveryMatchIsSignalled, Logged
    <2>3. ASSUME NEW id \in Ids,
                 resuming' = detectThreats(Library, RequestOf[id], resuming).resuming,
                 row'[id] = Parameters(id),
                 \A other \in Ids : other # id => row'[other] = row[other]
          PROVE  MatchInv'
      <3>1. resuming' = {}
        BY <2>3, NothingResumes DEF MatchInv
      <3>2. \A threat \in BodyThreats : \A haystack \in Haystacks(RequestOf[id]) :
              haystack.text \in threat.matches =>
                  Signal(haystack.category, threat) \in Parameters(id).threat_details
        BY DetectsMatches, DetailsKeepSignals DEF MatchInv
      <3>3. EveryMatchIsSignalled'
        BY <2>3, <3>2 DEF MatchInv, EveryMatchIsSignalled, Logged
      <3>4. QED BY <2>1, <3>1, <3>3 DEF MatchInv
    <2>4. QED BY <2>2, <2>3, RowWritten DEF MatchInv
  <1>3. MatchInv => EveryMatchIsSignalled
    BY DEF MatchInv
  <1>4. QED BY <1>1, <1>2, <1>3, PTL DEF Spec

---------------------------------------------------------------------------
(* Redaction *)

LEMMA RedactedBody ==
    ASSUME NEW id \in Ids, NEW leaf \in RequestOf[id].values
    PROVE  IF ToSet(leaf.keys) \cap SensitiveKeys = {}
           THEN leaf \in Parameters(id).request_body
           ELSE \A kept \in Parameters(id).request_body : kept.value # leaf.value
  <1> DEFINE values == RequestOf[id].values
             open(l) == ToSet(l.keys) \cap SensitiveKeys = {}
  <1>1. Parameters(id).request_body = {Redact(other) : other \in values}
    BY DEF Parameters, redactPII
  <1>2. \A other \in values : open(other) <=> SensitiveAt(other.keys) = {}
    BY DEF SensitiveAt, ToSet
  <1> HIDE DEF open
  <1>3. \A other \in values :
          /\ open(other) => Redact(other) = other
          /\ ~open(other) => Redact(other).value = "[REDACTED]"
    BY <1>2 DEF Redact
  <1>4. \A other \in values :
          /\ other.value # "[REDACTED]"
          /\ other.value = leaf.value => other = leaf
    BY RequestAssumption DEF RequestAssumption
  <1>5. open(leaf) => leaf \in Parameters(id).request_body
    BY <1>1, <1>3
  <1>6. ASSUME ~open(leaf), NEW other \in values PROVE Redact(other).value # leaf.value
    <2>1. CASE open(other)
      BY <1>3, <1>4, <1>6, <2>1
    <2>2. CASE ~open(other)
      BY <1>3, <1>4, <2>2
    <2>3. QED BY <2>1, <2>2
  <1>7. ~open(leaf) => \A kept \in Parameters(id).request_body : kept.value # leaf.value
    BY <1>1, <1>6
  <1>8. QED BY <1>5, <1>7 DEF open

SecretInv == RowInv /\ NoSecretIsStored

\* No value below a sensitive key, however deep and wherever on its path the key
\* is, is in the row; every other value is, at its place.
THEOREM NoSecretStored == Spec => []NoSecretIsStored
  <1>1. Init => SecretInv
    BY DEF Init, SecretInv, RowInv, NoSecretIsStored, Logged
  <1>2. SecretInv /\ [Next]_vars => SecretInv'
    <2> SUFFICES ASSUME SecretInv, [Next]_vars PROVE SecretInv'
      OBVIOUS
    <2>1. RowInv'
      BY RowStep DEF SecretInv
    <2>2. CASE row' = row
      BY <2>1, <2>2 DEF SecretInv, NoSecretIsStored, Logged
    <2>3. ASSUME NEW id \in Ids, row'[id] = Parameters(id),
                 \A other \in Ids : other # id => row'[other] = row[other]
          PROVE  SecretInv'
      <3>1. \A leaf \in RequestOf[id].values :
              IF ToSet(leaf.keys) \cap SensitiveKeys = {}
              THEN leaf \in Parameters(id).request_body
              ELSE \A kept \in Parameters(id).request_body : kept.value # leaf.value
        BY RedactedBody
      <3>2. NoSecretIsStored'
        BY <2>3, <3>1 DEF SecretInv, NoSecretIsStored, Logged
      <3>3. QED BY <2>1, <3>2 DEF SecretInv
    <2>4. QED BY <2>2, <2>3, RowWritten DEF SecretInv
  <1>3. SecretInv => NoSecretIsStored
    BY DEF SecretInv
  <1>4. QED BY <1>1, <1>2, <1>3, PTL DEF Spec

---------------------------------------------------------------------------
(* Forwarding chains *)

\* The entries that are kept: those that are not blank, in their order.
LEMMA KeptEntries ==
    ASSUME NEW Texts, NEW xff \in Seq(Texts)
    PROVE  LET kept == {i \in DOMAIN xff : xff[i] # Blank}
               at == Ascending(kept)
               c == Len(Entries(xff))
           IN  /\ c \in Nat
               /\ \A k \in 1..c : at[k] \in kept /\ Entries(xff)[k] = xff[at[k]]
               /\ \A j, k \in 1..c : j < k => at[j] < at[k]
               /\ \A i \in kept : \E k \in 1..c : at[k] = i
  <1> DEFINE kept == {i \in DOMAIN xff : xff[i] # Blank}
             at == Ascending(kept)
             n == Cardinality(kept)
             entries == [k \in 1..n |-> xff[at[k]]]
  <1>1. DOMAIN xff = 1..Len(xff) /\ Len(xff) \in Nat
    OBVIOUS
  <1>2. kept \subseteq Nat /\ IsFiniteSet(kept)
    <2>1. IsFiniteSet(1..Len(xff))
      BY <1>1, FS_Interval
    <2>2. QED BY <1>1, <2>1, FS_Subset
  <1>3. /\ n \in Nat /\ DOMAIN at = 1..n
        /\ \A k \in 1..n : at[k] \in kept
        /\ \A j, k \in 1..n : j < k => at[j] < at[k]
        /\ \A i \in kept : \E k \in 1..n : at[k] = i
    BY <1>2, AscendingLists
  <1>4. Entries(xff) = entries
    BY <1>3 DEF Entries, EntriesAt
  <1> HIDE DEF kept, at, n
  <1>5. Len(entries) = n
    <2>1. entries \in Seq({xff[at[k]] : k \in 1..n})
      BY <1>3
    <2>2. DOMAIN entries = 1..n
      OBVIOUS
    <2>3. QED BY <1>3, <2>1, <2>2, LenProperties
  <1>6. QED BY <1>3, <1>4, <1>5 DEF kept, at

LEMMA ChainTellsPreloaded ==
    ASSUME NEW id \in Ids
    PROVE  LET request == RequestOf[id]
               found == ChainOf(request)
               written == NonBlank(request.preloaded)
           IN  /\ found.spoofed => found.claimed_ip \in written
               /\ request.via = "cloudflare" /\ written # {} => found.spoofed
  <1> DEFINE request == RequestOf[id]
             pre == request.preloaded
             hops == Appended(request)
             xff == pre \o hops
             kept == {i \in DOMAIN xff : xff[i] # Blank}
             at == Ascending(kept)
             c == Len(Entries(xff))
             n == Len(pre)
             written == NonBlank(pre)
             cf == request.via = "cloudflare"
             Texts == STRING \cup {"cf"}
  <1>1. /\ pre \in Seq(STRING) /\ request.client \in STRING \ {Blank}
        /\ request.via \in {"cloudflare", "proxy", "direct"}
    BY RequestAssumption DEF RequestAssumption
  <1>2. /\ hops \in Seq(Texts) /\ Len(hops) \in 0..2
        /\ cf => hops = <<request.client, "cf">>
    <2> HIDE DEF request
    <2>1. CASE cf
      <3>1. hops = <<request.client, "cf">>
        BY <2>1 DEF Appended
      <3>2. request.client \in Texts /\ "cf" \in Texts
        BY <1>1
      <3> HIDE DEF hops
      <3>3. QED BY <3>1, <3>2
    <2>2. CASE request.via = "proxy"
      BY <1>1, <2>2 DEF Appended
    <2>3. CASE request.via = "direct"
      BY <1>1, <2>3 DEF Appended
    <2>4. QED BY <1>1, <2>1, <2>2, <2>3
  <1> HIDE DEF request, hops
  <1>3. /\ xff \in Seq(Texts) /\ Len(xff) = n + Len(hops) /\ n \in Nat
        /\ DOMAIN xff = 1..(n + Len(hops))
        /\ \A i \in 1..n : xff[i] = pre[i]
        /\ \A i \in 1..Len(hops) : xff[n + i] = hops[i]
    BY <1>1, <1>2
  <1> HIDE DEF xff
  <1>4. /\ c \in Nat
        /\ \A k \in 1..c : at[k] \in kept /\ Entries(xff)[k] = xff[at[k]]
        /\ \A j, k \in 1..c : j < k => at[j] < at[k]
        /\ \A i \in kept : \E k \in 1..c : at[k] = i
    BY <1>3, KeptEntries
  <1>5. written = {pre[i] : i \in {j \in 1..n : pre[j] # Blank}}
    BY <1>1 DEF NonBlank, ToSet
  <1> HIDE DEF c, at, written
  <1>6. ASSUME c > 2 PROVE Entries(xff)[1] \in written
    <2>1. /\ at[1] \in kept /\ at[2] \in kept /\ at[3] \in kept
          /\ at[1] < at[2] /\ at[2] < at[3]
      BY <1>4, <1>6
    <2>2. \A i \in kept : i \in Int /\ 1 <= i /\ i <= n + 2 /\ xff[i] # Blank
      <3>1. \A i \in kept : i \in 1..(n + Len(hops)) /\ xff[i] # Blank
        BY <1>3
      <3> DEFINE added == Len(hops)
      <3>2. added \in 0..2 /\ n \in Nat
        BY <1>2, <1>3
      <3> HIDE DEF kept, added, n
      <3>3. \A i \in 1..(n + added) : i \in Int /\ 1 <= i /\ i <= n + 2
        BY <3>2
      <3>4. QED BY <3>1, <3>3 DEF added
    <2> HIDE DEF kept
    <2>3. at[1] \in 1..n /\ xff[at[1]] # Blank
      BY <1>3, <2>1, <2>2
    <2>4. Entries(xff)[1] = xff[at[1]]
      BY <1>4, <1>6
    <2>5. QED BY <1>3, <1>5, <2>3, <2>4
  <1>7. ASSUME cf, written # {} PROVE c > 2
    <2>1. PICK i \in 1..n : pre[i] # Blank
      BY <1>5, <1>7
    <2>2. /\ Len(hops) = 2 /\ hops[1] # Blank /\ hops[2] # Blank
      <3>1. hops = <<request.client, "cf">>
        BY <1>2, <1>7
      <3>2. Len(hops) = 2 /\ hops[1] = request.client /\ hops[2] = "cf"
        BY <3>1
      <3>3. QED BY <1>1, <3>2 DEF Blank
    <2>3. i \in kept /\ n + 1 \in kept /\ n + 2 \in kept
      BY <1>3, <2>1, <2>2
    <2> HIDE DEF kept
    <2>4. PICK j \in 1..c, k \in 1..c, l \in 1..c : at[j] = i /\ at[k] = n + 1 /\ at[l] = n + 2
      BY <1>4, <2>3
    <2>5. j # k /\ k # l /\ j # l
      BY <1>3, <2>1, <2>4
    <2>6. QED BY <1>4, <2>5
  <1>8. ASSUME ChainOf(request).spoofed
        PROVE  c > 2 /\ ChainOf(request).claimed_ip = Entries(xff)[1]
    BY <1>8 DEF ChainOf, parseForwardingChain, NoChain, TRUSTED_HOPS, c, xff, hops
  <1>9. ASSUME cf, c > 2 PROVE ChainOf(request).spoofed
    BY <1>9 DEF ChainOf, parseForwardingChain, TRUSTED_HOPS, c, xff, hops
  <1>10. QED BY <1>6, <1>7, <1>8, <1>9 DEF request, written

ChainInv == RowInv /\ SpoofedMeansPreloaded

\* However many entries a client writes, blank ones among them, and whichever
\* proxies it comes through: a request is called spoofed only for what the client
\* wrote, and through both proxies no entry it wrote goes unnoticed.
THEOREM SpoofTold == Spec => []SpoofedMeansPreloaded
  <1>1. Init => ChainInv
    BY DEF Init, ChainInv, RowInv, SpoofedMeansPreloaded, Logged
  <1>2. ChainInv /\ [Next]_vars => ChainInv'
    <2> SUFFICES ASSUME ChainInv, [Next]_vars PROVE ChainInv'
      OBVIOUS
    <2>1. RowInv'
      BY RowStep DEF ChainInv
    <2>2. CASE row' = row
      BY <2>1, <2>2 DEF ChainInv, SpoofedMeansPreloaded, Logged
    <2>3. ASSUME NEW id \in Ids, row'[id] = Parameters(id),
                 \A other \in Ids : other # id => row'[other] = row[other]
          PROVE  ChainInv'
      <3>1. Parameters(id).forwarding_chain = ChainOf(RequestOf[id])
        BY DEF Parameters
      <3>2. SpoofedMeansPreloaded'
        BY <2>3, <3>1, ChainTellsPreloaded DEF ChainInv, SpoofedMeansPreloaded, Logged
      <3>3. QED BY <2>1, <3>2 DEF ChainInv
    <2>4. QED BY <2>2, <2>3, RowWritten DEF ChainInv
  <1>3. ChainInv => SpoofedMeansPreloaded
    BY DEF ChainInv
  <1>4. QED BY <1>1, <1>2, <1>3, PTL DEF Spec
===========================================================================
