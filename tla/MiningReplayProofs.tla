------------------------- MODULE MiningReplayProofs -------------------------
(***************************************************************************)
(* Theorems about the export (ExportNewRows) and about the mining round    *)
(* that is composed with it, for any number of rows, minutes and dumps,    *)
(* and any library of patterns.                                            *)
(***************************************************************************)
EXTENDS MiningReplay, OrderingProofs

\* What a step of the export may do.
LEMMA ExportCases ==
    ASSUME [Next]_vars
    PROVE  \/ \E c \in Connections : DrawId(c)
           \/ \E c \in Connections : EndInsert(c)
           \/ MinutePasses
           \/ ClockGoesBack
           \/ \E sinceId \in Baselines : Export(sinceId)
           \/ UNCHANGED vars
  BY DEF Next

---------------------------------------------------------------------------
(* The export *)

\* Ids are drawn upwards; what was dumped was committed; a whole dump is not empty,
\* and there is a newest one.
ExportInv ==
    /\ nextId \in Nat /\ open \in [Connections -> Nat]
    /\ \A c \in Connections : open[c] < nextId
    /\ committed \subseteq 1..(nextId - 1)
    /\ minute \in 0..(MaxMinute + 1)
    /\ DOMAIN dumps \subseteq 0..(MaxMinute + 1) /\ DOMAIN dumps # {}
    /\ \A m \in DOMAIN dumps : /\ dumps[m].ids \subseteq committed
                               /\ dumps[m].whole => dumps[m].ids # {}

LEMMA GreatestIs ==
    ASSUME NEW S, S \subseteq Nat, S # {}, NEW n \in Nat, \A s \in S : s <= n
    PROVE  Max(S) \in S
  <1>1. \E x \in S : \A y \in S : x >= y
    BY GreatestOf
  <1>2. QED BY <1>1 DEF Max

LEMMA IdsDrawn ==
    ASSUME ExportInv
    PROVE  /\ nextId \in Nat
           /\ \A id \in committed : id \in Nat /\ 0 < id /\ id < nextId
           /\ \A id \in Dumped : id \in committed
           /\ \A m \in DOMAIN dumps : \A id \in dumps[m].ids : id \in committed
  <1>1. nextId \in Nat /\ \A id \in committed : id \in 1..(nextId - 1)
    BY DEF ExportInv
  <1>2. \A m \in DOMAIN dumps : \A id \in dumps[m].ids : id \in committed
    BY DEF ExportInv
  <1>3. QED BY <1>1, <1>2 DEF Dumped

\* The id an export starts from, if it is no operator's, is that of a dumped row.
LEMMA BaselineDumped ==
    ASSUME ExportInv, NEW sinceId \in Baselines
    PROVE  sinceId \in SinceIds \/ sinceId \in Dumped
  <1>1. Latest \in DOMAIN dumps
    <2>1. MaxMinute \in Nat
      BY ExportAssumption DEF ExportAssumption
    <2>2. /\ DOMAIN dumps \subseteq Nat /\ MaxMinute + 1 \in Nat
          /\ \A m \in DOMAIN dumps : m <= MaxMinute + 1
      BY <2>1 DEF ExportInv
    <2>3. QED BY <2>2, GreatestIs DEF Latest, ExportInv
  <1>2. ASSUME dumps[Latest].whole PROVE Max(dumps[Latest].ids) \in dumps[Latest].ids
    <2>1. /\ dumps[Latest].ids \subseteq committed /\ dumps[Latest].ids # {}
      BY <1>1, <1>2 DEF ExportInv
    <2>2. /\ dumps[Latest].ids \subseteq Nat /\ nextId \in Nat
          /\ \A id \in dumps[Latest].ids : id <= nextId
      BY <1>1, IdsDrawn
    <2>3. QED BY <2>1, <2>2, GreatestIs
  <1>3. sinceId \in SinceIds \/ (dumps[Latest].whole /\ sinceId = Max(dumps[Latest].ids))
    BY DEF Baselines, maxIdInExportFile
  <1>4. QED BY <1>1, <1>2, <1>3 DEF Dumped

\* What an export does: it finds nothing, or writes the file of this minute.
LEMMA ExportWrites ==
    ASSUME NEW sinceId, Export(sinceId)
    PROVE  \/ dumps' = dumps /\ gaps' = gaps
           \/ \E dump :
                 /\ dump = [ids |-> RowsSince(sinceId), whole |-> TRUE] \/ dump = Torn
                 /\ RowsSince(sinceId) # {}
                 /\ DOMAIN dumps' = DOMAIN dumps \cup {minute} /\ dumps'[minute] = dump
                 /\ \A m \in DOMAIN dumps : m # minute => dumps'[m] = dumps[m]
                 /\ gaps' = GapsAfter(sinceId, dump)
  <1>1. ASSUME NEW dump, Write(minute, dump)
        PROVE  /\ DOMAIN dumps' = DOMAIN dumps \cup {minute} /\ dumps'[minute] = dump
               /\ \A m \in DOMAIN dumps : m # minute => dumps'[m] = dumps[m]
    BY <1>1 DEF Write
  <1>2. CASE dumps' = dumps /\ gaps' = gaps
    BY <1>2
  <1>3. ASSUME NEW dump, dump = [ids |-> RowsSince(sinceId), whole |-> TRUE] \/ dump = Torn,
               RowsSince(sinceId) # {}, Write(minute, dump), gaps' = GapsAfter(sinceId, dump)
        PROVE  \E d :
                 /\ d = [ids |-> RowsSince(sinceId), whole |-> TRUE] \/ d = Torn
                 /\ RowsSince(sinceId) # {}
                 /\ DOMAIN dumps' = DOMAIN dumps \cup {minute} /\ dumps'[minute] = d
                 /\ \A m \in DOMAIN dumps : m # minute => dumps'[m] = dumps[m]
                 /\ gaps' = GapsAfter(sinceId, d)
    BY <1>1, <1>3
  <1>4. \/ dumps' = dumps /\ gaps' = gaps
        \/ \E dump : /\ dump = [ids |-> RowsSince(sinceId), whole |-> TRUE] \/ dump = Torn
                     /\ RowsSince(sinceId) # {} /\ Write(minute, dump)
                     /\ gaps' = GapsAfter(sinceId, dump)
    BY DEF Export, localTimestamp
  <1>5. QED BY <1>2, <1>3, <1>4

LEMMA ExportStep ==
    ASSUME ExportInv, [Next]_vars
    PROVE  ExportInv'
  <1> USE DEF ExportInv
  <1>0. MaxMinute \in Nat
    BY ExportAssumption DEF ExportAssumption
  <1>1. ASSUME NEW c \in Connections, DrawId(c) PROVE ExportInv'
    BY <1>1 DEF DrawId
  <1>2. ASSUME NEW c \in Connections, EndInsert(c) PROVE ExportInv'
    <2>1. /\ open[c] > 0 /\ open' = [open EXCEPT ![c] = 0] /\ nextId' = nextId
          /\ minute' = minute /\ dumps' = dumps
          /\ committed' \in {committed, committed \cup {open[c]}}
      BY <1>2 DEF EndInsert
    <2>2. open[c] \in 1..(nextId - 1)
      BY <2>1
    <2>3. committed \subseteq committed' /\ committed' \subseteq 1..(nextId - 1)
      BY <2>1, <2>2
    <2>4. QED BY <2>1, <2>3
  <1>3. CASE MinutePasses \/ ClockGoesBack
    <2>1. minute' \in 0..(MaxMinute + 1)
      BY <1>0, <1>3 DEF MinutePasses, ClockGoesBack
    <2>2. UNCHANGED <<nextId, open, committed, dumps>>
      BY <1>3 DEF MinutePasses, ClockGoesBack, tableVars
    <2>3. QED BY <2>1, <2>2
  <1>4. ASSUME NEW sinceId \in Baselines, Export(sinceId) PROVE ExportInv'
    <2>1. /\ nextId' = nextId /\ open' = open /\ committed' = committed /\ minute' = minute
      BY <1>4 DEF Export, tableVars
    <2>2. CASE dumps' = dumps
      BY <2>1, <2>2
    <2>3. ASSUME NEW dump,
                 dump = [ids |-> RowsSince(sinceId), whole |-> TRUE] \/ dump = Torn,
                 RowsSince(sinceId) # {},
                 DOMAIN dumps' = DOMAIN dumps \cup {minute}, dumps'[minute] = dump,
                 \A m \in DOMAIN dumps : m # minute => dumps'[m] = dumps[m]
          PROVE  ExportInv'
      <3>1. dump.ids \subseteq committed /\ (dump.whole => dump.ids # {})
        BY <2>3 DEF RowsSince, Torn
      <3>2. \A m \in DOMAIN dumps' : /\ dumps'[m].ids \subseteq committed'
                                     /\ dumps'[m].whole => dumps'[m].ids # {}
        BY <2>1, <2>3, <3>1
      <3>3. DOMAIN dumps' \subseteq 0..(MaxMinute + 1) /\ DOMAIN dumps' # {}
        BY <2>3
      <3>4. QED BY <2>1, <3>2, <3>3
    <2>4. QED BY <1>4, <2>2, <2>3, ExportWrites
  <1>5. CASE UNCHANGED vars
    BY <1>5 DEF vars, tableVars
  <1>6. QED BY <1>1, <1>2, <1>3, <1>4, <1>5, ExportCases

LEMMA ExportInit == Init => ExportInv
  <1> SUFFICES ASSUME Init PROVE ExportInv
    OBVIOUS
  <1>1. MaxMinute \in Nat /\ FirstRows \in Nat /\ FirstRows > 0
    BY ExportAssumption DEF ExportAssumption
  <1>2. PICK first \in 0..1 : dumps = [m \in {first} |-> [ids |-> 1..FirstRows, whole |-> TRUE]]
    BY DEF Init
  <1>3. /\ DOMAIN dumps = {first} /\ dumps[first].ids = 1..FirstRows
        /\ 1 \in 1..FirstRows
    BY <1>1, <1>2
  <1>4. /\ nextId = FirstRows + 1 /\ open = [c \in Connections |-> 0]
        /\ committed = 1..FirstRows /\ minute = 1
    BY DEF Init
  <1>5. /\ nextId \in Nat /\ open \in [Connections -> Nat]
        /\ \A c \in Connections : open[c] < nextId
        /\ committed \subseteq 1..(nextId - 1) /\ minute \in 0..(MaxMinute + 1)
    BY <1>1, <1>4
  <1>6. DOMAIN dumps \subseteq 0..(MaxMinute + 1) /\ DOMAIN dumps # {}
    BY <1>1, <1>3
  <1>7. \A m \in DOMAIN dumps : /\ dumps[m].ids \subseteq committed
                                /\ dumps[m].whole => dumps[m].ids # {}
    BY <1>3, <1>4
  <1>8. QED BY <1>5, <1>6, <1>7 DEF ExportInv

---------------------------------------------------------------------------
(* What the dumps hold together *)

Excused == gaps.inFlight \cup gaps.notAsked \cup gaps.replaced

\* A row that is still to come, and whose id was passed, is one of those in flight.
SkipInv ==
    /\ \A id \in committed, last \in Dumped : id <= last => id \in Dumped \cup Excused
    /\ \A c \in Connections, last \in Dumped :
          open[c] > 0 /\ open[c] <= last => open[c] \in gaps.inFlight

\* What an export that writes adds to the dumps, and loses.
LEMMA DumpedAfter ==
    ASSUME NEW sinceId, NEW dump,
           DOMAIN dumps' = DOMAIN dumps \cup {minute}, dumps'[minute] = dump,
           \A m \in DOMAIN dumps : m # minute => dumps'[m] = dumps[m],
           gaps' = GapsAfter(sinceId, dump)
    PROVE  /\ Dumped' \subseteq Dumped \cup dump.ids /\ dump.ids \subseteq Dumped'
           /\ Dumped \subseteq Dumped' \cup gaps'.replaced
           /\ gaps.inFlight \subseteq gaps'.inFlight /\ Excused \subseteq Excused'
  <1>1. dump.ids \subseteq Dumped'
    BY DEF Dumped
  <1>2. Dumped' \subseteq Dumped \cup dump.ids
    BY DEF Dumped
  <1>3. gaps'.replaced = gaps.replaced \cup IF minute \in DOMAIN dumps THEN dumps[minute].ids ELSE {}
    BY DEF GapsAfter
  <1>4. Dumped \subseteq Dumped' \cup gaps'.replaced
    <2>1. ASSUME NEW m \in DOMAIN dumps, NEW id \in dumps[m].ids
          PROVE  id \in Dumped' \cup gaps'.replaced
      <3>1. CASE m = minute
        BY <1>3, <2>1, <3>1
      <3>2. CASE m # minute
        <4>1. m \in DOMAIN dumps' /\ id \in dumps'[m].ids
          BY <2>1, <3>2
        <4>2. QED BY <4>1 DEF Dumped
      <3>3. QED BY <3>1, <3>2
    <2>2. QED BY <2>1 DEF Dumped
  <1>5. /\ gaps.inFlight \subseteq gaps'.inFlight /\ gaps.notAsked \subseteq gaps'.notAsked
        /\ gaps.replaced \subseteq gaps'.replaced
    BY DEF GapsAfter
  <1>6. QED BY <1>1, <1>2, <1>4, <1>5 DEF Excused

LEMMA SkipStep ==
    ASSUME ExportInv, SkipInv, [Next]_vars
    PROVE  SkipInv'
  <1> USE DEF SkipInv
  <1>1. ASSUME NEW c \in Connections, DrawId(c) PROVE SkipInv'
    <2>1. /\ open' = [open EXCEPT ![c] = nextId] /\ committed' = committed
          /\ dumps' = dumps /\ gaps' = gaps
      BY <1>1 DEF DrawId
    <2>2. \A last \in Dumped : ~(nextId <= last)
      BY IdsDrawn
    <2>3. \A d \in Connections : open'[d] = open[d] \/ open'[d] = nextId
      BY <2>1 DEF ExportInv
    <2>4. QED BY <2>1, <2>2, <2>3 DEF Dumped, Excused
  <1>2. ASSUME NEW c \in Connections, EndInsert(c) PROVE SkipInv'
    <2>1. /\ open[c] > 0 /\ open' = [open EXCEPT ![c] = 0]
          /\ dumps' = dumps /\ gaps' = gaps
          /\ committed' \in {committed, committed \cup {open[c]}}
      BY <1>2 DEF EndInsert
    <2>2. \A d \in Connections : open'[d] = open[d] \/ open'[d] = 0
      BY <2>1 DEF ExportInv
    <2>3. Dumped' = Dumped /\ Excused' = Excused
      BY <2>1 DEF Dumped, Excused
    <2>4. \A last \in Dumped : open[c] <= last => open[c] \in Excused
      BY <2>1 DEF Excused
    <2>5. QED BY <2>1, <2>2, <2>3, <2>4
  <1>3. ASSUME NEW sinceId \in Baselines, Export(sinceId) PROVE SkipInv'
    <2>1. open' = open /\ committed' = committed
      BY <1>3 DEF Export, tableVars
    <2>2. CASE dumps' = dumps /\ gaps' = gaps
      BY <2>1, <2>2 DEF Dumped, Excused
    <2>3. ASSUME NEW dump,
                 dump = [ids |-> RowsSince(sinceId), whole |-> TRUE] \/ dump = Torn,
                 DOMAIN dumps' = DOMAIN dumps \cup {minute}, dumps'[minute] = dump,
                 \A m \in DOMAIN dumps : m # minute => dumps'[m] = dumps[m],
                 gaps' = GapsAfter(sinceId, dump)
          PROVE  SkipInv'
      <3>1. /\ Dumped' \subseteq Dumped \cup dump.ids /\ dump.ids \subseteq Dumped'
            /\ Dumped \subseteq Dumped' \cup Excused'
            /\ gaps.inFlight \subseteq gaps'.inFlight /\ Excused \subseteq Excused'
        BY <2>3, DumpedAfter DEF Excused
      <3>2. ASSUME NEW id \in committed, NEW last \in dump.ids PROVE id \in Dumped' \cup Excused'
        <4>1. dump.whole /\ dump.ids = RowsSince(sinceId)
          BY <2>3, <3>2 DEF Torn
        <4>2. id \in Nat
          BY IdsDrawn
        <4>3. CASE sinceId \in SinceIds
          <5>1. sinceId \in Nat
            BY <4>3, ExportAssumption DEF ExportAssumption
          <5>2. CASE id > sinceId
            BY <3>1, <4>1, <5>2 DEF RowsSince
          <5>3. CASE id <= sinceId
            <6>1. id \in Dumped \/ id \in gaps'.notAsked
              BY <2>3, <4>1, <4>3, <5>3 DEF GapsAfter
            <6>2. QED BY <3>1, <6>1 DEF Excused
          <5>4. QED BY <4>2, <5>1, <5>2, <5>3
        <4>4. CASE sinceId \in Dumped
          <5>1. sinceId \in Nat
            BY <4>4, IdsDrawn
          <5>2. CASE id > sinceId
            BY <3>1, <4>1, <5>2 DEF RowsSince
          <5>3. CASE id <= sinceId
            BY <3>1, <4>4, <5>3
          <5>4. QED BY <4>2, <5>1, <5>2, <5>3
        <4>5. QED BY <4>3, <4>4, BaselineDumped
      <3>3. ASSUME NEW c \in Connections, NEW last \in dump.ids, open[c] > 0, open[c] <= last
            PROVE  open[c] \in gaps'.inFlight
        BY <2>3, <3>3 DEF GapsAfter
      <3>4. QED BY <2>1, <3>1, <3>2, <3>3
    <2>4. QED BY <1>3, <2>2, <2>3, ExportWrites
  <1>4. CASE UNCHANGED <<open, committed, dumps, gaps>>
    BY <1>4 DEF Dumped, Excused
  <1>5. QED
    BY <1>1, <1>2, <1>3, <1>4, ExportCases DEF MinutePasses, ClockGoesBack, vars, tableVars

\* "pulls every row with a higher id", whatever connections insert at once, clocks that
\* are set back, exports that die or share a minute, and ids operators pass: a row that
\* no dump holds although a newer one does was on its way when an export passed it, was
\* not asked for, or was in a dump that another one replaced.
THEOREM NoRowSkipped == Spec => []NothingSkipped
  <1>1. Init => SkipInv
    <2> SUFFICES ASSUME Init PROVE SkipInv
      OBVIOUS
    <2>1. PICK first \in 0..1 : dumps = [m \in {first} |-> [ids |-> 1..FirstRows, whole |-> TRUE]]
      BY DEF Init
    <2>2. DOMAIN dumps = {first} /\ dumps[first].ids = 1..FirstRows
      BY <2>1
    <2>3. committed \subseteq Dumped
      BY <2>2 DEF Init, Dumped
    <2>4. \A c \in Connections : open[c] = 0
      BY DEF Init
    <2>5. QED BY <2>3, <2>4 DEF SkipInv
  <1>2. ExportInv /\ [Next]_vars => ExportInv'
    BY ExportStep
  <1>3. ExportInv /\ SkipInv /\ [Next]_vars => SkipInv'
    BY SkipStep
  <1>4. SkipInv => NothingSkipped
    BY DEF SkipInv, NothingSkipped, Excused
  <1>5. QED BY <1>1, <1>2, <1>3, <1>4, ExportInit, PTL DEF Spec

---------------------------------------------------------------------------
(* The mining round *)

\* What a step of the round may do: a report is gone with the next step.
LEMMA WeekCases ==
    ASSUME [WeekNext]_weekVars
    PROVE  \/ report' = NoReport /\ (Next \/ UNCHANGED vars)
           \/ \E m \in DOMAIN dumps : Mine(m)
           \/ \E m \in DOMAIN dumps : ValidatePatterns(m)
           \/ UNCHANGED weekVars
  <1>1. ASSUME NEW c \in Connections, NEW severity \in Severities \cup {"none"}, Log(c, severity)
        PROVE  report' = NoReport /\ Next
    BY <1>1 DEF Log, Next
  <1>2. ASSUME \/ \E c \in Connections : EndInsert(c)
               \/ MinutePasses \/ ClockGoesBack
               \/ \E sinceId \in Baselines : Export(sinceId)
        PROVE  Next
    BY <1>2 DEF Next
  <1>3. ASSUME NEW pattern, AddPattern(pattern) PROVE report' = NoReport /\ UNCHANGED vars
    BY <1>3 DEF AddPattern
  <1>4. QED BY <1>1, <1>2, <1>3 DEF WeekNext

\* The tools of the round read dumps and write reports, no more: whatever the
\* export alone guarantees, it guarantees among them.
THEOREM RoundImplementsExport == WeekSpec => Spec
  <1>1. WeekInit => Init
    BY DEF WeekInit
  <1>2. [WeekNext]_weekVars => [Next]_vars
    <2> SUFFICES ASSUME [WeekNext]_weekVars PROVE Next \/ UNCHANGED vars
      OBVIOUS
    <2>1. ASSUME NEW m, Mine(m) \/ ValidatePatterns(m) PROVE UNCHANGED vars
      BY <2>1 DEF Mine, ValidatePatterns
    <2>2. QED BY <2>1, WeekCases DEF weekVars
  <1>3. QED BY <1>1, <1>2, PTL DEF WeekSpec, Spec

---------------------------------------------------------------------------
(* What the miners are shown *)

Ranked(signals) == {s.severity : s \in signals}

\* There is a highest severity.
LEMMA HighestThere ==
    ASSUME NEW S, S \subseteq DOMAIN SEVERITY_RANK
    PROVE  /\ HighestOf(S) \in S \cup {"none"}
           /\ \A s \in S : SEVERITY_RANK[s] <= SEVERITY_RANK[HighestOf(S)]
  <1>1. /\ DOMAIN SEVERITY_RANK = {"none", "low", "medium", "high"}
        /\ SEVERITY_RANK["none"] = 0 /\ SEVERITY_RANK["low"] = 1
        /\ SEVERITY_RANK["medium"] = 2 /\ SEVERITY_RANK["high"] = 3
    BY DEF SEVERITY_RANK
  <1>2. \E level \in S \cup {"none"} : \A s \in S : SEVERITY_RANK[s] <= SEVERITY_RANK[level]
    <2>1. CASE "high" \in S BY <1>1, <2>1
    <2>2. CASE "high" \notin S /\ "medium" \in S BY <1>1, <2>2
    <2>3. CASE "high" \notin S /\ "medium" \notin S /\ "low" \in S BY <1>1, <2>3
    <2>4. CASE S \subseteq {"none"} BY <1>1, <2>4
    <2>5. QED BY <1>1, <2>1, <2>2, <2>3, <2>4
  <1>3. QED BY <1>2 DEF HighestOf

\* It is "none" only if there is no other.
LEMMA HighestNone ==
    ASSUME NEW S, S \subseteq DOMAIN SEVERITY_RANK
    PROVE  HighestOf(S) = "none" <=> S \subseteq {"none"}
  <1>1. /\ DOMAIN SEVERITY_RANK = {"none", "low", "medium", "high"}
        /\ SEVERITY_RANK["none"] = 0 /\ SEVERITY_RANK["low"] = 1
        /\ SEVERITY_RANK["medium"] = 2 /\ SEVERITY_RANK["high"] = 3
    BY DEF SEVERITY_RANK
  <1>2. QED BY <1>1, HighestThere

\* What a pattern finds in a request, whatever was scanned before it.
LEMMA BodyScanFinds ==
    ASSUME NEW threat, NEW request
    PROVE  \A c : c \in BodyScan(threat, request, {}).categories <=>
              \/ c = "body" /\ request.body # NoText /\ request.body \in threat.matches
              \/ c = "url" /\ request.url \in threat.matches
              \/ c = "method" /\ request.method \in threat.matches
  <1> DEFINE start == [categories |-> {}, resumes |-> threat \in {}]
             scanned == Scan(threat, start, "body", request.body)
             body == IF request.body = NoText THEN start ELSE scanned
             url == Scan(threat, body, "url", request.url)
             all == Scan(threat, url, "method", request.method)
  <1>1. BodyScan(threat, request, {}) = all
    BY DEF BodyScan
  <1>2. ~start.resumes
    BY Zenon
  <1>3. start.categories = {}
    OBVIOUS
  <1> HIDE DEF start
  <1>4. /\ ~scanned.resumes
        /\ \A c : c \in scanned.categories <=> c = "body" /\ request.body \in threat.matches
    BY <1>2, <1>3 DEF Scan
  <1> HIDE DEF scanned
  <1>5. /\ ~body.resumes
        /\ \A c : c \in body.categories <=>
              c = "body" /\ request.body # NoText /\ request.body \in threat.matches
    BY <1>2, <1>3, <1>4
  <1> HIDE DEF body
  <1>6. /\ ~url.resumes
        /\ \A c : c \in url.categories <=>
              c \in body.categories \/ (c = "url" /\ request.url \in threat.matches)
    BY <1>5 DEF Scan
  <1> HIDE DEF url
  <1>7. \A c : c \in all.categories <=>
              c \in url.categories \/ (c = "method" /\ request.method \in threat.matches)
    BY <1>6 DEF Scan
  <1> HIDE DEF all
  <1>8. QED BY <1>1, <1>5, <1>6, <1>7

\* The signals of a request, list by list.
PathSignals(patterns, request) ==
    {Signal("path", t) : t \in {u \in patterns \cap AllPath : request.url \in u.matches}}
MethodSignals(patterns, request) ==
    {Signal("method", t) : t \in {u \in patterns \cap AllMethod : u.method = request.method}}
BodySignals(patterns, request) ==
    UNION {{Signal(c, t) : c \in BodyScan(t, request, {}).categories} : t \in patterns \cap AllBody}
AgentSignals(request) ==
    IF request.userAgent = NoText THEN {[category |-> "agent", severity |-> "low"]} ELSE {}

SignalsOf(patterns, request) ==
    PathSignals(patterns, request) \cup MethodSignals(patterns, request)
        \cup BodySignals(patterns, request) \cup AgentSignals(request)

LEMMA SignalsListed ==
    ASSUME NEW patterns, NEW request
    PROVE  /\ Ranked(SignalsOf(patterns, request)) \subseteq DOMAIN SEVERITY_RANK \ {"none"}
           /\ LevelOf(patterns, request) = HighestOf(Ranked(SignalsOf(patterns, request)))
  <1> DEFINE library == Library(patterns)
             scans == [t \in library.body |-> BodyScan(t, request, {})]
             scanned == UNION {{Signal(c, t) : c \in scans[t].categories} : t \in library.body}
  <1>1. /\ library.path = patterns \cap AllPath /\ library.body = patterns \cap AllBody
        /\ library.method = patterns \cap AllMethod
    BY DEF Library
  <1>2. LevelOf(patterns, request) =
            HighestOf({s.severity : s \in PathSignals(patterns, request)
                           \cup MethodSignals(patterns, request) \cup scanned \cup AgentSignals(request)})
    BY <1>1 DEF detectThreats, LevelOf, PathSignals, MethodSignals, AgentSignals
  <1>3. \A t \in library.body : scans[t].categories = BodyScan(t, request, {}).categories
    OBVIOUS
  <1> HIDE DEF library, scans
  <1>4. scanned = BodySignals(patterns, request)
    BY <1>1, <1>3 DEF BodySignals
  <1> HIDE DEF scanned
  <1>5. LevelOf(patterns, request) = HighestOf(Ranked(SignalsOf(patterns, request)))
    BY <1>2, <1>4 DEF Ranked, SignalsOf
  <1>6. ASSUME NEW s \in SignalsOf(patterns, request)
        PROVE  s.severity \in DOMAIN SEVERITY_RANK \ {"none"}
    <2>1. "low" \in DOMAIN SEVERITY_RANK
      BY DEF SEVERITY_RANK
    <2>2. \/ s = [category |-> "agent", severity |-> "low"]
          \/ \E c : \E t \in AllPath \cup AllBody \cup AllMethod : s = Signal(c, t)
      BY <1>6 DEF SignalsOf, PathSignals, MethodSignals, BodySignals, AgentSignals
    <2>3. QED BY <2>1, <2>2, SeverityAssumption DEF Signal
  <1>7. QED BY <1>5, <1>6 DEF Ranked

\* A request has the level "none" if nothing is found in it: every signal counts.
LEMMA NoneFound ==
    ASSUME NEW patterns, NEW request
    PROVE  LevelOf(patterns, request) = "none" <=>
              /\ request.userAgent # NoText
              /\ \A t \in patterns \cap AllPath : request.url \notin t.matches
              /\ \A t \in patterns \cap AllMethod : t.method # request.method
              /\ \A t \in patterns \cap AllBody :
                    /\ request.body = NoText \/ request.body \notin t.matches
                    /\ request.url \notin t.matches /\ request.method \notin t.matches
  <1>1. LevelOf(patterns, request) = "none" <=> SignalsOf(patterns, request) = {}
    <2>1. /\ Ranked(SignalsOf(patterns, request)) \subseteq DOMAIN SEVERITY_RANK
          /\ "none" \notin Ranked(SignalsOf(patterns, request))
      BY SignalsListed
    <2>2. LevelOf(patterns, request) = "none"
              <=> Ranked(SignalsOf(patterns, request)) \subseteq {"none"}
      BY <2>1, SignalsListed, HighestNone
    <2>3. QED BY <2>1, <2>2 DEF Ranked
  <1>2. AgentSignals(request) = {} <=> request.userAgent # NoText
    BY DEF AgentSignals
  <1>3. PathSignals(patterns, request) = {}
            <=> \A t \in patterns \cap AllPath : request.url \notin t.matches
    BY DEF PathSignals
  <1>4. MethodSignals(patterns, request) = {}
            <=> \A t \in patterns \cap AllMethod : t.method # request.method
    BY DEF MethodSignals
  <1>5. BodySignals(patterns, request) = {}
            <=> \A t \in patterns \cap AllBody : BodyScan(t, request, {}).categories = {}
    BY DEF BodySignals
  <1>6. \A t : BodyScan(t, request, {}).categories = {} <=>
                    /\ request.body = NoText \/ request.body \notin t.matches
                    /\ request.url \notin t.matches /\ request.method \notin t.matches
    <2> TAKE t
    <2> DEFINE found == BodyScan(t, request, {}).categories
    <2>1. \A c : c \in found <=>
              \/ c = "body" /\ request.body # NoText /\ request.body \in t.matches
              \/ c = "url" /\ request.url \in t.matches
              \/ c = "method" /\ request.method \in t.matches
      BY BodyScanFinds
    <2> HIDE DEF found
    <2>2. found = {} <=> \A c : c \notin found
      OBVIOUS
    <2>3. QED BY <2>1, <2>2 DEF found
  <1>7. QED BY <1>1, <1>2, <1>3, <1>4, <1>5, <1>6 DEF SignalsOf

\* A request in which a library finds nothing has no finding in its row either.
LEMMA SlipsThroughTwice ==
    ASSUME NEW patterns, NEW request, LevelOf(patterns, request) = "none"
    PROVE  LevelOf(patterns, serializeRow(request)) = "none"
  <1> DEFINE row == serializeRow(request)
  <1>1. row.url = request.url /\ row.method = request.method
            /\ row.userAgent = request.userAgent /\ row.body = NoText
    BY DEF serializeRow
  <1> HIDE DEF row
  <1>2. LevelOf(patterns, row) = "none"
    BY <1>1, NoneFound
  <1>3. QED BY <1>2 DEF row

\* Nothing is hidden from the miners: whatever level its row was stored with,
\* whatever patterns were added since and whichever dump is read, a dumped request
\* in which the library finds nothing is in the report.
THEOREM NothingHidden == WeekSpec => []NothingIsHidden
  <1>1. WeekInit => NothingIsHidden
    BY DEF WeekInit, NoReport, NothingIsHidden
  <1>2. NothingIsHidden /\ [WeekNext]_weekVars => NothingIsHidden'
    <2> SUFFICES ASSUME NothingIsHidden, [WeekNext]_weekVars PROVE NothingIsHidden'
      OBVIOUS
    <2>1. ASSUME NEW m, Mine(m) PROVE NothingIsHidden'
      <3>1. /\ report'.ids = dumps[m].ids /\ report'.patterns = known
            /\ report'.shapes = buildUncaughtShapes(dumps[m].ids)
        BY <2>1 DEF Mine, NoReport
      <3>2. ASSUME NEW id \in dumps[m].ids, LevelOf(known, RequestOf[id]) = "none"
            PROVE  Shape(id) \in buildUncaughtShapes(dumps[m].ids)
        BY <3>2, SlipsThroughTwice DEF buildUncaughtShapes, CurrentLevel
      <3>3. QED BY <3>1, <3>2 DEF NothingIsHidden, SlipsThrough
    <2>2. ASSUME NEW m, ValidatePatterns(m) PROVE NothingIsHidden'
      <3>1. report'.tool = "validate-patterns"
        BY <2>2 DEF ValidatePatterns, NoReport
      <3>2. QED BY <3>1 DEF NothingIsHidden
    <2>3. CASE report' = NoReport
      BY <2>3 DEF NothingIsHidden, NoReport
    <2>4. CASE report' = report
      BY <2>4 DEF NothingIsHidden, SlipsThrough
    <2>5. QED BY <2>1, <2>2, <2>3, <2>4, WeekCases DEF miningVars, weekVars
  <1>3. QED BY <1>1, <1>2, PTL DEF WeekSpec

---------------------------------------------------------------------------
(* What a validation foretells *)

\* A hit is a match in one of the texts; without the g flag every match is a hit,
\* and the expression never resumes.
LEMMA SomeHit ==
    ASSUME NEW pattern, NEW resumes, NEW texts, Len(texts) \in {1, 2}
    PROVE  LET matched == \E i \in 1..Len(texts) : texts[i] \in pattern.matches
               tested == TestSome(pattern, resumes, texts)
           IN  /\ tested.hit => matched
               /\ ~pattern.global /\ ~resumes => (tested.hit <=> matched) /\ ~tested.resumes
  <1> DEFINE first == Test(pattern, resumes, texts[1])
             second == Test(pattern, first.resumes, texts[2])
             tested == TestSome(pattern, resumes, texts)
  <1>1. /\ first.hit <=> texts[1] \in pattern.matches /\ ~resumes
        /\ first.resumes <=> first.hit /\ pattern.global
    BY DEF Test
  <1> HIDE DEF first
  <1>2. /\ second.hit <=> texts[2] \in pattern.matches /\ ~first.resumes
        /\ second.resumes <=> second.hit /\ pattern.global
    BY DEF Test
  <1> HIDE DEF second
  <1>3. tested = IF first.hit \/ Len(texts) = 1 THEN first ELSE second
    BY DEF TestSome, first, second
  <1> HIDE DEF tested
  <1>4. CASE Len(texts) = 1
    <2>1. (\E i \in 1..Len(texts) : texts[i] \in pattern.matches)
              <=> texts[1] \in pattern.matches
      BY <1>4
    <2>2. tested = first
      BY <1>3, <1>4
    <2>3. QED BY <1>1, <2>1, <2>2 DEF tested
  <1>5. CASE Len(texts) = 2
    <2>1. (\E i \in 1..Len(texts) : texts[i] \in pattern.matches)
              <=> texts[1] \in pattern.matches \/ texts[2] \in pattern.matches
      BY <1>5
    <2>2. tested = IF first.hit THEN first ELSE second
      BY <1>3, <1>5
    <2>3. QED BY <1>1, <1>2, <2>1, <2>2 DEF tested
  <1>6. QED BY <1>4, <1>5

\* The pass, text after text.
LEMMA EachTested ==
    ASSUME NEW pattern, NEW resumes, NEW list, Len(list) \in Nat
    PROVE  LET tested == TestEach(pattern, resumes, list) IN
           /\ tested[0] = [hit |-> FALSE, resumes |-> resumes]
           /\ \A k \in 1..Len(list) :
                 tested[k] = TestSome(pattern, tested[k - 1].resumes, list[k])
  <1> DEFINE n == Len(list)
             V == [hit : BOOLEAN, resumes : BOOLEAN \cup {resumes}]
             none == [hit |-> FALSE, resumes |-> resumes]
             Next_(k, before) == TestSome(pattern, before.resumes, list[k])
             Solves(f) == f = [k \in 0..n |-> IF k = 0 THEN none ELSE Next_(k, f[k - 1])]
             tested == CHOOSE f : Solves(f)
             next == [k \in 1..n |-> [before \in V |-> Next_(k, before)]]
  <1>1. TestEach(pattern, resumes, list) = tested
    BY DEF TestEach
  <1>2. none \in V
    OBVIOUS
  <1>3. ASSUME NEW k \in 1..n, NEW before \in V PROVE Next_(k, before) \in V
    <2>1. \A r, text : Test(pattern, r, text) \in V
      BY DEF Test
    <2>2. QED BY <2>1 DEF TestSome
  <1> HIDE DEF none, Next_
  <1>4. next \in [1..n -> [V -> V]]
    BY <1>3
  <1>5. n \in Nat
    OBVIOUS
  <1> HIDE DEF V, next, n
  <1>6. Solvable(n, V, none, next)
    BY <1>2, <1>4, <1>5, RecursionExists
  <1>7. PICK F \in [0..n -> V] : F[0] = none /\ \A k \in 1..n : F[k] = next[k][F[k - 1]]
    BY <1>6 DEF Solvable, Unfolds
  <1>8. Solves(F)
    <2>1. ASSUME NEW k \in 1..n PROVE F[k] = Next_(k, F[k - 1])
      <3>1. k - 1 \in 0..n
        BY <1>5
      <3>2. F[k - 1] \in V
        BY <3>1
      <3>3. QED BY <1>7, <3>2 DEF next
    <2>2. \A k \in 0..n : k = 0 \/ k \in 1..n
      BY <1>5
    <2>3. \A k \in 0..n : F[k] = IF k = 0 THEN none ELSE Next_(k, F[k - 1])
      BY <1>7, <2>1, <2>2
    <2>4. QED BY <2>3
  <1>9. Solves(tested)
    <2> HIDE DEF Solves
    <2>1. QED BY <1>8
  <1> HIDE DEF tested
  <1>10. tested[0] = none /\ \A k \in 1..n : tested[k] = Next_(k, tested[k - 1])
    <2>1. \A k \in 0..n : tested[k] = IF k = 0 THEN none ELSE Next_(k, tested[k - 1])
      BY <1>9
    <2>2. 0 \in 0..n /\ \A k \in 1..n : k \in 0..n /\ k # 0
      BY <1>5
    <2>3. QED BY <2>1, <2>2
  <1>11. QED BY <1>1, <1>10 DEF none, Next_, n

\* What a whole pass hits.
LEMMA EachHit ==
    ASSUME NEW pattern, NEW resumes, NEW list, Len(list) \in Nat,
           \A k \in 1..Len(list) : Len(list[k]) \in {1, 2}
    PROVE  LET tested == TestEach(pattern, resumes, list)
               Matched(k) == \E i \in 1..Len(list[k]) : list[k][i] \in pattern.matches
           IN  /\ \A k \in 1..Len(list) : tested[k].hit => Matched(k)
               /\ ~pattern.global /\ ~resumes =>
                     /\ ~tested[Len(list)].resumes
                     /\ \A k \in 1..Len(list) : tested[k].hit <=> Matched(k)
  <1> DEFINE tested == TestEach(pattern, resumes, list)
             n == Len(list)
             Matched(k) == \E i \in 1..Len(list[k]) : list[k][i] \in pattern.matches
  <1>1. /\ tested[0] = [hit |-> FALSE, resumes |-> resumes]
        /\ \A k \in 1..n : tested[k] = TestSome(pattern, tested[k - 1].resumes, list[k])
    BY EachTested
  <1> HIDE DEF tested
  <1>2. \A k \in 1..n : /\ tested[k].hit => Matched(k)
                        /\ ~pattern.global /\ ~tested[k - 1].resumes =>
                              (tested[k].hit <=> Matched(k)) /\ ~tested[k].resumes
    BY <1>1, SomeHit
  <1>3. n \in Nat /\ n \in 0..n
    OBVIOUS
  <1> HIDE DEF n, Matched
  <1>4. ASSUME ~pattern.global, ~resumes
        PROVE  \A k \in 0..n : ~tested[k].resumes
    <2> DEFINE fresh == {k \in 0..n : ~tested[k].resumes}
    <2>1. 0 \in fresh
      BY <1>1, <1>3, <1>4
    <2>2. \A k \in 1..n : k - 1 \in fresh => k \in fresh
      BY <1>2, <1>3, <1>4
    <2> HIDE DEF fresh
    <2>3. \A k \in 0..n : k \in fresh
      BY <1>3, <2>1, <2>2, StepByStep
    <2>4. QED BY <2>3 DEF fresh
  <1>5. \A k \in 1..n : k - 1 \in 0..n
    BY <1>3
  <1>6. QED BY <1>1, <1>2, <1>3, <1>4, <1>5 DEF tested, n, Matched

\* The rows of a dump, in its order.
LEMMA DumpOrder ==
    ASSUME NEW ids, ids \subseteq 1..MaxId
    PROVE  LET order == InIdOrder(ids)
               n == Cardinality(ids) IN
           /\ n \in Nat /\ DOMAIN order = 1..n /\ Len(order) = n
           /\ \A k \in 1..n : order[k] \in ids
           /\ \A j, k \in 1..n : order[j] = order[k] => j = k
           /\ \A j, k \in 1..n : j < k => order[j] < order[k]
           /\ \A id \in ids : \E k \in 1..n : order[k] = id
  <1> DEFINE order == InIdOrder(ids)
             n == Cardinality(ids)
  <1>1. MaxId \in Nat
    BY ExportAssumption DEF ExportAssumption
  <1>2. ids \subseteq Nat /\ IsFiniteSet(ids)
    <2>1. IsFiniteSet(1..MaxId)
      BY <1>1, FS_Interval
    <2>2. IsFiniteSet(ids)
      BY <2>1, FS_Subset
    <2>3. QED BY <1>1, <2>2
  <1>3. /\ n \in Nat /\ DOMAIN order = 1..n
        /\ \A k \in 1..n : order[k] \in ids
        /\ \A j, k \in 1..n : j < k => order[j] < order[k]
        /\ \A id \in ids : \E k \in 1..n : order[k] = id
    <2>1. order = Ascending(ids)
      BY DEF InIdOrder
    <2> HIDE DEF order
    <2>2. QED BY <1>2, <2>1, AscendingLists
  <1>4. order = [k \in 1..n |-> order[k]]
    BY <1>2, <1>3 DEF InIdOrder, Ascending, ascending
  <1> HIDE DEF order, n
  <1>5. Len(order) = n
    BY <1>3, <1>4
  <1>6. \A k \in 1..n : order[k] \in Nat
    BY <1>2, <1>3
  <1>7. ASSUME NEW j \in 1..n, NEW k \in 1..n, order[j] = order[k] PROVE j = k
    <2>1. ~(j < k) /\ ~(k < j)
      BY <1>3, <1>6, <1>7
    <2>2. QED BY <1>3, <2>1
  <1>8. QED BY <1>3, <1>5, <1>7 DEF order, n

\* What a trial of a proposal says, in terms of what its texts match.
LEMMA TrialSays ==
    ASSUME NEW pattern, NEW ids, ids \subseteq 1..MaxId
    PROVE  LET trial == Validate(pattern, ids)
               Matched(id) == \/ RequestOf[id].url \in pattern.matches
                              \/ /\ pattern \in AllBody
                                 /\ StoredText[RequestOf[id].body] \in pattern.matches
           IN  /\ trial.pattern = pattern
               /\ \A id \in trial.caught : id \in ids /\ Matched(id)
               /\ ~pattern.global =>
                    /\ \A id \in ids :
                          Matched(id) /\ CurrentLevel(id) = "none" => id \in trial.caught
                    /\ \A k \in DOMAIN LegitRoutes :
                          LegitRoutes[k] \in pattern.matches => LegitRoutes[k] \in trial.fixtureHits
  <1> DEFINE trial == Validate(pattern, ids)
             Matched(id) == \/ RequestOf[id].url \in pattern.matches
                            \/ /\ pattern \in AllBody
                               /\ StoredText[RequestOf[id].body] \in pattern.matches
             order == InIdOrder(ids)
             n == Cardinality(ids)
             rows == [k \in DOMAIN order |-> ProposalHaystacks(pattern, order[k])]
             routes == [k \in DOMAIN LegitRoutes |-> <<LegitRoutes[k]>>]
             onRows == TestEach(pattern, FALSE, rows)
             onRoutes == TestEach(pattern, onRows[Len(order)].resumes, routes)
  <1>1. /\ trial.pattern = pattern
        /\ trial.caught = {order[k] : k \in {j \in DOMAIN order :
                                onRows[j].hit /\ CurrentLevel(order[j]) = "none"}}
        /\ trial.fixtureHits = {LegitRoutes[k] : k \in {j \in DOMAIN LegitRoutes : onRoutes[j].hit}}
    BY DEF Validate
  <1>2. /\ n \in Nat /\ DOMAIN order = 1..n /\ Len(order) = n
        /\ \A k \in 1..n : order[k] \in ids
        /\ \A id \in ids : \E k \in 1..n : order[k] = id
    BY DumpOrder
  <1> HIDE DEF trial, order, n
  <1>3. /\ Len(rows) = n
        /\ \A k \in 1..n : rows[k] = ProposalHaystacks(pattern, order[k])
    BY <1>2
  <1>4. \A k \in 1..n : Len(rows[k]) \in {1, 2}
    BY <1>3 DEF ProposalHaystacks
  <1>5. \A k \in 1..n : (\E i \in 1..Len(rows[k]) : rows[k][i] \in pattern.matches)
                            <=> Matched(order[k])
    <2> TAKE k \in 1..n
    <2> DEFINE request == RequestOf[order[k]]
    <2>1. CASE pattern \in AllBody
      <3>1. rows[k] = <<StoredText[request.body], request.url>>
        BY <1>3, <2>1 DEF ProposalHaystacks
      <3> HIDE DEF rows
      <3>2. Len(rows[k]) = 2 /\ rows[k][1] = StoredText[request.body] /\ rows[k][2] = request.url
        BY <3>1
      <3>3. QED BY <2>1, <3>2
    <2>2. CASE pattern \notin AllBody
      <3>1. rows[k] = <<request.url>>
        BY <1>3, <2>2 DEF ProposalHaystacks
      <3> HIDE DEF rows
      <3>2. Len(rows[k]) = 1 /\ rows[k][1] = request.url
        BY <3>1
      <3>3. QED BY <2>2, <3>2
    <2>3. QED BY <2>1, <2>2
  <1> HIDE DEF rows
  <1>6. /\ \A k \in 1..n : onRows[k].hit => Matched(order[k])
        /\ ~pattern.global => /\ ~onRows[n].resumes
                              /\ \A k \in 1..n : onRows[k].hit <=> Matched(order[k])
    <2>1. /\ \A k \in 1..n : onRows[k].hit => \E i \in 1..Len(rows[k]) : rows[k][i] \in pattern.matches
          /\ ~pattern.global =>
                /\ ~onRows[n].resumes
                /\ \A k \in 1..n : onRows[k].hit <=>
                                    \E i \in 1..Len(rows[k]) : rows[k][i] \in pattern.matches
      <3>1. Len(rows) \in Nat /\ \A k \in 1..Len(rows) : Len(rows[k]) \in {1, 2}
        BY <1>2, <1>3, <1>4
      <3>2. QED BY <1>3, <3>1, EachHit, Zenon
    <2>2. QED BY <1>5, <2>1
  <1>7. /\ LegitRoutes \in Seq(STRING) /\ DOMAIN LegitRoutes = 1..Len(LegitRoutes)
        /\ Len(LegitRoutes) \in Nat
    BY RoundAssumption
  <1>8. /\ Len(routes) = Len(LegitRoutes)
        /\ \A k \in 1..Len(LegitRoutes) :
              Len(routes[k]) = 1 /\ routes[k][1] = LegitRoutes[k]
    BY <1>7
  <1> HIDE DEF routes, onRows, Matched
  <1>9. ASSUME ~pattern.global
        PROVE  \A k \in 1..Len(LegitRoutes) :
                   onRoutes[k].hit <=> LegitRoutes[k] \in pattern.matches
    <2>1. ~onRows[Len(order)].resumes
      BY <1>2, <1>6, <1>9
    <2>2. \A k \in 1..Len(routes) :
              onRoutes[k].hit <=> \E i \in 1..Len(routes[k]) : routes[k][i] \in pattern.matches
      BY <1>7, <1>8, <1>9, <2>1, EachHit
    <2>3. QED BY <1>8, <2>2
  <1> HIDE DEF onRoutes
  <1>10. \A id \in trial.caught : id \in ids /\ Matched(id)
    BY <1>1, <1>2, <1>6
  <1>11. ASSUME ~pattern.global, NEW id \in ids, Matched(id), CurrentLevel(id) = "none"
         PROVE  id \in trial.caught
    <2>1. PICK k \in 1..n : order[k] = id
      BY <1>2
    <2>2. onRows[k].hit
      BY <1>6, <1>11, <2>1
    <2>3. QED BY <1>1, <1>2, <1>11, <2>1, <2>2
  <1>12. ~pattern.global =>
             \A k \in DOMAIN LegitRoutes :
                 LegitRoutes[k] \in pattern.matches => LegitRoutes[k] \in trial.fixtureHits
    BY <1>1, <1>7, <1>9
  <1>13. QED BY <1>1, <1>10, <1>11, <1>12 DEF trial, Matched

\* A pattern that finds nothing in a legitimate route nor in the method of a visit
\* changes nothing for one.
LEMMA VisitUnchanged ==
    ASSUME NEW patterns, NEW pattern, NEW url,
           url \notin pattern.matches, ~SeenInMethod(pattern, "GET")
    PROVE  LevelOf(patterns \cup {pattern}, Visit(url)) = LevelOf(patterns, Visit(url))
  <1> DEFINE more == patterns \cup {pattern}
             visit == Visit(url)
  <1>1. visit.url = url /\ visit.method = "GET" /\ visit.body = NoText
    BY DEF Visit
  <1> HIDE DEF visit
  <1>2. pattern \in AllBody => BodyScan(pattern, visit, {}).categories = {}
    <2> DEFINE found == BodyScan(pattern, visit, {}).categories
    <2>1. \A c : c \in found <=>
              \/ c = "body" /\ visit.body # NoText /\ visit.body \in pattern.matches
              \/ c = "url" /\ visit.url \in pattern.matches
              \/ c = "method" /\ visit.method \in pattern.matches
      BY BodyScanFinds
    <2> HIDE DEF found
    <2>2. pattern \in AllBody => found = {}
      BY <1>1, <2>1 DEF SeenInMethod
    <2>3. QED BY <2>2 DEF found
  <1>3. BodySignals(more, visit) = BodySignals(patterns, visit)
    BY <1>2 DEF BodySignals
  <1>4. PathSignals(more, visit) = PathSignals(patterns, visit)
    BY <1>1 DEF PathSignals
  <1>5. MethodSignals(more, visit) = MethodSignals(patterns, visit)
    BY <1>1 DEF MethodSignals, SeenInMethod
  <1> HIDE DEF more
  <1>6. LevelOf(more, visit) = LevelOf(patterns, visit)
    BY <1>3, <1>4, <1>5, SignalsListed DEF SignalsOf
  <1>7. QED BY <1>6 DEF more, visit

\* What a trial says is what the middleware does once the proposal is in.
LEMMA TrialForetells ==
    ASSUME NEW ids, ids \subseteq 1..MaxId, NEW pattern \in Proposals
    PROVE  LET trial == Validate(pattern, ids) IN
           /\ \A id \in ids : ForetellsRow(known, trial, id)
           /\ ForetellsVisits(known, trial)
  <1> DEFINE trial == Validate(pattern, ids)
             more == known \cup {pattern}
             Matched(id) == \/ RequestOf[id].url \in pattern.matches
                            \/ /\ pattern \in AllBody
                               /\ StoredText[RequestOf[id].body] \in pattern.matches
  <1>1. /\ \A id \in trial.caught : id \in ids /\ Matched(id)
        /\ ~pattern.global =>
              \A id \in ids : Matched(id) /\ CurrentLevel(id) = "none" => id \in trial.caught
    BY TrialSays
  <1> HIDE DEF trial
  <1>2. ASSUME NEW id \in ids, Matched(id), pattern \notin AllMethod,
               ~NotTheScannedBody(pattern, RequestOf[id].body)
        PROVE  LevelOf(more, RequestOf[id]) # "none"
    <2> DEFINE request == RequestOf[id]
    <2>1. CASE pattern \in AllBody
      <3>1. \/ request.url \in pattern.matches
            \/ request.body # NoText /\ request.body \in pattern.matches
        BY <1>2, <2>1 DEF NotTheScannedBody
      <3> HIDE DEF request
      <3>2. QED BY <2>1, <3>1, NoneFound DEF request
    <2>2. CASE pattern \in AllPath /\ pattern \notin AllBody
      <3>1. request.url \in pattern.matches
        BY <1>2, <2>2
      <3> HIDE DEF request
      <3>2. QED BY <2>2, <3>1, NoneFound DEF request
    <2>3. QED BY <1>2, <2>1, <2>2 DEF Proposals
  <1>3. ASSUME NEW id \in ids, LevelOf(known, RequestOf[id]) = "none",
               LevelOf(more, RequestOf[id]) # "none",
               StoredText[RequestOf[id].body] = RequestOf[id].body,
               ~SeenInMethod(pattern, RequestOf[id].method), ~pattern.global
        PROVE  id \in trial.caught
    <2> DEFINE request == RequestOf[id]
    <2>1. CurrentLevel(id) = "none"
      BY <1>3, SlipsThroughTwice DEF CurrentLevel
    <2>2. /\ request.userAgent # NoText
          /\ \A t \in known \cap AllPath : request.url \notin t.matches
          /\ \A t \in known \cap AllMethod : t.method # request.method
          /\ \A t \in known \cap AllBody :
                    /\ request.body = NoText \/ request.body \notin t.matches
                    /\ request.url \notin t.matches /\ request.method \notin t.matches
      BY <1>3, NoneFound
    <2>3. \/ pattern \in AllPath /\ request.url \in pattern.matches
          \/ pattern \in AllMethod /\ pattern.method = request.method
          \/ /\ pattern \in AllBody
             /\ \/ request.body \in pattern.matches
                \/ request.url \in pattern.matches \/ request.method \in pattern.matches
      <3>1. ~ /\ request.userAgent # NoText
              /\ \A t \in more \cap AllPath : request.url \notin t.matches
              /\ \A t \in more \cap AllMethod : t.method # request.method
              /\ \A t \in more \cap AllBody :
                        /\ request.body = NoText \/ request.body \notin t.matches
                        /\ request.url \notin t.matches /\ request.method \notin t.matches
        <4> HIDE DEF more, request
        <4>1. QED BY <1>3, NoneFound DEF request
      <3> HIDE DEF request
      <3>2. QED BY <2>2, <3>1
    <2>4. Matched(id)
      BY <1>3, <2>3 DEF SeenInMethod
    <2>5. QED BY <1>1, <1>3, <2>1, <2>4
  <1>4. /\ trial.pattern = pattern
        /\ ~pattern.global =>
              \A k \in DOMAIN LegitRoutes :
                  LegitRoutes[k] \in pattern.matches => LegitRoutes[k] \in trial.fixtureHits
    <2>1. /\ Validate(pattern, ids).pattern = pattern
          /\ ~pattern.global =>
                \A k \in DOMAIN LegitRoutes : LegitRoutes[k] \in pattern.matches
                    => LegitRoutes[k] \in Validate(pattern, ids).fixtureHits
      BY TrialSays
    <2>2. QED BY <2>1 DEF trial
  <1>5. ASSUME NEW id \in ids PROVE ForetellsRow(known, trial, id)
    <2> HIDE DEF Matched
    <2>1. QED BY <1>1, <1>2, <1>3, <1>4 DEF ForetellsRow
  <1>6. ForetellsVisits(known, trial)
    <2> SUFFICES ASSUME trial.fixtureHits = {}, ~SeenInMethod(pattern, "GET"), ~pattern.global,
                        NEW k \in DOMAIN LegitRoutes
                 PROVE  LevelOf(more, Visit(LegitRoutes[k]))
                            = LevelOf(known, Visit(LegitRoutes[k]))
      BY <1>4 DEF ForetellsVisits
    <2>1. LegitRoutes[k] \notin pattern.matches
      BY <1>4
    <2>2. QED BY <2>1, VisitUnchanged
  <1>7. QED BY <1>5, <1>6 DEF trial

---------------------------------------------------------------------------
(* Reports are made from dumps *)

\* What is dumped are ids that were drawn.
IdsInv ==
    /\ nextId \in Nat
    /\ \A c \in Connections : open[c] \in 0..MaxId
    /\ DOMAIN open = Connections
    /\ committed \subseteq 1..MaxId
    /\ \A m \in DOMAIN dumps : dumps[m].ids \subseteq 1..MaxId

LEMMA IdsInitially == Init => IdsInv
  <1> SUFFICES ASSUME Init PROVE IdsInv
    OBVIOUS
  <1>1. MaxId \in Nat /\ FirstRows \in 1..MaxId
    BY ExportAssumption DEF ExportAssumption
  <1>2. 0 \in 0..MaxId /\ 1..FirstRows \subseteq 1..MaxId /\ FirstRows + 1 \in Nat
    BY <1>1
  <1>3. PICK first \in 0..1 : dumps = [m \in {first} |-> [ids |-> 1..FirstRows, whole |-> TRUE]]
    BY DEF Init
  <1>4. \A m \in DOMAIN dumps : dumps[m].ids = 1..FirstRows
    BY <1>3
  <1>5. QED BY <1>2, <1>4 DEF Init, IdsInv

LEMMA IdsStep ==
    ASSUME IdsInv, [Next]_vars
    PROVE  IdsInv'
  <1> USE DEF IdsInv
  <1>1. MaxId \in Nat
    BY ExportAssumption DEF ExportAssumption
  <1>2. ASSUME NEW c \in Connections, DrawId(c) PROVE IdsInv'
    <2>1. /\ nextId <= MaxId /\ open' = [open EXCEPT ![c] = nextId] /\ nextId' = nextId + 1
          /\ committed' = committed /\ dumps' = dumps
      BY <1>2 DEF DrawId
    <2>2. nextId \in 0..MaxId
      BY <1>1, <2>1
    <2>3. QED BY <2>1, <2>2
  <1>3. ASSUME NEW c \in Connections, EndInsert(c) PROVE IdsInv'
    <2>1. /\ open[c] > 0 /\ open' = [open EXCEPT ![c] = 0] /\ nextId' = nextId
          /\ committed' \in {committed, committed \cup {open[c]}} /\ dumps' = dumps
      BY <1>3 DEF EndInsert
    <2>2. open[c] \in 1..MaxId /\ 0 \in 0..MaxId
      BY <1>1, <2>1
    <2>3. QED BY <2>1, <2>2
  <1>4. CASE MinutePasses \/ ClockGoesBack
    BY <1>4 DEF MinutePasses, ClockGoesBack, tableVars
  <1>5. ASSUME NEW sinceId \in Baselines, Export(sinceId) PROVE IdsInv'
    <2>1. nextId' = nextId /\ open' = open /\ committed' = committed
      BY <1>5 DEF Export, tableVars
    <2>2. \/ dumps' = dumps
          \/ \E dump : /\ dump = [ids |-> RowsSince(sinceId), whole |-> TRUE] \/ dump = Torn
                       /\ Write(localTimestamp, dump)
      BY <1>5 DEF Export
    <2>3. ASSUME NEW dump, dump.ids \subseteq 1..MaxId, Write(localTimestamp, dump)
          PROVE  IdsInv'
      BY <2>1, <2>3 DEF Write
    <2>4. RowsSince(sinceId) \subseteq 1..MaxId
      BY DEF RowsSince
    <2>5. \A dump : dump = [ids |-> RowsSince(sinceId), whole |-> TRUE] \/ dump = Torn
                        => dump.ids \subseteq 1..MaxId
      BY <2>4 DEF Torn
    <2>6. QED BY <2>1, <2>2, <2>3, <2>5
  <1>6. CASE UNCHANGED vars
    BY <1>6 DEF vars, tableVars
  <1>7. QED BY <1>2, <1>3, <1>4, <1>5, <1>6, ExportCases

LEMMA RoundIds == WeekSpec => []IdsInv
  <1>1. IdsInv /\ [Next]_vars => IdsInv'
    BY IdsStep
  <1>2. QED BY <1>1, IdsInitially, RoundImplementsExport, PTL DEF Spec

\* A validation foretells what the middleware will do, for any library, any proposal
\* for any of its lists and any dump: what is counted as newly caught is caught once
\* the proposal is in, and what slips through until then is counted, each but for the
\* reasons the property lists; and a proposal without a fixture hit changes no visit's
\* verdict, but for two of them.
THEOREM ValidationRight == WeekSpec => []ValidationForetells
  <1>1. WeekInit => ValidationForetells
    BY DEF WeekInit, NoReport, ValidationForetells
  <1>2. IdsInv /\ ValidationForetells /\ [WeekNext]_weekVars => ValidationForetells'
    <2> SUFFICES ASSUME IdsInv, ValidationForetells, [WeekNext]_weekVars
                 PROVE  ValidationForetells'
      OBVIOUS
    <2>1. ASSUME NEW m \in DOMAIN dumps, ValidatePatterns(m) PROVE ValidationForetells'
      <3> DEFINE ids == dumps[m].ids
                 Trial(p) == Validate(p, ids)
      <3>1. /\ report'.ids = ids /\ report'.patterns = known
            /\ report'.proposals = {Trial(p) : p \in Proposals \ known}
        BY <2>1 DEF ValidatePatterns, NoReport
      <3>2. ids \subseteq 1..MaxId
        BY DEF IdsInv
      <3> HIDE DEF ids
      <3>3. ASSUME NEW p \in Proposals
            PROVE  /\ \A id \in ids : ForetellsRow(known, Trial(p), id)
                   /\ ForetellsVisits(known, Trial(p))
        BY <3>2, TrialForetells
      <3> HIDE DEF Trial
      <3>4. QED BY <3>1, <3>3 DEF ValidationForetells
    <2>2. ASSUME NEW m, Mine(m) PROVE ValidationForetells'
      <3>1. report'.proposals = {}
        BY <2>2 DEF Mine, NoReport
      <3>2. QED BY <3>1 DEF ValidationForetells
    <2>3. CASE report' = NoReport
      BY <2>3 DEF ValidationForetells, NoReport
    <2>4. CASE report' = report
      BY <2>4 DEF ValidationForetells, ForetellsRow, ForetellsVisits
    <2>5. QED BY <2>1, <2>2, <2>3, <2>4, WeekCases DEF miningVars, weekVars
  <1>3. QED BY <1>1, <1>2, RoundIds, PTL DEF WeekSpec

---------------------------------------------------------------------------
(* The clusters of a report *)

\* What a cluster says once the rows at the positions of S were fed to it.
Times(rows, S) == {rows[k].created_at : k \in S}
Counts(cluster, rows, S) ==
    /\ cluster.request_count = Cardinality(S)
    /\ cluster.ips = {rows[k].ip : k \in S}
    /\ cluster.tor_count = Cardinality({k \in S : rows[k].is_tor})
    /\ cluster.threat_levels \in [Levels -> Nat]
    /\ cluster.threat_levels["none"] = Cardinality({k \in S : rows[k].current_level = "none"})
    /\ cluster.threat_levels["none"] + cluster.threat_levels["low"]
        + cluster.threat_levels["medium"] + cluster.threat_levels["high"] = Cardinality(S)
    /\ S = {} => cluster.first_seen = NeverSeen /\ cluster.last_seen = NeverSeen
    /\ S # {} => {cluster.first_seen, cluster.last_seen} \subseteq Times(rows, S)
    /\ \A at \in Times(rows, S) : cluster.first_seen <= at /\ at <= cluster.last_seen

IsReplayed(row) == row.is_tor \in BOOLEAN /\ row.created_at \in Nat /\ row.current_level \in Levels

\* One position more, if it is counted, adds one.
LEMMA OneMore ==
    ASSUME NEW S, IsFiniteSet(S), NEW k, k \notin S, NEW Q
    PROVE  Cardinality((S \cup {k}) \cap Q) = Cardinality(S \cap Q) + IF k \in Q THEN 1 ELSE 0
  <1>1. IsFiniteSet(S \cap Q)
    <2>1. S \cap Q \in SUBSET S
      OBVIOUS
    <2>2. QED BY <2>1, FS_Subset
  <1>2. k \notin S \cap Q /\ Cardinality(S \cap Q) \in Nat
    BY <1>1, FS_CardinalityType
  <1>3. Cardinality((S \cap Q) \cup {k}) = Cardinality(S \cap Q) + 1
    BY <1>1, <1>2, FS_AddElement
  <1>4. CASE k \in Q
    <2>1. (S \cup {k}) \cap Q = (S \cap Q) \cup {k}
      BY <1>4
    <2>2. QED BY <1>3, <1>4, <2>1
  <1>5. CASE k \notin Q
    <2> DEFINE c == Cardinality(S \cap Q)
    <2>1. (S \cup {k}) \cap Q = S \cap Q
      BY <1>5
    <2>2. Cardinality((S \cup {k}) \cap Q) = c
      BY <2>1
    <2>3. c \in Nat
      BY <1>2
    <2> HIDE DEF c
    <2>4. c = c + IF k \in Q THEN 1 ELSE 0
      BY <1>5, <2>3
    <2>5. QED BY <2>2, <2>4 DEF c
  <1>6. QED BY <1>4, <1>5

LEMMA NothingCounted ==
    ASSUME NEW rows
    PROVE  Counts(makeCluster, rows, {})
  <1>1. Cardinality({}) = 0
    BY FS_EmptySet
  <1>2. {k \in {} : rows[k].is_tor} = {} /\ {k \in {} : rows[k].current_level = "none"} = {}
    OBVIOUS
  <1>3. {"none", "low", "medium", "high"} = Levels
    BY DEF Levels
  <1>4. Times(rows, {}) = {} /\ {rows[k].ip : k \in {}} = {}
    BY DEF Times
  <1>5. makeCluster.threat_levels = [level \in Levels |-> 0]
    BY DEF makeCluster
  <1>6. /\ makeCluster.request_count = 0 /\ makeCluster.ips = {} /\ makeCluster.tor_count = 0
        /\ makeCluster.first_seen = NeverSeen /\ makeCluster.last_seen = NeverSeen
    BY DEF makeCluster
  <1>7. QED BY <1>1, <1>2, <1>3, <1>4, <1>5, <1>6 DEF Counts

LEMMA OneCounted ==
    ASSUME NEW rows, NEW S, IsFiniteSet(S), NEW k, k \notin S, IsReplayed(rows[k]),
           \A j \in S : IsReplayed(rows[j]),
           NEW cluster, Counts(cluster, rows, S)
    PROVE  Counts(feedCluster(cluster, rows[k]), rows, S \cup {k})
  <1> DEFINE row == rows[k]
             fed == feedCluster(cluster, row)
             T == S \cup {k}
             levels == cluster.threat_levels
             after == fed.threat_levels
  <1>1. /\ fed.request_count = cluster.request_count + 1
        /\ fed.ips = cluster.ips \cup {row.ip}
        /\ fed.tor_count = cluster.tor_count + IF row.is_tor THEN 1 ELSE 0
        /\ after = [levels EXCEPT ![row.current_level] = @ + 1]
        /\ fed.first_seen = FirstSeen(cluster.first_seen, row.created_at)
        /\ fed.last_seen = LastSeen(cluster.last_seen, row.created_at)
    BY DEF feedCluster
  <1>2. Cardinality(S) \in Nat /\ Cardinality(T) = Cardinality(S) + 1
    BY FS_CardinalityType, FS_AddElement
  <1>3. Cardinality({j \in T : rows[j].is_tor})
            = Cardinality({j \in S : rows[j].is_tor}) + IF row.is_tor THEN 1 ELSE 0
    <2> DEFINE Q == {j \in T : rows[j].is_tor}
    <2>1. Cardinality(T \cap Q) = Cardinality(S \cap Q) + IF k \in Q THEN 1 ELSE 0
      BY OneMore
    <2>2. T \cap Q = Q /\ S \cap Q = {j \in S : rows[j].is_tor}
      OBVIOUS
    <2>3. k \in Q <=> row.is_tor
      OBVIOUS
    <2> HIDE DEF Q, T
    <2>4. Cardinality(Q) = Cardinality({j \in S : rows[j].is_tor}) + IF k \in Q THEN 1 ELSE 0
      BY <2>1, <2>2
    <2>5. QED BY <2>3, <2>4 DEF Q, T
  <1>4. Cardinality({j \in T : rows[j].current_level = "none"})
            = Cardinality({j \in S : rows[j].current_level = "none"})
                  + IF row.current_level = "none" THEN 1 ELSE 0
    <2> DEFINE Q == {j \in T : rows[j].current_level = "none"}
    <2>1. Cardinality(T \cap Q) = Cardinality(S \cap Q) + IF k \in Q THEN 1 ELSE 0
      BY OneMore
    <2>2. T \cap Q = Q /\ S \cap Q = {j \in S : rows[j].current_level = "none"}
      OBVIOUS
    <2>3. k \in Q <=> row.current_level = "none"
      OBVIOUS
    <2> HIDE DEF Q, T
    <2>4. QED BY <2>1, <2>2, <2>3 DEF Q
  <1> HIDE DEF fed
  <1>5. fed.ips = {rows[j].ip : j \in T}
    BY <1>1 DEF Counts
  <1>6. /\ levels \in [Levels -> Nat] /\ row.current_level \in Levels
        /\ {"none", "low", "medium", "high"} = Levels
    BY DEF Counts, IsReplayed, Levels
  <1>7. /\ after \in [Levels -> Nat]
        /\ \A level \in Levels :
              after[level] = IF level = row.current_level THEN levels[level] + 1 ELSE levels[level]
    BY <1>1, <1>6
  <1> HIDE DEF levels, after
  <1>8. /\ after["none"] = levels["none"] + IF row.current_level = "none" THEN 1 ELSE 0
        /\ after["none"] + after["low"] + after["medium"] + after["high"]
              = levels["none"] + levels["low"] + levels["medium"] + levels["high"] + 1
    <2>1. \A level \in Levels : levels[level] \in Nat
      BY <1>6
    <2>2. QED BY <1>6, <1>7, <2>1
  <1>9. Times(rows, T) = Times(rows, S) \cup {row.created_at} /\ Times(rows, S) \subseteq Nat
    BY DEF Times, IsReplayed
  <1>10. row.created_at \in Nat
    BY DEF IsReplayed
  <1>11. /\ {fed.first_seen, fed.last_seen} \subseteq Times(rows, T)
         /\ \A at \in Times(rows, T) : fed.first_seen <= at /\ at <= fed.last_seen
    <2>1. CASE S = {}
      <3>1. cluster.first_seen = NeverSeen /\ cluster.last_seen = NeverSeen /\ Times(rows, S) = {}
        BY <2>1 DEF Counts, Times
      <3>2. fed.first_seen = row.created_at /\ fed.last_seen = row.created_at
        BY <1>1, <3>1 DEF FirstSeen, LastSeen
      <3> HIDE DEF row
      <3>3. Times(rows, T) = {row.created_at}
        BY <1>9, <3>1
      <3>4. QED BY <1>10, <3>2, <3>3
    <2>2. CASE S # {}
      <3>1. /\ cluster.first_seen \in Times(rows, S) /\ cluster.last_seen \in Times(rows, S)
            /\ \A at \in Times(rows, S) : cluster.first_seen <= at /\ at <= cluster.last_seen
        BY <2>2 DEF Counts
      <3> DEFINE first == cluster.first_seen
                 last == cluster.last_seen
      <3>2. first \in Nat /\ last \in Nat /\ first # NeverSeen /\ last # NeverSeen
        BY <1>9, <3>1 DEF NeverSeen
      <3> HIDE DEF first, last
      <3>3. /\ fed.first_seen = IF row.created_at < first THEN row.created_at ELSE first
            /\ fed.last_seen = IF row.created_at > last THEN row.created_at ELSE last
        BY <1>1, <3>2 DEF FirstSeen, LastSeen, first, last
      <3>4. /\ first \in Times(rows, S) /\ last \in Times(rows, S)
            /\ \A at \in Times(rows, S) : at \in Nat /\ first <= at /\ at <= last
        BY <1>9, <3>1 DEF first, last
      <3>5. QED BY <1>9, <1>10, <3>2, <3>3, <3>4
    <2>3. QED BY <2>1, <2>2
  <1> HIDE DEF row
  <1>12. /\ cluster.request_count = Cardinality(S)
         /\ cluster.tor_count = Cardinality({j \in S : rows[j].is_tor})
         /\ levels["none"] = Cardinality({j \in S : rows[j].current_level = "none"})
         /\ levels["none"] + levels["low"] + levels["medium"] + levels["high"] = Cardinality(S)
    BY DEF Counts, levels
  <1>13. T # {}
    OBVIOUS
  <1> HIDE DEF T
  <1>14. /\ fed.request_count = Cardinality(T)
         /\ fed.tor_count = Cardinality({j \in T : rows[j].is_tor})
         /\ after["none"] = Cardinality({j \in T : rows[j].current_level = "none"})
         /\ after["none"] + after["low"] + after["medium"] + after["high"] = Cardinality(T)
    BY <1>1, <1>2, <1>3, <1>4, <1>8, <1>12
  <1>15. Counts(fed, rows, T)
    BY <1>5, <1>7, <1>11, <1>13, <1>14 DEF Counts, after
  <1>16. QED BY <1>15 DEF fed, T, row

\* The pass of buildClusters over the rows, position after position.
LEMMA ClusterIs ==
    ASSUME NEW rows, Len(rows) \in Nat, NEW S, S \subseteq 1..Len(rows),
           \A k \in S : IsReplayed(rows[k])
    PROVE  Counts(ClusterOf(rows, S), rows, S)
  <1> DEFINE n == Len(rows)
             V == [ request_count : Nat, ips : SUBSET {rows[k].ip : k \in S},
                    paths : SUBSET {rows[k].url : k \in S},
                    methods : SUBSET {rows[k].method : k \in S},
                    tor_count : Nat, threat_levels : [Levels -> Nat],
                    first_seen : Nat \cup {NeverSeen}, last_seen : Nat \cup {NeverSeen} ]
             Fed(k, before) == IF k \in S THEN feedCluster(before, rows[k]) ELSE before
             Solves(f) == f = [k \in 0..n |-> IF k = 0 THEN makeCluster ELSE Fed(k, f[k - 1])]
             fed == CHOOSE f : Solves(f)
             feed == [k \in 1..n |-> [before \in V |-> Fed(k, before)]]
  <1>1. ClusterOf(rows, S) = fed[n]
    BY DEF ClusterOf
  <1>2. n \in Nat
    OBVIOUS
  <1>3. makeCluster \in V
    BY DEF makeCluster
  <1>4. ASSUME NEW k \in 1..n, NEW before \in V PROVE Fed(k, before) \in V
    <2>1. CASE k \notin S
      BY <2>1
    <2>2. CASE k \in S
      <3> DEFINE row == rows[k]
                 after == feedCluster(before, row)
      <3>1. row.created_at \in Nat /\ row.current_level \in Levels
        BY <2>2 DEF IsReplayed
      <3>2. /\ row.ip \in {rows[j].ip : j \in S} /\ row.url \in {rows[j].url : j \in S}
            /\ row.method \in {rows[j].method : j \in S}
        BY <2>2
      <3>3. /\ FirstSeen(before.first_seen, row.created_at) \in Nat \cup {NeverSeen}
            /\ LastSeen(before.last_seen, row.created_at) \in Nat \cup {NeverSeen}
        BY <3>1 DEF FirstSeen, LastSeen
      <3>4. [before.threat_levels EXCEPT ![row.current_level] = @ + 1] \in [Levels -> Nat]
        BY <3>1
      <3> HIDE DEF row
      <3>5. /\ before.ips \cup {row.ip} \in SUBSET {rows[j].ip : j \in S}
            /\ before.paths \cup {row.url} \in SUBSET {rows[j].url : j \in S}
            /\ before.methods \cup {row.method} \in SUBSET {rows[j].method : j \in S}
        BY <3>2
      <3>6. /\ before.request_count + 1 \in Nat
            /\ before.tor_count + (IF row.is_tor THEN 1 ELSE 0) \in Nat
        OBVIOUS
      <3>7. after \in V
        BY <3>3, <3>4, <3>5, <3>6 DEF feedCluster
      <3>8. QED BY <2>2, <3>7 DEF row
    <2>3. QED BY <2>1, <2>2
  <1> HIDE DEF V, Fed, n
  <1>5. feed \in [1..n -> [V -> V]]
    BY <1>4
  <1> HIDE DEF feed
  <1>6. Solvable(n, V, makeCluster, feed)
    BY <1>2, <1>3, <1>5, RecursionExists
  <1>7. PICK F \in [0..n -> V] : F[0] = makeCluster /\ \A k \in 1..n : F[k] = feed[k][F[k - 1]]
    BY <1>6 DEF Solvable, Unfolds
  <1>8. Solves(F)
    <2>1. ASSUME NEW k \in 1..n PROVE F[k] = Fed(k, F[k - 1])
      <3>1. k - 1 \in 0..n
        BY <1>2
      <3>2. F[k - 1] \in V
        BY <3>1
      <3>3. QED BY <1>7, <3>2 DEF feed
    <2>2. \A k \in 0..n : k = 0 \/ k \in 1..n
      BY <1>2
    <2>3. \A k \in 0..n : F[k] = IF k = 0 THEN makeCluster ELSE Fed(k, F[k - 1])
      BY <1>7, <2>1, <2>2
    <2>4. QED BY <2>3
  <1>9. Solves(fed)
    <2> HIDE DEF Solves
    <2>1. QED BY <1>8
  <1> HIDE DEF fed
  <1>10. fed[0] = makeCluster /\ \A k \in 1..n : fed[k] = Fed(k, fed[k - 1])
    <2>1. \A k \in 0..n : fed[k] = IF k = 0 THEN makeCluster ELSE Fed(k, fed[k - 1])
      BY <1>9
    <2>2. 0 \in 0..n /\ \A k \in 1..n : k \in 0..n /\ k # 0
      BY <1>2
    <2>3. QED BY <2>1, <2>2
  <1> DEFINE upTo(k) == S \cap 1..k
             counted == {k \in 0..n : Counts(fed[k], rows, upTo(k))}
  <1>11. 0 \in counted
    <2>1. upTo(0) = {} /\ 0 \in 0..n
      BY <1>2
    <2> HIDE DEF upTo
    <2>2. QED BY <1>10, <2>1, NothingCounted
  <1>12. ASSUME NEW k \in 1..n, k - 1 \in counted PROVE k \in counted
    <2>1. /\ k \in 0..n /\ k \in Nat /\ k - 1 \in Nat
          /\ Counts(fed[k - 1], rows, upTo(k - 1))
      BY <1>2, <1>12
    <2>2. CASE k \notin S
      <3>1. upTo(k) = upTo(k - 1)
        BY <2>1, <2>2
      <3>2. fed[k] = fed[k - 1]
        BY <1>10, <2>2 DEF Fed
      <3> HIDE DEF upTo
      <3>3. QED BY <2>1, <3>1, <3>2
    <2>3. CASE k \in S
      <3>1. upTo(k) = upTo(k - 1) \cup {k} /\ k \notin upTo(k - 1)
        <4>1. 1..k = 1..(k - 1) \cup {k} /\ k \notin 1..(k - 1)
          BY <2>1
        <4>2. QED BY <2>3, <4>1
      <3>2. IsFiniteSet(upTo(k - 1))
        <4>1. IsFiniteSet(1..(k - 1))
          BY <2>1, FS_Interval
        <4>2. upTo(k - 1) \in SUBSET (1..(k - 1))
          OBVIOUS
        <4>3. QED BY <4>1, <4>2, FS_Subset
      <3>3. fed[k] = feedCluster(fed[k - 1], rows[k])
        BY <1>10, <2>3 DEF Fed
      <3>4. \A j \in upTo(k - 1) : IsReplayed(rows[j])
        OBVIOUS
      <3> HIDE DEF upTo
      <3>5. Counts(fed[k], rows, upTo(k))
        <4> DEFINE before == upTo(k - 1)
        <4>1. IsReplayed(rows[k])
          BY <2>3
        <4>2. /\ IsFiniteSet(before) /\ k \notin before
              /\ \A j \in before : IsReplayed(rows[j])
              /\ Counts(fed[k - 1], rows, before)
          BY <2>1, <3>1, <3>2, <3>4
        <4> HIDE DEF before
        <4>3. Counts(feedCluster(fed[k - 1], rows[k]), rows, before \cup {k})
          BY <4>1, <4>2, OneCounted
        <4>4. QED BY <3>1, <3>3, <4>3 DEF before
      <3>6. QED BY <2>1, <3>5
    <2>4. QED BY <2>2, <2>3
  <1> HIDE DEF counted
  <1>13. n \in counted
    <2>1. \A k \in 0..n : k \in counted
      BY <1>2, <1>11, <1>12, StepByStep
    <2>2. QED BY <1>2, <2>1
  <1>14. upTo(n) = S
    BY DEF n
  <1> HIDE DEF upTo
  <1>15. QED BY <1>1, <1>13, <1>14 DEF counted

\* The level of a row, as the detector gives it, is one of the four.
LEMMA LevelTyped ==
    ASSUME NEW patterns, NEW request
    PROVE  LevelOf(patterns, request) \in Levels
  <1> DEFINE S == Ranked(SignalsOf(patterns, request))
  <1>1. /\ S \subseteq DOMAIN SEVERITY_RANK
        /\ LevelOf(patterns, request) = HighestOf(S)
    BY SignalsListed
  <1>2. DOMAIN SEVERITY_RANK = Levels /\ "none" \in Levels
    BY DEF SEVERITY_RANK, Levels
  <1> HIDE DEF S
  <1>3. HighestOf(S) \in S \cup {"none"}
    BY <1>1, HighestThere
  <1>4. QED BY <1>1, <1>2, <1>3

\* A row is uncaught if its shape is reported and it names an agent: another row of
\* the shape differs in nothing else that is scanned.
LEMMA UncaughtShape ==
    ASSUME NEW ids, NEW id \in ids
    PROVE  CurrentLevel(id) = "none" <=>
               Shape(id) \in buildUncaughtShapes(ids) /\ RequestOf[id].userAgent # NoText
  <1> DEFINE row(i) == serializeRow(RequestOf[i])
             Quiet(url, method) ==
                 /\ \A t \in known \cap AllPath : url \notin t.matches
                 /\ \A t \in known \cap AllMethod : t.method # method
                 /\ \A t \in known \cap AllBody : url \notin t.matches /\ method \notin t.matches
  <1>1. \A i : CurrentLevel(i) = "none" <=>
                   /\ RequestOf[i].userAgent # NoText
                   /\ Quiet(RequestOf[i].url, RequestOf[i].method)
    <2> TAKE i
    <2>1. /\ row(i).url = RequestOf[i].url /\ row(i).method = RequestOf[i].method
          /\ row(i).userAgent = RequestOf[i].userAgent /\ row(i).body = NoText
      BY DEF serializeRow
    <2>2. CurrentLevel(i) = LevelOf(known, row(i))
      BY DEF CurrentLevel
    <2> HIDE DEF row
    <2>3. QED BY <2>1, <2>2, NoneFound
  <1> HIDE DEF Quiet
  <1>2. ASSUME CurrentLevel(id) = "none"
        PROVE  Shape(id) \in buildUncaughtShapes(ids) /\ RequestOf[id].userAgent # NoText
    BY <1>1, <1>2 DEF buildUncaughtShapes
  <1>3. ASSUME Shape(id) \in buildUncaughtShapes(ids), RequestOf[id].userAgent # NoText
        PROVE  CurrentLevel(id) = "none"
    <2>1. PICK i \in ids : CurrentLevel(i) = "none" /\ Shape(i) = Shape(id)
      BY <1>3 DEF buildUncaughtShapes
    <2>2. RequestOf[i].url = RequestOf[id].url /\ RequestOf[i].method = RequestOf[id].method
      BY <2>1 DEF Shape
    <2>3. QED BY <1>1, <1>3, <2>1, <2>2
  <1>4. QED BY <1>2, <1>3

\* An order without repetitions keeps the number of what it lists.
LEMMA SameNumber ==
    ASSUME NEW order, NEW S, IsFiniteSet(S), \A j, k \in S : order[j] = order[k] => j = k
    PROVE  Cardinality({order[k] : k \in S}) = Cardinality(S)
  <1> DEFINE T == {order[k] : k \in S}
             f == [k \in S |-> order[k]]
  <1>1. f \in [S -> T] /\ (\A j, k \in S : f[j] = f[k] => j = k)
            /\ \A t \in T : \E k \in S : f[k] = t
    OBVIOUS
  <1> HIDE DEF T, f
  <1>2. f \in Bijection(S, T)
    BY <1>1 DEF Bijection, Injection, IsInjective, Surjection
  <1>3. Cardinality(S) = Cardinality(T)
    BY <1>2, FS_Bijection DEF ExistsBijection
  <1>4. QED BY <1>3 DEF T

\* A cluster of the rows of a dump counts the requests with their ids.
LEMMA GroupCounts ==
    ASSUME NEW ids, ids \subseteq 1..MaxId, NEW S, S # {}, S \subseteq DOMAIN replay(ids),
           NEW R, R \subseteq ids,
           \A k \in DOMAIN replay(ids) : k \in S <=> InIdOrder(ids)[k] \in R
    PROVE  CountsItsRows(ClusterOf(replay(ids), S), R, buildUncaughtShapes(ids))
  <1> DEFINE rows == replay(ids)
             order == InIdOrder(ids)
             n == Cardinality(ids)
             cluster == ClusterOf(rows, S)
             shapes == buildUncaughtShapes(ids)
  <1>1. /\ n \in Nat /\ DOMAIN order = 1..n
        /\ \A k \in 1..n : order[k] \in ids
        /\ \A j, k \in 1..n : order[j] = order[k] => j = k
        /\ \A id \in ids : \E k \in 1..n : order[k] = id
    BY DumpOrder
  <1>2. rows = [k \in DOMAIN order |-> Replayed(order[k])]
    BY DEF replay
  <1> HIDE DEF rows, order, n
  <1>3. DOMAIN rows = 1..n /\ Len(rows) = n /\ \A k \in 1..n : rows[k] = Replayed(order[k])
    BY <1>1, <1>2
  <1>4. /\ S \subseteq 1..n /\ \A k \in 1..n : k \in S <=> order[k] \in R
    BY <1>3 DEF rows, order
  <1>5. \A k \in 1..n : /\ rows[k].ip = RequestOf[order[k]].ip
                        /\ rows[k].is_tor = RequestOf[order[k]].is_tor
                        /\ rows[k].created_at = RequestOf[order[k]].created_at
                        /\ rows[k].current_level = CurrentLevel(order[k])
    BY <1>3 DEF Replayed
  <1>6. \A k \in S : IsReplayed(rows[k])
    <2> TAKE k \in S
    <2>1. order[k] \in 1..MaxId
      BY <1>1, <1>4
    <2>2. CurrentLevel(order[k]) \in Levels
      BY LevelTyped DEF CurrentLevel
    <2>3. QED BY <1>4, <1>5, <2>1, <2>2, RoundAssumption DEF IsReplayed, RoundAssumption
  <1>7. Counts(cluster, rows, S)
    BY <1>1, <1>3, <1>4, <1>6, ClusterIs
  <1> HIDE DEF cluster
  <1>8. IsFiniteSet(S)
    <2>1. IsFiniteSet(1..n) /\ S \in SUBSET (1..n)
      BY <1>1, <1>4, FS_Interval
    <2>2. QED BY <2>1, FS_Subset
  <1>9. R = {order[k] : k \in S}
    <2>1. \A id \in R : \E k \in S : order[k] = id
      BY <1>1, <1>4
    <2>2. \A k \in S : order[k] \in R
      BY <1>4
    <2>3. QED BY <2>1, <2>2
  <1>10. ASSUME NEW Q PROVE Cardinality(R \cap Q) = Cardinality({k \in S : order[k] \in Q})
    <2> DEFINE T == {k \in S : order[k] \in Q}
    <2>1. IsFiniteSet(T)
      BY <1>8, FS_Subset
    <2>2. \A j, k \in T : order[j] = order[k] => j = k
      BY <1>1, <1>4
    <2>3. R \cap Q = {order[k] : k \in T}
      BY <1>9
    <2> HIDE DEF T
    <2>4. Cardinality({order[k] : k \in T}) = Cardinality(T)
      BY <2>1, <2>2, SameNumber
    <2>5. QED BY <2>3, <2>4 DEF T
  <1>11. Cardinality(R) = Cardinality(S)
    <2>1. \A j, k \in S : order[j] = order[k] => j = k
      BY <1>1, <1>4
    <2>2. QED BY <1>8, <1>9, <2>1, SameNumber
  <1>12. Cardinality({i \in R : RequestOf[i].is_tor}) = Cardinality({k \in S : rows[k].is_tor})
    <2> DEFINE Q == {i \in R : RequestOf[i].is_tor}
    <2>1. R \cap Q = Q /\ {k \in S : order[k] \in Q} = {k \in S : rows[k].is_tor}
      BY <1>4, <1>5
    <2> HIDE DEF Q
    <2>2. Cardinality(R \cap Q) = Cardinality({k \in S : order[k] \in Q})
      BY <1>10
    <2>3. QED BY <2>1, <2>2 DEF Q
  <1>13. Cardinality({i \in R : Shape(i) \in shapes /\ RequestOf[i].userAgent # NoText})
             = Cardinality({k \in S : rows[k].current_level = "none"})
    <2> DEFINE Q == {i \in R : Shape(i) \in shapes /\ RequestOf[i].userAgent # NoText}
    <2>1. R \cap Q = Q
      OBVIOUS
    <2>2. \A k \in S : order[k] \in Q <=> rows[k].current_level = "none"
      <3> TAKE k \in S
      <3>1. order[k] \in R /\ order[k] \in ids /\ rows[k].current_level = CurrentLevel(order[k])
        BY <1>1, <1>4, <1>5
      <3>2. CurrentLevel(order[k]) = "none" <=>
                Shape(order[k]) \in shapes /\ RequestOf[order[k]].userAgent # NoText
        BY <3>1, UncaughtShape
      <3> HIDE DEF shapes
      <3>3. QED BY <3>1, <3>2
    <2> HIDE DEF Q
    <2>3. {k \in S : order[k] \in Q} = {k \in S : rows[k].current_level = "none"}
      BY <2>2
    <2>4. Cardinality(R \cap Q) = Cardinality({k \in S : order[k] \in Q})
      BY <1>10
    <2>5. QED BY <2>1, <2>3, <2>4 DEF Q
  <1>14. /\ {RequestOf[i].ip : i \in R} = {rows[k].ip : k \in S}
         /\ {RequestOf[i].created_at : i \in R} = Times(rows, S)
    <2>0. (\A k \in S : order[k] \in R) /\ \A i \in R : \E k \in S : i = order[k]
      BY <1>9
    <2>1. \A k \in S : /\ rows[k].ip = RequestOf[order[k]].ip
                       /\ rows[k].created_at = RequestOf[order[k]].created_at
      BY <1>4, <1>5
    <2>2. {RequestOf[i].ip : i \in R} = {rows[k].ip : k \in S}
      <3>1. \A i \in R : \E k \in S : RequestOf[i].ip = rows[k].ip
        BY <2>0, <2>1
      <3>2. \A k \in S : \E i \in R : RequestOf[i].ip = rows[k].ip
        BY <2>0, <2>1
      <3>3. QED BY <3>1, <3>2
    <2>3. {RequestOf[i].created_at : i \in R} = {rows[k].created_at : k \in S}
      <3>1. \A i \in R : \E k \in S : RequestOf[i].created_at = rows[k].created_at
        BY <2>0, <2>1
      <3>2. \A k \in S : \E i \in R : RequestOf[i].created_at = rows[k].created_at
        BY <2>0, <2>1
      <3>3. QED BY <3>1, <3>2
    <2>4. QED BY <2>2, <2>3 DEF Times
  <1> HIDE DEF shapes
  <1>15. CountsItsRows(cluster, R, shapes)
    BY <1>7, <1>11, <1>12, <1>13, <1>14 DEF Counts, CountsItsRows
  <1>16. QED BY <1>15 DEF cluster, rows, shapes

\* The groups of a report: each is the cluster of the rows with its key, and a /24
\* that is busy enough has one.
LEMMA GroupsAre ==
    ASSUME NEW ids, ids \subseteq 1..MaxId
    PROVE  LET found == buildClusters(replay(ids))
               shapes == buildUncaughtShapes(ids) IN
           /\ \A ip \in DOMAIN found.by_ip :
                 CountsItsRows(found.by_ip[ip], {i \in ids : IpKey(RequestOf[i]) = ip}, shapes)
           /\ \A key \in DOMAIN found.by_asn :
                 CountsItsRows(found.by_asn[key], {i \in ids : AsnKey(RequestOf[i]) = key}, shapes)
           /\ \A net \in DOMAIN found.by_subnet :
                 CountsItsRows(found.by_subnet[net],
                               {i \in ids : SubnetKey(RequestOf[i]) = net}, shapes)
           /\ \A net \in Range(Subnet24) :
                 LET group == {i \in ids : SubnetKey(RequestOf[i]) = net} IN
                 /\ Cardinality(group) >= MinRequests
                 /\ Cardinality({RequestOf[i].ip : i \in group}) >= MinSubnetIps
                 => net \in DOMAIN found.by_subnet
  <1> DEFINE rows == replay(ids)
             order == InIdOrder(ids)
             n == Cardinality(ids)
             found == buildClusters(rows)
             shapes == buildUncaughtShapes(ids)
             inSubnets == {k \in DOMAIN rows : rows[k].ip \in DOMAIN Subnet24}
             located == {k \in DOMAIN rows : rows[k].asn # Unknown}
             SameIp(ip) == {k \in DOMAIN rows : rows[k].ip = ip}
             SameNet(net) == {k \in inSubnets : SubnetKey(rows[k]) = net}
             SameAsn(key) == {k \in located : AsnKey(rows[k]) = key}
  <1>1. /\ n \in Nat /\ DOMAIN order = 1..n
        /\ \A k \in 1..n : order[k] \in ids
        /\ \A id \in ids : \E k \in 1..n : order[k] = id
    BY DumpOrder
  <1>2. rows = [k \in DOMAIN order |-> Replayed(order[k])]
    BY DEF replay
  <1> HIDE DEF rows, order, n
  <1>3. DOMAIN rows = 1..n /\ \A k \in 1..n : rows[k] = Replayed(order[k])
    BY <1>1, <1>2
  <1>4. \A k \in 1..n : /\ rows[k].ip = RequestOf[order[k]].ip
                        /\ rows[k].asn = RequestOf[order[k]].asn
                        /\ rows[k].org = RequestOf[order[k]].org
    BY <1>3 DEF Replayed
  <1>5. \A k \in 1..n : /\ IpKey(rows[k]) = IpKey(RequestOf[order[k]])
                        /\ SubnetKey(rows[k]) = SubnetKey(RequestOf[order[k]])
                        /\ AsnKey(rows[k]) = AsnKey(RequestOf[order[k]])
    BY <1>4 DEF IpKey, SubnetKey, AsnKey
  <1>6. ASSUME NEW S, S # {}, S \subseteq 1..n, NEW R, R \subseteq ids,
               \A k \in 1..n : k \in S <=> order[k] \in R
        PROVE  CountsItsRows(ClusterOf(rows, S), R, shapes)
    BY <1>3, <1>6, GroupCounts DEF rows, order
  <1>7. ASSUME NEW ip \in DOMAIN found.by_ip
        PROVE  CountsItsRows(found.by_ip[ip], {i \in ids : IpKey(RequestOf[i]) = ip}, shapes)
    <2>1. found.by_ip[ip] = ClusterOf(rows, SameIp(ip)) /\ \E k \in DOMAIN rows : IpKey(rows[k]) = ip
      BY <1>7 DEF buildClusters, Reported, ClusterBy, IpKey
    <2>2. SameIp(ip) # {} /\ SameIp(ip) \subseteq 1..n
      BY <1>3, <2>1 DEF IpKey
    <2>3. \A k \in 1..n : k \in SameIp(ip) <=> order[k] \in {i \in ids : IpKey(RequestOf[i]) = ip}
      BY <1>1, <1>3, <1>5 DEF IpKey
    <2> HIDE DEF found, SameIp
    <2>4. QED BY <1>6, <2>1, <2>2, <2>3
  <1>8. ASSUME NEW net \in DOMAIN found.by_subnet
        PROVE  CountsItsRows(found.by_subnet[net],
                             {i \in ids : SubnetKey(RequestOf[i]) = net}, shapes)
    <2>1. /\ found.by_subnet[net] = ClusterOf(rows, SameNet(net))
          /\ \E k \in inSubnets : SubnetKey(rows[k]) = net
      BY <1>8 DEF buildClusters, Reported, ClusterBy
    <2>2. net # Unknown
      BY <2>1, ClusterAssumption DEF SubnetKey, ClusterAssumption
    <2>3. SameNet(net) # {} /\ SameNet(net) \subseteq 1..n
      BY <1>3, <2>1
    <2>4. \A k \in 1..n : k \in SameNet(net) <=> SubnetKey(rows[k]) = net
      BY <1>3, <2>2 DEF SubnetKey
    <2>5. \A k \in 1..n :
              k \in SameNet(net) <=> order[k] \in {i \in ids : SubnetKey(RequestOf[i]) = net}
      BY <1>1, <1>5, <2>4
    <2> HIDE DEF found, SameNet
    <2>6. QED BY <1>6, <2>1, <2>3, <2>5
  <1>9. ASSUME NEW key \in DOMAIN found.by_asn
        PROVE  CountsItsRows(found.by_asn[key], {i \in ids : AsnKey(RequestOf[i]) = key}, shapes)
    <2>1. /\ found.by_asn[key] = ClusterOf(rows, SameAsn(key))
          /\ \E k \in located : AsnKey(rows[k]) = key
      BY <1>9 DEF buildClusters, Reported, ClusterBy
    <2>2. PICK j \in located : AsnKey(rows[j]) = key
      BY <2>1
    <2>3. SameAsn(key) # {} /\ SameAsn(key) \subseteq 1..n
      BY <1>3, <2>1
    <2>4. \A k \in 1..n : AsnKey(rows[k]) = key => rows[k].asn = rows[j].asn
      BY <2>2 DEF AsnKey
    <2>5. \A k \in 1..n : k \in SameAsn(key) <=> AsnKey(rows[k]) = key
      BY <1>3, <2>2, <2>4
    <2>6. \A k \in 1..n :
              k \in SameAsn(key) <=> order[k] \in {i \in ids : AsnKey(RequestOf[i]) = key}
      BY <1>1, <1>5, <2>5
    <2> HIDE DEF found, SameAsn
    <2>7. QED BY <1>6, <2>1, <2>3, <2>6
  <1>10. ASSUME NEW net \in Range(Subnet24), NEW group,
                group = {i \in ids : SubnetKey(RequestOf[i]) = net},
                Cardinality(group) >= MinRequests,
                Cardinality({RequestOf[i].ip : i \in group}) >= MinSubnetIps
         PROVE  net \in DOMAIN found.by_subnet
    <2> DEFINE cluster == ClusterOf(rows, SameNet(net))
    <2>1. MinRequests \in Nat /\ MinRequests > 0
      BY ClusterAssumption DEF ClusterAssumption
    <2>2. net # Unknown
      BY ClusterAssumption DEF ClusterAssumption, Range
    <2>3. group # {}
      BY <1>10, <2>1, FS_EmptySet
    <2>4. \A k \in 1..n : k \in SameNet(net) <=> SubnetKey(rows[k]) = net
      BY <1>3, <2>2 DEF SubnetKey
    <2>5. \A k \in 1..n : k \in SameNet(net) <=> order[k] \in group
      BY <1>1, <1>5, <1>10, <2>4
    <2>6. SameNet(net) # {} /\ SameNet(net) \subseteq 1..n
      <3>1. PICK i \in group : i \in ids
        BY <1>10, <2>3
      <3>2. PICK k \in 1..n : order[k] = i
        BY <1>1, <3>1
      <3>3. k \in SameNet(net)
        BY <2>5, <3>1, <3>2
      <3>4. QED BY <1>3, <3>3
    <2>7. CountsItsRows(cluster, group, shapes)
      <3> HIDE DEF SameNet
      <3>1. QED BY <1>6, <1>10, <2>5, <2>6
    <2>8. cluster.request_count >= MinRequests /\ Cardinality(cluster.ips) >= MinSubnetIps
      BY <1>10, <2>7 DEF CountsItsRows
    <2>9. SubnetWorth(cluster)
      <3> HIDE DEF cluster
      <3>1. QED BY <2>8 DEF SubnetWorth, Ips, Busy
    <2>10. \E k \in inSubnets : SubnetKey(rows[k]) = net
      BY <2>6
    <2>11. QED BY <2>9, <2>10 DEF buildClusters, Reported, ClusterBy
  <1> HIDE DEF found, shapes
  <1>11. QED BY <1>7, <1>8, <1>9, <1>10 DEF found, shapes, rows

\* The first row and the last are the earliest and the latest, if ids follow time.
LEMMA RangeSpans ==
    ASSUME NEW ids, ids \subseteq 1..MaxId, LoggedInIdOrder(ids), NEW id \in ids
    PROVE  LET range == buildClusters(replay(ids)).time_range IN
           range.first <= RequestOf[id].created_at /\ RequestOf[id].created_at <= range.last
  <1> DEFINE rows == replay(ids)
             order == InIdOrder(ids)
             n == Cardinality(ids)
             range == buildClusters(rows).time_range
  <1>1. /\ n \in Nat /\ DOMAIN order = 1..n
        /\ \A k \in 1..n : order[k] \in ids
        /\ \A j, k \in 1..n : j < k => order[j] < order[k]
        /\ \E k \in 1..n : order[k] = id
    BY DumpOrder
  <1>2. rows = [k \in DOMAIN order |-> Replayed(order[k])]
    BY DEF replay
  <1>3. /\ range.first = IF 1 \in DOMAIN rows THEN rows[1].created_at ELSE NeverSeen
        /\ range.last = IF Len(rows) \in DOMAIN rows THEN rows[Len(rows)].created_at ELSE NeverSeen
    BY DEF buildClusters
  <1> HIDE DEF rows, order, n, range
  <1>4. DOMAIN rows = 1..n /\ Len(rows) = n /\ \A k \in 1..n : rows[k] = Replayed(order[k])
    BY <1>1, <1>2
  <1>5. PICK k \in 1..n : order[k] = id
    BY <1>1
  <1>6. 1 \in 1..n /\ n \in 1..n /\ ids \subseteq Int
    BY <1>1
  <1>7. /\ range.first = RequestOf[order[1]].created_at
        /\ range.last = RequestOf[order[n]].created_at
    BY <1>3, <1>4, <1>6 DEF Replayed
  <1>8. order[1] <= id /\ id <= order[n]
    <2>1. k = 1 \/ 1 < k
      BY <1>1
    <2>2. k = n \/ k < n
      BY <1>1
    <2>3. order[1] \in Int /\ order[n] \in Int /\ id \in Int
      BY <1>1, <1>6
    <2>4. QED BY <1>1, <1>5, <1>6, <2>1, <2>2, <2>3
  <1>9. QED BY <1>1, <1>6, <1>7, <1>8 DEF LoggedInIdOrder, range, rows

\* A report without rows has no clusters.
LEMMA NoGroups ==
    /\ DOMAIN NoClusters.by_ip = {} /\ DOMAIN NoClusters.by_asn = {}
    /\ DOMAIN NoClusters.by_subnet = {}
  <1>1. DOMAIN << >> = {}
    OBVIOUS
  <1>2. QED BY <1>1 DEF NoClusters, buildClusters, Reported, ClusterBy

\* The clusters of a report are the counts of its rows, for any dump, in whatever
\* order its rows were logged, any library and any thresholds; no /24 that is busy
\* enough is left out; and the time range spans the rows, if none was backfilled.
THEOREM ClustersRight == WeekSpec => []ClustersCountTheirRows
  <1>1. WeekInit => ClustersCountTheirRows
    <2> SUFFICES ASSUME WeekInit PROVE ClustersCountTheirRows
      OBVIOUS
    <2>1. report.clusters = NoClusters /\ report.tool # "mine-export"
      BY DEF WeekInit, NoReport
    <2>2. QED BY <2>1, NoGroups DEF ClustersCountTheirRows
  <1>2. IdsInv /\ ClustersCountTheirRows /\ [WeekNext]_weekVars => ClustersCountTheirRows'
    <2> SUFFICES ASSUME IdsInv, ClustersCountTheirRows, [WeekNext]_weekVars
                 PROVE  ClustersCountTheirRows'
      OBVIOUS
    <2>1. ASSUME NEW m \in DOMAIN dumps, Mine(m) PROVE ClustersCountTheirRows'
      <3> DEFINE ids == dumps[m].ids
      <3>1. /\ report'.ids = ids /\ report'.shapes = buildUncaughtShapes(ids)
            /\ report'.clusters = buildClusters(replay(ids))
        BY <2>1 DEF Mine, NoReport
      <3>2. ids \subseteq 1..MaxId
        BY DEF IdsInv
      <3> HIDE DEF ids
      <3>3. LoggedInIdOrder(ids) => \A i \in ids :
                /\ buildClusters(replay(ids)).time_range.first <= RequestOf[i].created_at
                /\ RequestOf[i].created_at <= buildClusters(replay(ids)).time_range.last
        BY <3>2, RangeSpans
      <3>4. QED BY <3>1, <3>2, <3>3, GroupsAre DEF ClustersCountTheirRows, OfRows
    <2>2. ASSUME NEW m, ValidatePatterns(m) PROVE ClustersCountTheirRows'
      <3>1. report'.clusters = NoClusters /\ report'.tool # "mine-export"
        BY <2>2 DEF ValidatePatterns, NoReport
      <3>2. QED BY <3>1, NoGroups DEF ClustersCountTheirRows
    <2>3. CASE report' = NoReport
      <3>1. report'.clusters = NoClusters /\ report'.tool # "mine-export"
        BY <2>3 DEF NoReport
      <3>2. QED BY <3>1, NoGroups DEF ClustersCountTheirRows
    <2>4. CASE report' = report
      BY <2>4 DEF ClustersCountTheirRows, OfRows
    <2>5. QED BY <2>1, <2>2, <2>3, <2>4, WeekCases DEF miningVars, weekVars
  <1>3. QED BY <1>1, <1>2, RoundIds, PTL DEF WeekSpec
=============================================================================
