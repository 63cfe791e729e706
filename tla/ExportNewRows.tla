-------------------------- MODULE ExportNewRows --------------------------
(***************************************************************************)
(* tools/export-new-rows.ts: dumps of logs_requests, each taking up where  *)
(* the last one ended.  The table keeps growing meanwhile: an INSERT draws *)
(* its id when it starts and its row appears when it commits, and the      *)
(* application inserts over a pool of connections.  A dump is named by the *)
(* local time to the minute; the newest by name is the next baseline.      *)
(***************************************************************************)
EXTENDS Integers, Sequences, FiniteSets, FiniteSetsExt

CONSTANTS
    Connections,    \* connections that insert
    FirstRows,      \* rows there are, and the first dump holds, at the beginning
    MaxId,          \* bound: ids drawn
    MaxMinute,      \* bound: minutes of local time
    SinceIds,       \* what operators pass as --since-id
    MayDie          \* whether a run may die while it writes

ASSUME ExportAssumption ==
    /\ {MaxId, MaxMinute} \cup SinceIds \subseteq Nat /\ FirstRows \in 1..MaxId
    /\ MayDie \in BOOLEAN

VARIABLES
    nextId,     \* the identity sequence of logs_requests
    open,       \* connection -> the id it drew, 0 when it is idle
    committed,  \* ids of the rows others can see
    minute,     \* the local time
    dumps,      \* the dumps in personal/: minute -> its ids, or torn
    gaps        \* history: the ids the exports had a reason to leave out or lose

tableVars == <<nextId, open, committed>>
vars == <<tableVars, minute, dumps, gaps>>

Torn == [ids |-> {}, whole |-> FALSE]

NoGaps == [inFlight |-> {}, notAsked |-> {}, replaced |-> {}]

---------------------------------------------------------------------------
(* The application *)

DrawId(c) ==
    /\ open[c] = 0 /\ nextId <= MaxId
    /\ open' = [open EXCEPT ![c] = nextId]
    /\ nextId' = nextId + 1
    /\ UNCHANGED <<committed, minute, dumps, gaps>>

\* A failed INSERT leaves a gap in the ids.
EndInsert(c) ==
    /\ open[c] > 0
    /\ open' = [open EXCEPT ![c] = 0]
    /\ committed' \in {committed, committed \cup {open[c]}}
    /\ UNCHANGED <<nextId, minute, dumps, gaps>>

MinutePasses ==
    /\ minute < MaxMinute
    /\ minute' = minute + 1
    /\ UNCHANGED <<tableVars, dumps, gaps>>

\* The end of summer time, or a clock that is set.
ClockGoesBack ==
    /\ minute' \in 0..(minute - 1)
    /\ UNCHANGED <<tableVars, dumps, gaps>>

---------------------------------------------------------------------------
(* The export *)

\* findLatestExportFile: the greatest name.
Latest == Max(DOMAIN dumps)

maxIdInExportFile(dump) == Max(dump.ids)

Dumped == UNION {dumps[m].ids : m \in DOMAIN dumps}

\* SELECT * ... WHERE id > $1
RowsSince_SkipsOne(sinceId) == {id \in committed : id > sinceId + 1}      \* mutant
RowsSince(sinceId) == {id \in committed : id > sinceId}

\* fs.writeFileSync: a file of that name is replaced.
Write(stamp, dump) ==
    dumps' = [m \in DOMAIN dumps \cup {stamp} |-> IF m = stamp THEN dump ELSE dumps[m]]

\* With --since-id, or from the newest dump; an unreadable one ends the run.
Baselines ==
    SinceIds \cup IF dumps[Latest].whole THEN {maxIdInExportFile(dumps[Latest])} ELSE {}

\* To the minute.
localTimestamp_Hour == minute \div 60          \* mutant: to the hour
localTimestamp == minute

\* What an export that writes a dump passes over or loses: the rows whose INSERT is
\* still under way, those an operator did not ask for, and those of a file that it
\* replaces.
GapsAfter(sinceId, dump) ==
    [ inFlight |-> gaps.inFlight \cup
          {open[c] : c \in {d \in Connections : open[d] > 0 /\ \E id \in dump.ids : open[d] <= id}},
      notAsked |-> gaps.notAsked \cup
          IF sinceId \in SinceIds /\ dump.whole
          THEN {id \in committed : id <= sinceId} \ Dumped ELSE {},
      replaced |-> gaps.replaced \cup
          IF minute \in DOMAIN dumps THEN dumps[minute].ids ELSE {} ]

\* The run reads, queries and writes; it may die while it writes.
Export(sinceId) ==
    LET rows == RowsSince(sinceId) IN
    /\ \/ rows = {} /\ UNCHANGED <<dumps, gaps>>
       \/ /\ rows # {}
          /\ \E dump \in {[ids |-> rows, whole |-> TRUE]} \cup IF MayDie THEN {Torn} ELSE {} :
                Write(localTimestamp, dump) /\ gaps' = GapsAfter(sinceId, dump)
    /\ UNCHANGED <<tableVars, minute>>

---------------------------------------------------------------------------

\* Some rows, and the first dump, which holds them, of this minute or an earlier one.
Init ==
    /\ nextId = FirstRows + 1 /\ open = [c \in Connections |-> 0]
    /\ committed = 1..FirstRows
    /\ minute = 1
    /\ dumps \in {[m \in {first} |-> [ids |-> 1..FirstRows, whole |-> TRUE]] : first \in 0..1}
    /\ gaps = NoGaps

Next ==
    \/ \E c \in Connections : DrawId(c) \/ EndInsert(c)
    \/ MinutePasses \/ ClockGoesBack
    \/ \E sinceId \in Baselines : Export(sinceId)

Spec == Init /\ [][Next]_vars

---------------------------------------------------------------------------
(* Properties *)

\* "pulls every row with a higher id": the dumps together hold every row up to the
\* newest id that was dumped, whenever its INSERT committed, with three exceptions
\* and no other: its INSERT was under way when an export passed its id, an operator
\* started an export beyond it, or its dump was replaced by one of the same minute.
NothingSkipped ==
    \A id \in committed, last \in Dumped : id <= last =>
        \/ id \in Dumped
        \/ id \in gaps.inFlight \cup gaps.notAsked \cup gaps.replaced
=============================================================================
