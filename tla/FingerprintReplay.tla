------------------------ MODULE FingerprintReplay ------------------------
(***************************************************************************)
(* tools/fingerprint-replay-check.ts: the known-answer corpus (a pinned    *)
(* range of logs_requests) is loaded, re-classified with the current       *)
(* patterns, and must still show the mined cluster.  The query orders by   *)
(* created_at alone, so requests of one instant come back in any order.    *)
(* Rows may still be added to a past range: tools/run-backfill.ts inserts  *)
(* requests with the instants nginx logged.                                *)
(***************************************************************************)
EXTENDS RequestLog, Strategies

CONSTANTS
    Pool,           \* the requests the pinned range may hold
    CorpusStart, CorpusEnd,     \* KNOWN_ANSWER_CORPUS_START, _END
    MinedAsn,       \* MINED_CAMPAIGN_ASN
    MinExpectedIps, \* MIN_EXPECTED_CLUSTER_IPS
    FoundNow,       \* ids of the requests the current patterns find something in: their
                    \* URL, method, body or user agent
    MaxReplays      \* bound: times the check is run

ASSUME PoolAssumption == IsATable(Pool)

VARIABLE replays    \* history: what each run of the check loaded and answered

replayVars == <<log, replays>>

ClusterStrategy == "asn-path-fingerprint-cluster"

InCorpus(r) ==
    r.created_at >= CorpusStart /\ r.created_at < CorpusEnd /\ r.family = 4

\* The stored threat level is stale: detectThreats is run again.
Reclassified(r) == [r EXCEPT !.threat = r.id \in FoundNow]

\* What the query may answer, re-classified.
Loads == Orders({Reclassified(r) : r \in {x \in log : InCorpus(x)}})

Failed == [ok |-> FALSE, ipCount |-> 0, fingerprint |-> {}]

\* main: the four assertions, then the answer that is logged.
Verdict(requests) ==
    LET metrics == compute(requests)
        mined == EntriesAt(requests,
                     {i \in DOMAIN requests : /\ Observes(ClusterStrategy, metrics, requests[i])
                                              /\ requests[i].asn = MinedAsn})
        figures == ClusterFigures(metrics, mined) IN
    IF requests = << >> \/ mined = << >> THEN Failed
    ELSE IF figures = NoScore \/ figures[1] < MinExpectedIps THEN Failed
    ELSE [ ok |-> TRUE, ipCount |-> figures[1],
           fingerprint |-> identifier_from(ClusterStrategy, metrics, mined)[3] ]

Replay ==
    /\ Len(replays) < MaxReplays
    /\ \E requests \in Loads :
          replays' = Append(replays,
              [loaded |-> {r.id : r \in ToSet(requests)}, verdict |-> Verdict(requests)])
    /\ UNCHANGED log

\* A backfill adds a request of the past.
Backfill(r) ==
    /\ r \notin log
    /\ log' = log \cup {r}
    /\ UNCHANGED replays

ReplayInit ==
    /\ log \in SUBSET Pool
    /\ replays = << >>

ReplayNext == Replay \/ \E r \in Pool : Backfill(r)

ReplaySpec == ReplayInit /\ [][ReplayNext]_replayVars

---------------------------------------------------------------------------

\* Replays of the same rows agree on whether the mined cluster is there and on
\* how many IPs it has, in whatever order the query returned them.
ReplaysAgreeOnCluster ==
    \A i, j \in DOMAIN replays :
        replays[i].loaded = replays[j].loaded =>
            /\ replays[i].verdict.ok = replays[j].verdict.ok
            /\ replays[i].verdict.ipCount = replays[j].verdict.ipCount
===========================================================================
