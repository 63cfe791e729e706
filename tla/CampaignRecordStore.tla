----------------------- MODULE CampaignRecordStore -----------------------
(***************************************************************************)
(* What a campaign record store promises (the interface and the contract   *)
(* tests shared by both stores), without saying how a row is maintained:   *)
(* every row is the summary of the fires of one episode.  An episode is    *)
(* opened by the first fire of an (identifier, source) that has no open    *)
(* row, takes every later fire of that key, and ends when the row is       *)
(* closed.                                                                 *)
(***************************************************************************)
EXTENDS CampaignRecords

CONSTANT Candidates     \* the candidates upserted

VARIABLES
    campaigns,  \* the rows, in the order they were inserted
    fires,      \* fires[i]: the candidates that went into campaigns[i]
    outcome     \* the source of the last upsert, and inserted | updated

contractVars == <<campaigns, fires, outcome>>

---------------------------------------------------------------------------
(* The summary *)

\* The fires of an episode whose evidence says something new.
NewEvidenceAt(f) ==
    { i \in DOMAIN f :
        i > 1 => ~evidenceEqualsIgnoringKeyOrder(f[i].evidence, f[i-1].evidence) }

Records(entry, c) ==
    /\ entry.observed_at = c.last
    /\ entry.confidence = c.confidence
    /\ evidenceEqualsIgnoringKeyOrder(entry.evidence, c.evidence)

\* The history lists those fires, each once and in their order.
HistoryOf(history, f) ==
    \E at \in [DOMAIN history -> DOMAIN f] :
        /\ \A i, j \in DOMAIN history : i < j => at[i] < at[j]
        /\ \A n \in NewEvidenceAt(f) : \E i \in DOMAIN history : at[i] = n
        /\ \A i \in DOMAIN history :
              at[i] \in NewEvidenceAt(f) /\ Records(history[i], f[at[i]])

IsLeast(v, S) == v \in S /\ \A x \in S : v <= x
IsGreatest(v, S) == v \in S /\ \A x \in S : v >= x

Summarises(row, f) ==
    /\ Len(f) > 0
    /\ row.times_fired = Len(f)
    /\ \A i \in DOMAIN f : row.identifier = f[i].identifier
    /\ row.confidence = f[Len(f)].confidence
    /\ evidenceEqualsIgnoringKeyOrder(row.evidence, f[Len(f)].evidence)
    /\ IsGreatest(row.peak_confidence, {f[i].confidence : i \in DOMAIN f})
    /\ IsLeast(row.first_seen, {f[i].first : i \in DOMAIN f})
    /\ IsGreatest(row.last_seen, {f[i].last : i \in DOMAIN f})
    /\ row.contributing_ips = UNION {f[i].contributing_ips : i \in DOMAIN f}
    /\ HistoryOf(row.evidence_history, f)

---------------------------------------------------------------------------

ContractInit ==
    /\ campaigns = << >>
    /\ fires = << >>
    /\ outcome = NoOutcome

OpenRows(identifier, source) ==
    { i \in DOMAIN campaigns :
        IsOpen(campaigns[i]) /\ HasKey(campaigns[i], identifier, source) }

OthersUnchanged(touched) ==
    \A i \in DOMAIN campaigns \ touched :
        campaigns'[i] = campaigns[i] /\ fires'[i] = fires[i]

OpensEpisode(c, source) ==
    LET n == Len(campaigns) + 1 IN
    /\ OpenRows(c.identifier, source) = {}
    /\ outcome' = <<source, "inserted">>
    /\ Len(campaigns') = n
    /\ fires' = Append(fires, <<c>>)
    /\ OthersUnchanged({})
    /\ campaigns'[n].status = "active"
    /\ campaigns'[n].source = source
    /\ Summarises(campaigns'[n], fires'[n])

ExtendsEpisode(c, source) ==
    \E i \in OpenRows(c.identifier, source) :
        /\ outcome' = <<source, "updated">>
        /\ Len(campaigns') = Len(campaigns)
        /\ fires' = [fires EXCEPT ![i] = Append(@, c)]
        /\ OthersUnchanged({i})
        /\ campaigns'[i].status = campaigns[i].status
        /\ campaigns'[i].source = source
        /\ Summarises(campaigns'[i], fires'[i])

ChangesStatus ==
    /\ \E i \in DOMAIN campaigns, s \in Statuses :
        IsOpen(campaigns[i]) /\ campaigns' = [campaigns EXCEPT ![i].status = s]
    /\ UNCHANGED <<fires, outcome>>

ContractNext ==
    \/ \E c \in Candidates, source \in Sources :
          OpensEpisode(c, source) \/ ExtendsEpisode(c, source)
    \/ ChangesStatus

ContractSpec == ContractInit /\ [][ContractNext]_contractVars
===========================================================================
