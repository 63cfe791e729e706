------------------- MODULE PostgresCampaignRecordStore -------------------
(***************************************************************************)
(* The campaigns table and the one statement that writes it: INSERT ... ON *)
(* CONFLICT DO UPDATE.  The statement is atomic (PostgreSQL serialises     *)
(* concurrent upserts of a key on the partial unique index), so an upsert  *)
(* is one action.  Statuses other than "active" are set from outside src/: *)
(* an operator's UPDATE, as in the store's database test.                  *)
(***************************************************************************)
EXTENDS CampaignRecords, Ordering

CONSTANTS
    Candidates,     \* the candidates upserted
    MaxFires        \* bound: upserts in a behaviour

ASSUME CandidatesAssumption == Candidates \subseteq Candidate
ASSUME MaxFiresAssumption == MaxFires \in Nat

VARIABLES
    rows,       \* the campaigns table, in insertion order
    fires,      \* history variable: the candidates that went into each row
    outcome     \* the source of the last upsert, and inserted | updated

vars == <<rows, fires, outcome>>

TypeOK ==
    /\ rows \in Seq(CampaignRow)
    /\ fires \in Seq(Seq(Candidate))
    /\ Len(fires) = Len(rows)
    /\ outcome \in Outcomes \cup {NoOutcome}

---------------------------------------------------------------------------
(* The statement *)

\* jsonb keeps the keys of an object in an order of its own.
Jsonb(e) == [e EXCEPT !.keyOrder = JsonbOrder]

JsonbEntry(entry) == [entry EXCEPT !.evidence = Jsonb(@)]

\* The partial unique index campaigns_open_identifier_source, the arbiter of
\* ON CONFLICT: closed rows are not in it.
Conflicts_ActiveOnly(i, c, source) ==          \* mutant: a narrower predicate
    rows[i].status = "active" /\ HasKey(rows[i], c.identifier, source)
Conflicts_ClosedToo(i, c, source) ==           \* mutant: the index is not partial
    HasKey(rows[i], c.identifier, source)
Conflicts_AnySource(i, c, source) ==           \* mutant: identifier alone is the key
    IsOpen(rows[i]) /\ rows[i].identifier = c.identifier
Conflicts(i, c, source) ==
    IsOpen(rows[i]) /\ HasKey(rows[i], c.identifier, source)

Conflicting(c, source) == {i \in DOMAIN rows : Conflicts(i, c, source)}

MergedIps_Latest(row, c) == c.contributing_ips      \* mutant: = EXCLUDED
MergedIps(row, c) == row.contributing_ips \cup c.contributing_ips

MergedHistory_ComparesText(row, c) ==          \* mutant: key order matters
    LET entry == buildEvidenceHistoryEntry(c) IN
    IF row.evidence = entry.evidence
    THEN row.evidence_history
    ELSE Append(row.evidence_history, JsonbEntry(entry))
MergedHistory(row, c) ==
    LET entry == buildEvidenceHistoryEntry(c) IN
    IF row.evidence = Jsonb(entry.evidence)
    THEN row.evidence_history
    ELSE Append(row.evidence_history, JsonbEntry(entry))

DoUpdate_LatestPeak(row, c) ==                 \* mutant: the peak is the last fire's
    [row EXCEPT
        !.first_seen = Earlier(@, c.first), !.last_seen = Later(@, c.last),
        !.times_fired = @ + 1,
        !.confidence = c.confidence, !.peak_confidence = c.confidence,
        !.contributing_ips = MergedIps(row, c), !.evidence_history = MergedHistory(row, c),
        !.evidence = Jsonb(normalizeEvidenceForStorage(c.evidence))]
DoUpdate(row, c) ==
    [row EXCEPT
        !.first_seen = Earlier(@, c.first),
        !.last_seen = Later(@, c.last),
        !.times_fired = @ + 1,
        !.confidence = c.confidence,
        !.peak_confidence = Later(@, c.confidence),
        !.contributing_ips = MergedIps(row, c),
        !.evidence_history = MergedHistory(row, c),
        !.evidence = Jsonb(normalizeEvidenceForStorage(c.evidence))]

InsertedRow_NotCounted(c, source) ==           \* mutant: times_fired DEFAULT 0
    LET entry == buildEvidenceHistoryEntry(c) IN
    [FreshRow(c, source, Jsonb(entry.evidence), JsonbEntry(entry)) EXCEPT !.times_fired = 0]
InsertedRow(c, source) ==
    LET entry == buildEvidenceHistoryEntry(c) IN
    FreshRow(c, source, Jsonb(entry.evidence), JsonbEntry(entry))

Insert(c, source) ==
    /\ Conflicting(c, source) = {}
    /\ rows' = Append(rows, InsertedRow(c, source))
    /\ fires' = Append(fires, <<c>>)
    /\ outcome' = <<source, "inserted">>

Update(c, source) ==
    \E i \in Conflicting(c, source) :
        /\ rows' = [rows EXCEPT ![i] = DoUpdate(@, c)]
        /\ fires' = [fires EXCEPT ![i] = Append(@, c)]
        /\ outcome' = <<source, "updated">>

upsertCandidate(c, source) == Insert(c, source) \/ Update(c, source)

\* An operator ends an episode, or marks it dormant, by hand.
SetStatus(i, status) ==
    /\ IsOpen(rows[i])
    /\ status # rows[i].status
    /\ status \in {"dormant", "closed"}
    /\ rows' = [rows EXCEPT ![i].status = status]
    /\ UNCHANGED <<fires, outcome>>

\* listByStatus: the rows of a status, the highest peak first.
listByStatus(status) ==
    LET listed == {i \in DOMAIN rows : rows[i].status = status}
        order == HighestFirst(listed, [i \in listed |-> rows[i].peak_confidence])
    IN  [k \in DOMAIN order |-> rows[order[k]]]

---------------------------------------------------------------------------

FiresSoFar ==
    LET upTo[n \in 0..Len(fires)] ==
            IF n = 0 THEN 0 ELSE Len(fires[n]) + upTo[n - 1]
    IN  upTo[Len(fires)]

Init ==
    /\ rows = << >>
    /\ fires = << >>
    /\ outcome = NoOutcome

Next ==
    \/ \E c \in Candidates, source \in Sources :
          FiresSoFar < MaxFires /\ upsertCandidate(c, source)
    \/ \E i \in DOMAIN rows, status \in Statuses : SetStatus(i, status)

Spec == Init /\ [][Next]_vars

---------------------------------------------------------------------------
(* Properties *)

\* At most one open row per (identifier, source): a backtest never merges
\* into a live campaign, and a re-fire never opens a second episode beside an
\* open one (migration 003, "Episode semantics").
OneOpenRowPerKey ==
    \A i, j \in DOMAIN rows :
        /\ IsOpen(rows[i])
        /\ IsOpen(rows[j])
        /\ HasKey(rows[j], rows[i].identifier, rows[i].source)
        => i = j

HistoryAgrees(row) ==
    LET history == row.evidence_history IN
    /\ Len(history) \in 1..row.times_fired
    /\ history[Len(history)].evidence = row.evidence
    /\ \A k \in 1..(Len(history) - 1) :
          history[k].evidence # history[k + 1].evidence
    /\ \A k \in 1..Len(history) :
          /\ history[k].observed_at <= row.last_seen
          /\ history[k].confidence <= row.peak_confidence

\* A row and its evidence history never disagree: the last entry holds the
\* current evidence, neighbouring entries differ, there are no more entries
\* than fires, and every entry lies inside the episode and under its peak.
HistoryFollowsEvidence == \A i \in DOMAIN rows : HistoryAgrees(rows[i])

Widens(old, new) ==
    /\ HasKey(new, old.identifier, old.source)
    /\ new.first_seen <= old.first_seen /\ new.last_seen >= old.last_seen
    /\ new.peak_confidence >= old.peak_confidence
    /\ old.contributing_ips \subseteq new.contributing_ips
    /\ Len(old.evidence_history) <= Len(new.evidence_history)
    /\ \A k \in DOMAIN old.evidence_history :
          new.evidence_history[k] = old.evidence_history[k]
    /\ new.times_fired \in {old.times_fired, old.times_fired + 1}

\* "closed rows keep history frozen" (migration 003): no later fire of the same
\* key, and no operator, changes a closed row again.  What is written over an open
\* one covers what was there: the time range and the peak only widen, no
\* participant or history entry is lost, and the fire count grows by at most the
\* one fire.
EpisodesOnlyWiden ==
    [][\A i \in DOMAIN rows :
          rows'[i] # rows[i] => IsOpen(rows[i]) /\ Widens(rows[i], rows'[i])]_vars

\* The table implements the contract of CampaignRecordStore: every row is the
\* summary of exactly the fires of its own episode.
Contract == INSTANCE CampaignRecordStore WITH campaigns <- rows
ImplementsContract == Contract!ContractSpec
===========================================================================
