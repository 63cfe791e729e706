---------------- MODULE PostgresCampaignRecordStoreProofs ----------------
(***************************************************************************)
(* Theorems about the campaigns table, for every set of candidates.        *)
(***************************************************************************)
EXTENDS PostgresCampaignRecordStore, TLAPS

---------------------------------------------------------------------------
(* What the statement makes of one row *)

LEMMA StoredEntry ==
    ASSUME NEW c \in Candidate
    PROVE  LET entry == buildEvidenceHistoryEntry(c) IN
           /\ entry \in EvidenceHistoryEntry
           /\ JsonbEntry(entry) \in EvidenceHistoryEntry
           /\ Jsonb(entry.evidence) \in Evidence
           /\ entry.evidence = normalizeEvidenceForStorage(c.evidence)
           /\ JsonbEntry(entry).evidence = Jsonb(entry.evidence)
           /\ JsonbEntry(entry).observed_at = c.last
           /\ JsonbEntry(entry).confidence = c.confidence
  BY DataAssumption, StoredFormAssumption
  DEF Candidate, EvidenceHistoryEntry, Evidence, JsonbEntry, Jsonb,
      buildEvidenceHistoryEntry, normalizeEvidenceForStorage

LEMMA InsertedRowOK ==
    ASSUME NEW c \in Candidate, NEW source \in Sources
    PROVE  LET row == InsertedRow(c, source) IN
           /\ row \in CampaignRow
           /\ HistoryAgrees(row)
           /\ row.status = "active"
           /\ HasKey(row, c.identifier, source)
  <1>1. <<JsonbEntry(buildEvidenceHistoryEntry(c))>> \in Seq(EvidenceHistoryEntry)
    BY StoredEntry
  <1>2. InsertedRow(c, source) \in CampaignRow
    BY <1>1, StoredEntry
    DEF InsertedRow, FreshRow, CampaignRow, Candidate, Statuses
  <1>3. HistoryAgrees(InsertedRow(c, source))
    <2> DEFINE entry == JsonbEntry(buildEvidenceHistoryEntry(c))
               row == InsertedRow(c, source)
    <2>1. /\ row.evidence_history = <<entry>> /\ row.times_fired = 1
          /\ row.evidence = entry.evidence
          /\ row.last_seen = c.last /\ row.peak_confidence = c.confidence
      BY StoredEntry DEF InsertedRow, FreshRow
    <2>2. /\ entry.observed_at = c.last /\ entry.confidence = c.confidence
          /\ c.last \in Nat /\ c.confidence \in Nat
      BY StoredEntry, DataAssumption DEF Candidate
    <2> HIDE DEF entry, row
    <2>3. QED BY <2>1, <2>2 DEF HistoryAgrees, row
  <1>4. QED
    BY <1>2, <1>3 DEF InsertedRow, FreshRow, HasKey

LEMMA MergedHistoryType ==
    ASSUME NEW row \in CampaignRow, NEW c \in Candidate
    PROVE  MergedHistory(row, c) \in Seq(EvidenceHistoryEntry)
  BY StoredEntry DEF MergedHistory, CampaignRow

LEMMA DoUpdateFields ==
    ASSUME NEW row \in CampaignRow, NEW c \in Candidate
    PROVE  LET new == DoUpdate(row, c) IN
           /\ new \in CampaignRow
           /\ new.status = row.status
           /\ new.identifier = row.identifier
           /\ new.source = row.source
           /\ new.times_fired = row.times_fired + 1
           /\ new.confidence = c.confidence
           /\ new.peak_confidence = Later(row.peak_confidence, c.confidence)
           /\ new.first_seen = Earlier(row.first_seen, c.first)
           /\ new.last_seen = Later(row.last_seen, c.last)
           /\ new.contributing_ips = row.contributing_ips \cup c.contributing_ips
           /\ new.evidence_history = MergedHistory(row, c)
           /\ new.evidence = Jsonb(normalizeEvidenceForStorage(c.evidence))
  <1> DEFINE new == DoUpdate(row, c)
  <1>1. /\ new.status = row.status
        /\ new.identifier = row.identifier
        /\ new.source = row.source
        /\ new.times_fired = row.times_fired + 1
        /\ new.confidence = c.confidence
        /\ new.peak_confidence = Later(row.peak_confidence, c.confidence)
        /\ new.first_seen = Earlier(row.first_seen, c.first)
        /\ new.last_seen = Later(row.last_seen, c.last)
        /\ new.contributing_ips = row.contributing_ips \cup c.contributing_ips
        /\ new.evidence_history = MergedHistory(row, c)
        /\ new.evidence = Jsonb(normalizeEvidenceForStorage(c.evidence))
    BY DEF DoUpdate, CampaignRow, MergedIps
  <1>2. /\ row.times_fired + 1 \in Nat \ {0}
        /\ c.confidence \in Confidences
        /\ Later(row.peak_confidence, c.confidence) \in Confidences
        /\ Earlier(row.first_seen, c.first) \in Times
        /\ Later(row.last_seen, c.last) \in Times
        /\ row.contributing_ips \cup c.contributing_ips \in SUBSET Ips
    BY DEF CampaignRow, Candidate, Later, Earlier
  <1>3. /\ MergedHistory(row, c) \in Seq(EvidenceHistoryEntry)
        /\ Jsonb(normalizeEvidenceForStorage(c.evidence)) \in Evidence
    BY StoredEntry, MergedHistoryType
  <1>4. new \in CampaignRow
    BY <1>2, <1>3 DEF DoUpdate, CampaignRow, MergedIps
  <1>5. QED BY <1>1, <1>4

LEMMA DoUpdateOK ==
    ASSUME NEW row \in CampaignRow, NEW c \in Candidate, HistoryAgrees(row)
    PROVE  HistoryAgrees(DoUpdate(row, c))
  <1> DEFINE entry == JsonbEntry(buildEvidenceHistoryEntry(c))
             new == DoUpdate(row, c)
             old == row.evidence_history
  <1>1. /\ old \in Seq(EvidenceHistoryEntry)
        /\ row.times_fired \in Nat
        /\ row.last_seen \in Nat /\ row.peak_confidence \in Nat
        /\ c.last \in Nat /\ c.confidence \in Nat
    BY DataAssumption DEF CampaignRow, Candidate
  <1>2. \A k \in 1..Len(old) : old[k].observed_at \in Nat /\ old[k].confidence \in Nat
    <2>1. \A k \in 1..Len(old) : old[k] \in EvidenceHistoryEntry
      BY <1>1
    <2>2. QED BY <2>1, DataAssumption DEF EvidenceHistoryEntry
  <1>3. /\ entry.evidence = new.evidence
        /\ entry.observed_at = c.last /\ entry.confidence = c.confidence
        /\ entry.evidence = Jsonb(buildEvidenceHistoryEntry(c).evidence)
    BY StoredEntry, DoUpdateFields
  <1>4. /\ new.last_seen = Later(row.last_seen, c.last)
        /\ new.peak_confidence = Later(row.peak_confidence, c.confidence)
        /\ new.times_fired = row.times_fired + 1
        /\ new.evidence_history = MergedHistory(row, c)
    BY DoUpdateFields
  <1> HIDE DEF entry, new, old
  <1>5. CASE row.evidence = entry.evidence
    <2>1. new.evidence_history = old
      BY <1>3, <1>4, <1>5 DEF MergedHistory, old
    <2>2. QED
      BY <2>1, <1>1, <1>2, <1>3, <1>4, <1>5 DEF HistoryAgrees, Later, new, old
  <1>6. CASE row.evidence # entry.evidence
    <2>1. new.evidence_history = Append(old, entry)
      BY <1>3, <1>4, <1>6 DEF MergedHistory, old, entry
    <2>2. /\ Len(new.evidence_history) = Len(old) + 1
          /\ new.evidence_history[Len(old) + 1] = entry
          /\ \A k \in 1..Len(old) : new.evidence_history[k] = old[k]
      BY <2>1, <1>1
    <2>3. /\ Len(old) \in 1..row.times_fired
          /\ old[Len(old)].evidence = row.evidence
          /\ \A k \in 1..(Len(old) - 1) : old[k].evidence # old[k + 1].evidence
          /\ \A k \in 1..Len(old) : /\ old[k].observed_at <= row.last_seen
                                    /\ old[k].confidence <= row.peak_confidence
      BY DEF HistoryAgrees, old
    <2>4. \A k \in 1..(Len(new.evidence_history) - 1) :
             new.evidence_history[k].evidence # new.evidence_history[k + 1].evidence
      BY <2>2, <2>3, <1>6
    <2>5. \A k \in 1..Len(new.evidence_history) :
             /\ new.evidence_history[k].observed_at <= new.last_seen
             /\ new.evidence_history[k].confidence <= new.peak_confidence
      <3> TAKE k \in 1..Len(new.evidence_history)
      <3>1. CASE k \in 1..Len(old)
        BY <3>1, <2>2, <2>3, <1>1, <1>2, <1>4 DEF Later
      <3>2. CASE k = Len(old) + 1
        BY <3>2, <2>2, <1>1, <1>3, <1>4 DEF Later
      <3>3. QED BY <3>1, <3>2, <2>2, <1>1, <2>3
    <2>6. QED
      BY <2>2, <2>3, <2>4, <2>5, <1>1, <1>3, <1>4 DEF HistoryAgrees, new
  <1>7. QED BY <1>5, <1>6

---------------------------------------------------------------------------
(* What a step does to the table *)

LEMMA InsertStep ==
    ASSUME TypeOK, NEW c \in Candidate, NEW source \in Sources, Insert(c, source)
    PROVE  LET n == Len(rows) + 1 IN
           /\ DOMAIN rows' = 1..n /\ DOMAIN rows = 1..(n - 1)
           /\ \A i \in DOMAIN rows : rows'[i] = rows[i]
           /\ rows'[n] = InsertedRow(c, source)
           /\ Len(fires') = n
           /\ \A i \in DOMAIN rows : fires'[i] = fires[i]
           /\ fires'[n] = <<c>>
           /\ TypeOK'
  <1>1. /\ rows \in Seq(CampaignRow) /\ fires \in Seq(Seq(Candidate))
        /\ Len(fires) = Len(rows)
    BY DEF TypeOK
  <1>2. InsertedRow(c, source) \in CampaignRow
    BY InsertedRowOK
  <1>3. /\ rows' = Append(rows, InsertedRow(c, source))
        /\ fires' = Append(fires, <<c>>)
        /\ outcome' = <<source, "inserted">>
    BY DEF Insert
  <1>4. <<c>> \in Seq(Candidate)
    OBVIOUS
  <1>5. TypeOK'
    BY <1>1, <1>2, <1>3, <1>4 DEF TypeOK, Outcomes, NoOutcome
  <1>6. QED BY <1>1, <1>2, <1>3, <1>4, <1>5

LEMMA UpdateStep ==
    ASSUME TypeOK, NEW c \in Candidate, NEW source \in Sources, Update(c, source)
    PROVE  \E i \in DOMAIN rows :
           /\ Conflicts(i, c, source)
           /\ DOMAIN rows' = DOMAIN rows
           /\ rows[i] \in CampaignRow
           /\ rows'[i] = DoUpdate(rows[i], c)
           /\ \A j \in DOMAIN rows \ {i} : rows'[j] = rows[j]
           /\ fires' = [fires EXCEPT ![i] = Append(@, c)]
           /\ Len(fires') = Len(fires)
           /\ fires'[i] = Append(fires[i], c)
           /\ \A j \in DOMAIN rows \ {i} : fires'[j] = fires[j]
           /\ TypeOK'
  <1>1. PICK i \in Conflicting(c, source) :
           /\ rows' = [rows EXCEPT ![i] = DoUpdate(@, c)]
           /\ fires' = [fires EXCEPT ![i] = Append(@, c)]
           /\ outcome' = <<source, "updated">>
    BY DEF Update
  <1>2. i \in DOMAIN rows /\ Conflicts(i, c, source)
    BY DEF Conflicting
  <1>3. /\ rows \in Seq(CampaignRow) /\ fires \in Seq(Seq(Candidate))
        /\ Len(fires) = Len(rows) /\ rows[i] \in CampaignRow
        /\ fires[i] \in Seq(Candidate)
    BY <1>2 DEF TypeOK
  <1>4. DoUpdate(rows[i], c) \in CampaignRow
    BY <1>3, DoUpdateFields
  <1>5. Append(fires[i], c) \in Seq(Candidate)
    BY <1>3
  <1>6. rows' \in Seq(CampaignRow) /\ Len(rows') = Len(rows)
    BY <1>1, <1>2, <1>3, <1>4
  <1>7. fires' \in Seq(Seq(Candidate)) /\ Len(fires') = Len(fires)
    BY <1>1, <1>2, <1>3, <1>5
  <1>8. TypeOK'
    BY <1>1, <1>3, <1>6, <1>7 DEF TypeOK, Outcomes, NoOutcome
  <1>9. /\ DOMAIN rows' = DOMAIN rows
        /\ rows'[i] = DoUpdate(rows[i], c)
        /\ \A j \in DOMAIN rows \ {i} : rows'[j] = rows[j]
    BY <1>1, <1>2, <1>3, <1>6
  <1>10. /\ fires'[i] = Append(fires[i], c)
         /\ \A j \in DOMAIN rows \ {i} : fires'[j] = fires[j]
    BY <1>1, <1>2, <1>3
  <1>11. QED BY <1>1, <1>2, <1>3, <1>7, <1>8, <1>9, <1>10

LEMMA SetStatusStep ==
    ASSUME TypeOK, NEW i \in DOMAIN rows, NEW status \in Statuses, SetStatus(i, status)
    PROVE  /\ rows[i] \in CampaignRow
           /\ DOMAIN rows' = DOMAIN rows
           /\ rows'[i] = [rows[i] EXCEPT !.status = status]
           /\ \A j \in DOMAIN rows \ {i} : rows'[j] = rows[j]
           /\ fires' = fires
           /\ TypeOK'
  <1>1. /\ rows \in Seq(CampaignRow) /\ rows[i] \in CampaignRow
        /\ rows' = [rows EXCEPT ![i] = [@ EXCEPT !.status = status]]
        /\ UNCHANGED <<fires, outcome>>
    BY DEF TypeOK, SetStatus
  <1>2. [rows[i] EXCEPT !.status = status] \in CampaignRow
    BY <1>1 DEF CampaignRow
  <1>3. rows' \in Seq(CampaignRow) /\ Len(rows') = Len(rows)
    BY <1>1, <1>2
  <1>4. QED BY <1>1, <1>2, <1>3 DEF TypeOK

LEMMA NextCases ==
    ASSUME [Next]_vars
    PROVE  \/ \E c \in Candidate, source \in Sources : Insert(c, source)
           \/ \E c \in Candidate, source \in Sources : Update(c, source)
           \/ \E i \in DOMAIN rows, status \in Statuses : SetStatus(i, status)
           \/ UNCHANGED vars
  BY CandidatesAssumption DEF Next, upsertCandidate

---------------------------------------------------------------------------
(* Invariants *)

LEMMA TypeStep == TypeOK /\ [Next]_vars => TypeOK'
  <1> SUFFICES ASSUME TypeOK, [Next]_vars PROVE TypeOK'
    OBVIOUS
  <1>1. CASE \E c \in Candidate, source \in Sources : Insert(c, source)
    BY <1>1, InsertStep
  <1>2. CASE \E c \in Candidate, source \in Sources : Update(c, source)
    BY <1>2, UpdateStep
  <1>3. CASE \E i \in DOMAIN rows, status \in Statuses : SetStatus(i, status)
    BY <1>3, SetStatusStep
  <1>4. CASE UNCHANGED vars
    BY <1>4 DEF vars, TypeOK
  <1>5. QED BY <1>1, <1>2, <1>3, <1>4, NextCases

\* Rows stay well-formed campaigns whatever is upserted, and there is one
\* list of fires per row.
THEOREM TypeCorrect == Spec => []TypeOK
  <1>1. Init => TypeOK
    BY DEF Init, TypeOK
  <1>2. QED BY <1>1, TypeStep, PTL DEF Spec

\* The partial unique index and its use as the conflict arbiter keep at most
\* one open row per (identifier, source).
THEOREM OneOpenRow == Spec => []OneOpenRowPerKey
  <1>1. Init => OneOpenRowPerKey
    BY DEF Init, OneOpenRowPerKey
  <1>2. TypeOK /\ OneOpenRowPerKey /\ [Next]_vars => OneOpenRowPerKey'
    <2> SUFFICES ASSUME TypeOK, OneOpenRowPerKey, [Next]_vars PROVE OneOpenRowPerKey'
      OBVIOUS
    <2>1. ASSUME NEW c \in Candidate, NEW source \in Sources, Insert(c, source)
          PROVE  OneOpenRowPerKey'
      <3>1. \A i \in DOMAIN rows : ~Conflicts(i, c, source)
        BY <2>1 DEF Insert, Conflicting
      <3>2. HasKey(InsertedRow(c, source), c.identifier, source)
        BY InsertedRowOK
      <3> DEFINE n == Len(rows) + 1
      <3>3. /\ DOMAIN rows' = 1..n /\ DOMAIN rows = 1..(n - 1)
            /\ \A i \in DOMAIN rows : rows'[i] = rows[i]
            /\ rows'[n] = InsertedRow(c, source)
            /\ n \in Nat
        BY <2>1, InsertStep DEF TypeOK
      <3> HIDE DEF n
      <3>4. QED BY <3>1, <3>2, <3>3 DEF OneOpenRowPerKey, Conflicts, HasKey
    <2>2. ASSUME NEW c \in Candidate, NEW source \in Sources, Update(c, source)
          PROVE  OneOpenRowPerKey'
      <3>1. PICK i \in DOMAIN rows :
               /\ Conflicts(i, c, source)
               /\ DOMAIN rows' = DOMAIN rows
               /\ rows[i] \in CampaignRow
               /\ rows'[i] = DoUpdate(rows[i], c)
               /\ \A j \in DOMAIN rows \ {i} : rows'[j] = rows[j]
        BY <2>2, UpdateStep
      <3>2. /\ rows'[i].status = rows[i].status
            /\ rows'[i].identifier = rows[i].identifier
            /\ rows'[i].source = rows[i].source
        BY <3>1, DoUpdateFields
      <3>3. QED BY <3>1, <3>2 DEF OneOpenRowPerKey, IsOpen, HasKey
    <2>3. ASSUME NEW i \in DOMAIN rows, NEW status \in Statuses, SetStatus(i, status)
          PROVE  OneOpenRowPerKey'
      <3>1. /\ rows'[i].identifier = rows[i].identifier
            /\ rows'[i].source = rows[i].source
            /\ DOMAIN rows' = DOMAIN rows
            /\ \A j \in DOMAIN rows \ {i} : rows'[j] = rows[j]
            /\ IsOpen(rows[i])
        BY <2>3, SetStatusStep DEF SetStatus, CampaignRow
      <3>2. QED BY <3>1 DEF OneOpenRowPerKey, IsOpen, HasKey
    <2>4. CASE UNCHANGED vars
      BY <2>4 DEF vars, OneOpenRowPerKey
    <2>5. QED BY <2>1, <2>2, <2>3, <2>4, NextCases
  <1>3. QED BY <1>1, <1>2, TypeCorrect, PTL DEF Spec

\* A row and its evidence history agree after any sequence of fires.
THEOREM HistoryCorrect == Spec => []HistoryFollowsEvidence
  <1>1. Init => HistoryFollowsEvidence
    BY DEF Init, HistoryFollowsEvidence
  <1>2. TypeOK /\ HistoryFollowsEvidence /\ [Next]_vars => HistoryFollowsEvidence'
    <2> SUFFICES ASSUME TypeOK, HistoryFollowsEvidence, [Next]_vars
                 PROVE  HistoryFollowsEvidence'
      OBVIOUS
    <2>1. ASSUME NEW c \in Candidate, NEW source \in Sources, Insert(c, source)
          PROVE  HistoryFollowsEvidence'
      <3>1. HistoryAgrees(InsertedRow(c, source))
        BY InsertedRowOK
      <3>2. \A i \in DOMAIN rows' :
               (i \in DOMAIN rows /\ rows'[i] = rows[i]) \/ rows'[i] = InsertedRow(c, source)
        BY <2>1, InsertStep DEF TypeOK
      <3>3. QED BY <3>1, <3>2 DEF HistoryFollowsEvidence, HistoryAgrees
    <2>2. ASSUME NEW c \in Candidate, NEW source \in Sources, Update(c, source)
          PROVE  HistoryFollowsEvidence'
      <3>1. PICK i \in DOMAIN rows :
               /\ DOMAIN rows' = DOMAIN rows
               /\ rows[i] \in CampaignRow
               /\ rows'[i] = DoUpdate(rows[i], c)
               /\ \A j \in DOMAIN rows \ {i} : rows'[j] = rows[j]
        BY <2>2, UpdateStep
      <3>2. HistoryAgrees(DoUpdate(rows[i], c))
        BY <3>1, DoUpdateOK DEF HistoryFollowsEvidence
      <3>3. QED BY <3>1, <3>2 DEF HistoryFollowsEvidence, HistoryAgrees
    <2>3. ASSUME NEW i \in DOMAIN rows, NEW status \in Statuses, SetStatus(i, status)
          PROVE  HistoryFollowsEvidence'
      <3>1. /\ rows'[i].evidence = rows[i].evidence
            /\ rows'[i].evidence_history = rows[i].evidence_history
            /\ rows'[i].times_fired = rows[i].times_fired
            /\ rows'[i].last_seen = rows[i].last_seen
            /\ rows'[i].peak_confidence = rows[i].peak_confidence
            /\ DOMAIN rows' = DOMAIN rows
            /\ \A j \in DOMAIN rows \ {i} : rows'[j] = rows[j]
        BY <2>3, SetStatusStep DEF CampaignRow
      <3>2. QED BY <3>1 DEF HistoryFollowsEvidence, HistoryAgrees
    <2>4. CASE UNCHANGED vars
      BY <2>4 DEF vars, HistoryFollowsEvidence, HistoryAgrees
    <2>5. QED BY <2>1, <2>2, <2>3, <2>4, NextCases
  <1>3. QED BY <1>1, <1>2, TypeCorrect, PTL DEF Spec

\* A closed row is never written again.
LEMMA FrozenStep ==
    ASSUME TypeOK, [Next]_vars, NEW i \in DOMAIN rows, ~IsOpen(rows[i])
    PROVE  rows'[i] = rows[i]
  <1>1. ASSUME NEW c \in Candidate, NEW source \in Sources, Insert(c, source)
        PROVE  rows'[i] = rows[i]
    BY <1>1, InsertStep
  <1>2. ASSUME NEW c \in Candidate, NEW source \in Sources, Update(c, source)
        PROVE  rows'[i] = rows[i]
    BY <1>2, UpdateStep DEF Conflicts
  <1>3. ASSUME NEW j \in DOMAIN rows, NEW status \in Statuses, SetStatus(j, status)
        PROVE  rows'[i] = rows[i]
    BY <1>3, SetStatusStep DEF SetStatus
  <1>4. CASE UNCHANGED vars
    BY <1>4 DEF vars
  <1>5. QED BY <1>1, <1>2, <1>3, <1>4, NextCases

\* What is stored of an open episode only ever widens, and a closed one stays.
THEOREM OnlyWiden == Spec => EpisodesOnlyWiden
  <1>1. ASSUME NEW row \in CampaignRow, NEW c \in Candidate
        PROVE  Widens(row, DoUpdate(row, c))
    <2> DEFINE new == DoUpdate(row, c)
    <2>1. /\ row.first_seen \in Nat /\ row.last_seen \in Nat /\ row.peak_confidence \in Nat
          /\ c.first \in Nat /\ c.last \in Nat /\ c.confidence \in Nat
      BY <1>1, DataAssumption DEF CampaignRow, Candidate
    <2>2. /\ HasKey(new, row.identifier, row.source)
          /\ new.first_seen = Earlier(row.first_seen, c.first)
          /\ new.last_seen = Later(row.last_seen, c.last)
          /\ new.peak_confidence = Later(row.peak_confidence, c.confidence)
          /\ row.contributing_ips \subseteq new.contributing_ips
          /\ new.times_fired = row.times_fired + 1
          /\ new.evidence_history = MergedHistory(row, c)
      BY <1>1, DoUpdateFields DEF HasKey
    <2>3. /\ Len(row.evidence_history) <= Len(MergedHistory(row, c))
          /\ \A k \in DOMAIN row.evidence_history :
                MergedHistory(row, c)[k] = row.evidence_history[k]
      <3>1. row.evidence_history \in Seq(EvidenceHistoryEntry)
        BY <1>1 DEF CampaignRow
      <3>2. QED BY <3>1, StoredEntry DEF MergedHistory
    <2> HIDE DEF new
    <2>4. Widens(row, new)
      BY <2>1, <2>2, <2>3 DEF Later, Earlier, Widens
    <2>5. QED BY <2>4 DEF new
  <1>2. ASSUME NEW row \in CampaignRow, NEW status \in Statuses
        PROVE  Widens(row, [row EXCEPT !.status = status])
    <2> DEFINE new == [row EXCEPT !.status = status]
    <2>1. /\ HasKey(new, row.identifier, row.source)
          /\ new.first_seen = row.first_seen /\ new.last_seen = row.last_seen
          /\ new.peak_confidence = row.peak_confidence
          /\ new.contributing_ips = row.contributing_ips
          /\ new.evidence_history = row.evidence_history
          /\ new.times_fired = row.times_fired
      BY <1>2 DEF CampaignRow, HasKey
    <2>2. /\ row.first_seen \in Nat /\ row.last_seen \in Nat /\ row.peak_confidence \in Nat
          /\ row.times_fired \in Nat
      BY <1>2, DataAssumption DEF CampaignRow
    <2>3. Len(row.evidence_history) \in Nat
      <3>1. row.evidence_history \in Seq(EvidenceHistoryEntry)
        BY <1>2 DEF CampaignRow
      <3>2. QED BY <3>1
    <2> HIDE DEF new
    <2>4. Widens(row, new)
      BY <2>1, <2>2, <2>3 DEF Widens
    <2>5. QED BY <2>4 DEF new
  <1>3. TypeOK /\ [Next]_vars
           => [\A i \in DOMAIN rows :
                 rows'[i] # rows[i] => IsOpen(rows[i]) /\ Widens(rows[i], rows'[i])]_vars
    <2> SUFFICES ASSUME TypeOK, [Next]_vars, NEW i \in DOMAIN rows, rows'[i] # rows[i]
                 PROVE  Widens(rows[i], rows'[i])
      BY FrozenStep
    <2>1. ASSUME NEW c \in Candidate, NEW source \in Sources, Insert(c, source)
          PROVE  rows'[i] = rows[i]
      BY <2>1, InsertStep
    <2>2. ASSUME NEW c \in Candidate, NEW source \in Sources, Update(c, source)
          PROVE  Widens(rows[i], rows'[i])
      <3>1. PICK j \in DOMAIN rows :
               /\ rows[j] \in CampaignRow
               /\ rows'[j] = DoUpdate(rows[j], c)
               /\ \A k \in DOMAIN rows \ {j} : rows'[k] = rows[k]
        BY <2>2, UpdateStep
      <3>2. QED BY <2>2, <3>1, <1>1
    <2>3. ASSUME NEW j \in DOMAIN rows, NEW status \in Statuses, SetStatus(j, status)
          PROVE  Widens(rows[i], rows'[i])
      <3>1. /\ rows[j] \in CampaignRow
            /\ rows'[j] = [rows[j] EXCEPT !.status = status]
            /\ \A k \in DOMAIN rows \ {j} : rows'[k] = rows[k]
        BY <2>3, SetStatusStep
      <3>2. i = j
        BY <2>3, <3>1
      <3>3. QED BY <2>3, <3>1, <3>2, <1>2
    <2>4. CASE UNCHANGED vars
      BY <2>4 DEF vars
    <2>5. QED BY <2>1, <2>2, <2>3, <2>4, NextCases
  <1>4. QED BY <1>3, TypeCorrect, PTL DEF Spec, EpisodesOnlyWiden

---------------------------------------------------------------------------
(***************************************************************************)
(* The table implements the contract of CampaignRecordStore: each row is   *)
(* the summary of the fires of its own episode.  The argument is an        *)
(* invariant (Summary) that an insert establishes for the new row and an   *)
(* update keeps for the row it folds the new fire into.                    *)
(***************************************************************************)

LatestEvidence(row, f) ==
    row.evidence = Jsonb(normalizeEvidenceForStorage(f[Len(f)].evidence))

Summary ==
    \A i \in DOMAIN rows :
        Contract!Summarises(rows[i], fires[i]) /\ LatestEvidence(rows[i], fires[i])

---------------------------------------------------------------------------

\* Two pieces of evidence are stored alike iff the contract calls them equal.
LEMMA StoredAlike ==
    ASSUME NEW d \in Evidence, NEW e \in Evidence
    PROVE  /\ Jsonb(normalizeEvidenceForStorage(d)) = Jsonb(normalizeEvidenceForStorage(e))
                 <=> Contract!evidenceEqualsIgnoringKeyOrder(d, e)
           /\ Contract!evidenceEqualsIgnoringKeyOrder(
                 Jsonb(normalizeEvidenceForStorage(e)), e)
  BY StoredFormAssumption
  DEF Evidence, Jsonb, normalizeEvidenceForStorage,
      Contract!evidenceEqualsIgnoringKeyOrder

\* A history entry records the fire it was built from.
LEMMA EntryRecords ==
    ASSUME NEW c \in Candidate
    PROVE  Contract!Records(JsonbEntry(buildEvidenceHistoryEntry(c)), c)
  <1>1. c.evidence \in Evidence
    BY DEF Candidate
  <1>2. QED BY <1>1, StoredEntry, StoredAlike DEF Contract!Records

\* A first fire is summarised by the row it inserts.
LEMMA InsertSummarises ==
    ASSUME NEW c \in Candidate, NEW source \in Sources
    PROVE  /\ Contract!Summarises(InsertedRow(c, source), <<c>>)
           /\ LatestEvidence(InsertedRow(c, source), <<c>>)
  <1> DEFINE row == InsertedRow(c, source)
             f == <<c>>
             entry == JsonbEntry(buildEvidenceHistoryEntry(c))
  <1>1. /\ row.identifier = c.identifier /\ row.confidence = c.confidence
        /\ row.peak_confidence = c.confidence /\ row.times_fired = 1
        /\ row.first_seen = c.first /\ row.last_seen = c.last
        /\ row.contributing_ips = c.contributing_ips
        /\ row.evidence_history = <<entry>>
        /\ row.evidence = Jsonb(normalizeEvidenceForStorage(c.evidence))
    BY StoredEntry DEF InsertedRow, FreshRow
  <1>2. /\ c.evidence \in Evidence
        /\ c.first \in Nat /\ c.last \in Nat /\ c.confidence \in Nat
    BY DataAssumption DEF Candidate
  <1>3. Contract!Records(entry, c)
    BY EntryRecords
  <1>4. Len(f) = 1 /\ DOMAIN f = {1} /\ f[1] = c
    OBVIOUS
  <1> HIDE DEF row, f, entry
  <1>5. Contract!HistoryOf(<<entry>>, f)
    <2>1. Contract!NewEvidenceAt(f) = {1}
      BY <1>4 DEF Contract!NewEvidenceAt
    <2> DEFINE at == [i \in {1} |-> 1]
               h == <<entry>>
    <2>2. DOMAIN h = {1} /\ h[1] = entry /\ at[1] = 1
      OBVIOUS
    <2>3. at \in [DOMAIN h -> DOMAIN f]
      BY <1>4
    <2> HIDE DEF at, h
    <2>4. /\ \A i, j \in DOMAIN h : i < j => at[i] < at[j]
          /\ \A m \in Contract!NewEvidenceAt(f) : \E i \in DOMAIN h : at[i] = m
          /\ \A i \in DOMAIN h :
                at[i] \in Contract!NewEvidenceAt(f) /\ Contract!Records(h[i], f[at[i]])
      BY <2>1, <2>2, <1>3, <1>4
    <2>5. Contract!HistoryOf(h, f)
      BY <2>3, <2>4, Zenon DEF Contract!HistoryOf
    <2>6. QED BY <2>5 DEF h
  <1>6. Contract!evidenceEqualsIgnoringKeyOrder(row.evidence, f[Len(f)].evidence)
    BY <1>1, <1>2, <1>4, StoredAlike
  <1>7. row.contributing_ips = UNION {f[i].contributing_ips : i \in DOMAIN f}
    BY <1>1, <1>4
  <1>8. Contract!Summarises(row, f)
    BY <1>1, <1>2, <1>4, <1>5, <1>6, <1>7
    DEF Contract!Summarises, Contract!IsLeast, Contract!IsGreatest
  <1>9. LatestEvidence(row, f)
    BY <1>1, <1>4 DEF LatestEvidence
  <1>10. QED BY <1>8, <1>9 DEF row, f

\* The history of an episode after one more fire.
LEMMA HistoryExtends ==
    ASSUME NEW row \in CampaignRow, NEW f \in Seq(Candidate), NEW c \in Candidate,
           Len(f) > 0, LatestEvidence(row, f),
           Contract!HistoryOf(row.evidence_history, f)
    PROVE  Contract!HistoryOf(MergedHistory(row, c), Append(f, c))
  <1> DEFINE h == row.evidence_history
             n == Len(f)
             g == Append(f, c)
             entry == JsonbEntry(buildEvidenceHistoryEntry(c))
  <1>1. /\ n \in Nat /\ n > 0 /\ DOMAIN f = 1..n /\ DOMAIN g = 1..(n + 1)
        /\ g[n + 1] = c /\ \A i \in 1..n : g[i] = f[i]
        /\ f[n] \in Candidate
    OBVIOUS
  <1>2. h \in Seq(EvidenceHistoryEntry) /\ Len(h) \in Nat /\ DOMAIN h = 1..Len(h)
    BY DEF CampaignRow
  <1>3. f[n].evidence \in Evidence /\ c.evidence \in Evidence
    BY <1>1 DEF Candidate
  <1>4. PICK at \in [DOMAIN h -> DOMAIN f] :
          /\ \A i, j \in DOMAIN h : i < j => at[i] < at[j]
          /\ \A m \in Contract!NewEvidenceAt(f) : \E i \in DOMAIN h : at[i] = m
          /\ \A i \in DOMAIN h :
                at[i] \in Contract!NewEvidenceAt(f) /\ Contract!Records(h[i], f[at[i]])
    BY DEF Contract!HistoryOf
  <1>5. row.evidence = Jsonb(buildEvidenceHistoryEntry(c).evidence)
          <=> Contract!evidenceEqualsIgnoringKeyOrder(c.evidence, f[n].evidence)
    BY <1>3, StoredEntry, StoredAlike DEF LatestEvidence
  <1>6. Contract!Records(entry, c)
    BY EntryRecords
  <1>7. MergedHistory(row, c) =
          IF row.evidence = Jsonb(buildEvidenceHistoryEntry(c).evidence)
          THEN h ELSE Append(h, entry)
    BY DEF MergedHistory
  <1> HIDE DEF h, n, g, entry
  <1>8. \A i \in 1..n : i \in Contract!NewEvidenceAt(g) <=> i \in Contract!NewEvidenceAt(f)
    BY <1>1 DEF Contract!NewEvidenceAt
  <1>9. n + 1 \in Contract!NewEvidenceAt(g)
          <=> ~Contract!evidenceEqualsIgnoringKeyOrder(c.evidence, f[n].evidence)
    BY <1>1 DEF Contract!NewEvidenceAt
  <1>10. Contract!NewEvidenceAt(g) \subseteq 1..(n + 1)
    BY <1>1 DEF Contract!NewEvidenceAt
  <1>11. CASE Contract!evidenceEqualsIgnoringKeyOrder(c.evidence, f[n].evidence)
    <2>1. MergedHistory(row, c) = h
      BY <1>5, <1>7, <1>11
    <2>2. Contract!NewEvidenceAt(g) = Contract!NewEvidenceAt(f)
      <3>1. Contract!NewEvidenceAt(g) \subseteq 1..n
        BY <1>1, <1>9, <1>10, <1>11
      <3>2. Contract!NewEvidenceAt(f) \subseteq 1..n
        BY <1>1 DEF Contract!NewEvidenceAt
      <3>3. QED BY <3>1, <3>2, <1>8
    <2>3. at \in [DOMAIN h -> DOMAIN g]
      BY <1>1
    <2>4. \A i \in DOMAIN h : g[at[i]] = f[at[i]]
      BY <1>1
    <2>5. Contract!HistoryOf(h, g)
      BY <1>4, <2>2, <2>3, <2>4 DEF Contract!HistoryOf
    <2>6. QED BY <2>1, <2>5 DEF g
  <1>12. CASE ~Contract!evidenceEqualsIgnoringKeyOrder(c.evidence, f[n].evidence)
    <2> DEFINE m == Len(h) + 1
               k == Append(h, entry)
               to == [i \in 1..m |-> IF i = m THEN n + 1 ELSE at[i]]
    <2>1. MergedHistory(row, c) = k
      BY <1>5, <1>7, <1>12
    <2>2. /\ DOMAIN k = 1..m /\ k[m] = entry /\ \A i \in 1..Len(h) : k[i] = h[i]
          /\ m \in Nat
      BY <1>2
    <2>3. /\ \A i \in 1..Len(h) : at[i] \in 1..n
          /\ 1..m = (1..Len(h)) \cup {m}
          /\ m \notin 1..Len(h)
      BY <1>1, <1>2
    <2>4. /\ to \in [1..m -> 1..(n + 1)]
          /\ to[m] = n + 1
          /\ \A i \in 1..Len(h) : to[i] = at[i]
      BY <1>1, <1>2, <2>3
    <2> HIDE DEF m, k, to
    <2>5. \A i, j \in 1..m : i < j => to[i] < to[j]
      <3>1. ASSUME NEW i \in 1..m, NEW j \in 1..m, i < j PROVE to[i] < to[j]
        <4>1. i \in 1..Len(h)
          BY <3>1, <1>2, <2>2, <2>3 DEF m
        <4>2. CASE j = m
          BY <4>1, <4>2, <2>3, <2>4, <1>1
        <4>3. CASE j \in 1..Len(h)
          BY <3>1, <4>1, <4>3, <1>2, <1>4, <2>4
        <4>4. QED BY <4>2, <4>3, <2>3
      <3>2. QED BY <3>1
    <2>6. \A x \in Contract!NewEvidenceAt(g) : \E i \in 1..m : to[i] = x
      <3>1. ASSUME NEW x \in Contract!NewEvidenceAt(g) PROVE \E i \in 1..m : to[i] = x
        <4>1. CASE x = n + 1
          BY <4>1, <2>3, <2>4
        <4>2. CASE x \in 1..n
          <5>1. \E i \in DOMAIN h : at[i] = x
            BY <3>1, <4>2, <1>4, <1>8
          <5>2. QED BY <5>1, <1>2, <2>3, <2>4
        <4>3. QED BY <3>1, <4>1, <4>2, <1>1, <1>10
      <3>2. QED BY <3>1
    <2>7. \A i \in 1..m :
             to[i] \in Contract!NewEvidenceAt(g) /\ Contract!Records(k[i], g[to[i]])
      <3>1. ASSUME NEW i \in 1..Len(h)
            PROVE  to[i] \in Contract!NewEvidenceAt(g) /\ Contract!Records(k[i], g[to[i]])
        <4>1. /\ at[i] \in 1..n /\ to[i] = at[i] /\ k[i] = h[i] /\ g[at[i]] = f[at[i]]
          BY <1>1, <2>2, <2>3, <2>4
        <4>2. at[i] \in Contract!NewEvidenceAt(f) /\ Contract!Records(h[i], f[at[i]])
          BY <3>1, <1>2, <1>4
        <4>3. QED BY <4>1, <4>2, <1>8
      <3>2. to[m] \in Contract!NewEvidenceAt(g) /\ Contract!Records(k[m], g[to[m]])
        BY <1>1, <1>6, <1>9, <1>12, <2>2, <2>4
      <3>3. QED BY <3>1, <3>2, <2>3
    <2>8. Contract!HistoryOf(k, g)
      <3>1. to \in [DOMAIN k -> DOMAIN g]
        BY <1>1, <2>2, <2>4
      <3>2. /\ \A i, j \in DOMAIN k : i < j => to[i] < to[j]
            /\ \A x \in Contract!NewEvidenceAt(g) : \E i \in DOMAIN k : to[i] = x
            /\ \A i \in DOMAIN k :
                  to[i] \in Contract!NewEvidenceAt(g) /\ Contract!Records(k[i], g[to[i]])
        BY <2>2, <2>5, <2>6, <2>7
      <3>3. QED BY <3>1, <3>2, Zenon DEF Contract!HistoryOf
    <2>9. QED BY <2>1, <2>8 DEF g
  <1>13. QED BY <1>11, <1>12

LEMMA GreatestExtends ==
    ASSUME NEW S \in SUBSET Nat, NEW v \in Nat, NEW w \in Nat, Contract!IsGreatest(v, S)
    PROVE  Contract!IsGreatest(Later(v, w), S \cup {w})
  BY DEF Contract!IsGreatest, Later

LEMMA LeastExtends ==
    ASSUME NEW S \in SUBSET Nat, NEW v \in Nat, NEW w \in Nat, Contract!IsLeast(v, S)
    PROVE  Contract!IsLeast(Earlier(v, w), S \cup {w})
  BY DEF Contract!IsLeast, Earlier

\* An episode is summarised by its row after one more fire.
LEMMA UpdateSummarises ==
    ASSUME NEW row \in CampaignRow, NEW f \in Seq(Candidate), NEW c \in Candidate,
           row.identifier = c.identifier,
           Contract!Summarises(row, f), LatestEvidence(row, f)
    PROVE  /\ Contract!Summarises(DoUpdate(row, c), Append(f, c))
           /\ LatestEvidence(DoUpdate(row, c), Append(f, c))
  <1> DEFINE new == DoUpdate(row, c)
             n == Len(f)
             g == Append(f, c)
  <1>1. /\ n \in Nat /\ DOMAIN f = 1..n /\ DOMAIN g = 1..(n + 1)
        /\ Len(g) = n + 1 /\ g[n + 1] = c /\ \A i \in 1..n : g[i] = f[i]
        /\ \A i \in 1..n : f[i] \in Candidate
    OBVIOUS
  <1>2. n > 0
    BY DEF Contract!Summarises
  <1>3. /\ new.identifier = row.identifier
        /\ new.times_fired = row.times_fired + 1
        /\ new.confidence = c.confidence
        /\ new.peak_confidence = Later(row.peak_confidence, c.confidence)
        /\ new.first_seen = Earlier(row.first_seen, c.first)
        /\ new.last_seen = Later(row.last_seen, c.last)
        /\ new.contributing_ips = row.contributing_ips \cup c.contributing_ips
        /\ new.evidence_history = MergedHistory(row, c)
        /\ new.evidence = Jsonb(normalizeEvidenceForStorage(c.evidence))
    BY DoUpdateFields
  <1>4. /\ c.first \in Nat /\ c.last \in Nat /\ c.confidence \in Nat
        /\ c.evidence \in Evidence
        /\ row.first_seen \in Nat /\ row.last_seen \in Nat /\ row.peak_confidence \in Nat
        /\ \A i \in 1..n : f[i].first \in Nat /\ f[i].last \in Nat /\ f[i].confidence \in Nat
    BY <1>1, DataAssumption DEF Candidate, CampaignRow
  <1>5. Contract!HistoryOf(new.evidence_history, g)
    BY <1>2, <1>3, HistoryExtends DEF Contract!Summarises
  <1> HIDE DEF new, n, g
  <1>6. /\ row.times_fired = n
        /\ \A i \in 1..n : row.identifier = f[i].identifier
        /\ Contract!IsGreatest(row.peak_confidence, {f[i].confidence : i \in 1..n})
        /\ Contract!IsLeast(row.first_seen, {f[i].first : i \in 1..n})
        /\ Contract!IsGreatest(row.last_seen, {f[i].last : i \in 1..n})
        /\ row.contributing_ips = UNION {f[i].contributing_ips : i \in 1..n}
    BY <1>1 DEF Contract!Summarises, n
  <1>7. Contract!IsGreatest(new.peak_confidence, {g[i].confidence : i \in DOMAIN g})
    <2> DEFINE S == {f[i].confidence : i \in 1..n}
    <2>1. {g[i].confidence : i \in DOMAIN g} = S \cup {c.confidence}
      BY <1>1
    <2>2. S \in SUBSET Nat
      BY <1>4
    <2>3. Contract!IsGreatest(row.peak_confidence, S)
      BY <1>6
    <2> HIDE DEF S
    <2>4. Contract!IsGreatest(Later(row.peak_confidence, c.confidence), S \cup {c.confidence})
      BY <1>4, <2>2, <2>3, GreatestExtends
    <2>5. QED BY <1>3, <2>1, <2>4
  <1>8. Contract!IsLeast(new.first_seen, {g[i].first : i \in DOMAIN g})
    <2> DEFINE S == {f[i].first : i \in 1..n}
    <2>1. {g[i].first : i \in DOMAIN g} = S \cup {c.first}
      BY <1>1
    <2>2. S \in SUBSET Nat
      BY <1>4
    <2>3. Contract!IsLeast(row.first_seen, S)
      BY <1>6
    <2> HIDE DEF S
    <2>4. Contract!IsLeast(Earlier(row.first_seen, c.first), S \cup {c.first})
      BY <1>4, <2>2, <2>3, LeastExtends
    <2>5. QED BY <1>3, <2>1, <2>4
  <1>9. Contract!IsGreatest(new.last_seen, {g[i].last : i \in DOMAIN g})
    <2> DEFINE S == {f[i].last : i \in 1..n}
    <2>1. {g[i].last : i \in DOMAIN g} = S \cup {c.last}
      BY <1>1
    <2>2. S \in SUBSET Nat
      BY <1>4
    <2>3. Contract!IsGreatest(row.last_seen, S)
      BY <1>6
    <2> HIDE DEF S
    <2>4. Contract!IsGreatest(Later(row.last_seen, c.last), S \cup {c.last})
      BY <1>4, <2>2, <2>3, GreatestExtends
    <2>5. QED BY <1>3, <2>1, <2>4
  <1>10. new.contributing_ips = UNION {g[i].contributing_ips : i \in DOMAIN g}
    <2> DEFINE S == {f[i].contributing_ips : i \in 1..n}
    <2>1. {g[i].contributing_ips : i \in DOMAIN g} = S \cup {c.contributing_ips}
      BY <1>1
    <2>2. UNION (S \cup {c.contributing_ips}) = (UNION S) \cup c.contributing_ips
      OBVIOUS
    <2>3. QED BY <1>3, <1>6, <2>1, <2>2
  <1>11. \A i \in DOMAIN g : new.identifier = g[i].identifier
    BY <1>1, <1>3, <1>6
  <1>12. LatestEvidence(new, g)
    BY <1>1, <1>3 DEF LatestEvidence
  <1>13. Contract!evidenceEqualsIgnoringKeyOrder(new.evidence, g[Len(g)].evidence)
    BY <1>1, <1>3, <1>4, StoredAlike
  <1>14. Contract!Summarises(new, g)
    BY <1>1, <1>2, <1>3, <1>5, <1>6, <1>7, <1>8, <1>9, <1>10, <1>11, <1>13
    DEF Contract!Summarises
  <1>15. QED BY <1>12, <1>14 DEF new, g

---------------------------------------------------------------------------
(* The invariant *)

LEMMA SummaryStep == TypeOK /\ Summary /\ [Next]_vars => Summary'
  <1> SUFFICES ASSUME TypeOK, Summary, [Next]_vars PROVE Summary'
    OBVIOUS
  <1>1. ASSUME NEW c \in Candidate, NEW source \in Sources, Insert(c, source)
        PROVE  Summary'
    <2>1. \A i \in DOMAIN rows' :
             \/ i \in DOMAIN rows /\ rows'[i] = rows[i] /\ fires'[i] = fires[i]
             \/ rows'[i] = InsertedRow(c, source) /\ fires'[i] = <<c>>
      BY <1>1, InsertStep DEF TypeOK
    <2>2. /\ Contract!Summarises(InsertedRow(c, source), <<c>>)
          /\ LatestEvidence(InsertedRow(c, source), <<c>>)
      BY <1>1, InsertSummarises
    <2>3. ASSUME NEW i \in DOMAIN rows'
          PROVE  /\ Contract!Summarises(rows'[i], fires'[i])
                 /\ LatestEvidence(rows'[i], fires'[i])
      BY <2>1, <2>2 DEF Summary
    <2>4. QED BY <2>3 DEF Summary
  <1>2. ASSUME NEW c \in Candidate, NEW source \in Sources, Update(c, source)
        PROVE  Summary'
    <2>1. PICK i \in DOMAIN rows :
             /\ Conflicts(i, c, source)
             /\ DOMAIN rows' = DOMAIN rows
             /\ rows[i] \in CampaignRow
             /\ rows'[i] = DoUpdate(rows[i], c)
             /\ \A j \in DOMAIN rows \ {i} : rows'[j] = rows[j]
             /\ fires'[i] = Append(fires[i], c)
             /\ \A j \in DOMAIN rows \ {i} : fires'[j] = fires[j]
      BY <1>2, UpdateStep
    <2>2. fires[i] \in Seq(Candidate)
      BY <2>1 DEF TypeOK
    <2>3. /\ Contract!Summarises(rows[i], fires[i]) /\ LatestEvidence(rows[i], fires[i])
          /\ rows[i].identifier = c.identifier
      BY <2>1 DEF Summary, Conflicts, HasKey
    <2>4. /\ Contract!Summarises(rows'[i], fires'[i])
          /\ LatestEvidence(rows'[i], fires'[i])
      BY <1>2, <2>1, <2>2, <2>3, UpdateSummarises
    <2>5. ASSUME NEW j \in DOMAIN rows \ {i}
          PROVE  /\ Contract!Summarises(rows'[j], fires'[j])
                 /\ LatestEvidence(rows'[j], fires'[j])
      BY <2>1 DEF Summary
    <2>6. QED BY <2>1, <2>4, <2>5 DEF Summary
  <1>3. ASSUME NEW i \in DOMAIN rows, NEW status \in Statuses, SetStatus(i, status)
        PROVE  Summary'
    <2>1. /\ rows[i] \in CampaignRow
          /\ DOMAIN rows' = DOMAIN rows
          /\ rows'[i] = [rows[i] EXCEPT !.status = status]
          /\ \A j \in DOMAIN rows \ {i} : rows'[j] = rows[j]
          /\ fires' = fires
      BY <1>3, SetStatusStep
    <2>2. /\ Contract!Summarises(rows'[i], fires[i])
          /\ LatestEvidence(rows'[i], fires[i])
      <3>1. /\ rows'[i].identifier = rows[i].identifier
            /\ rows'[i].confidence = rows[i].confidence
            /\ rows'[i].peak_confidence = rows[i].peak_confidence
            /\ rows'[i].times_fired = rows[i].times_fired
            /\ rows'[i].first_seen = rows[i].first_seen
            /\ rows'[i].last_seen = rows[i].last_seen
            /\ rows'[i].contributing_ips = rows[i].contributing_ips
            /\ rows'[i].evidence = rows[i].evidence
            /\ rows'[i].evidence_history = rows[i].evidence_history
        BY <2>1 DEF CampaignRow
      <3>2. Contract!Summarises(rows[i], fires[i]) /\ LatestEvidence(rows[i], fires[i])
        BY DEF Summary
      <3>3. QED BY <3>1, <3>2 DEF Contract!Summarises, LatestEvidence
    <2>3. ASSUME NEW j \in DOMAIN rows \ {i}
          PROVE  /\ Contract!Summarises(rows'[j], fires'[j])
                 /\ LatestEvidence(rows'[j], fires'[j])
      BY <2>1 DEF Summary
    <2>4. QED BY <2>1, <2>2, <2>3 DEF Summary
  <1>4. CASE UNCHANGED vars
    BY <1>4 DEF vars, Summary
  <1>5. QED BY <1>1, <1>2, <1>3, <1>4, NextCases

---------------------------------------------------------------------------
(* Refinement *)

\* Every step of the table is a step of the contract, or leaves it alone.
LEMMA StepImplements ==
    TypeOK /\ Summary' /\ [Next]_vars => [Contract!ContractNext]_(Contract!contractVars)
  <1> SUFFICES ASSUME TypeOK, Summary', [Next]_vars
               PROVE  Contract!ContractNext \/ UNCHANGED Contract!contractVars
    OBVIOUS
  <1>1. ASSUME NEW c \in Candidates, NEW source \in Sources, Insert(c, source)
        PROVE  Contract!OpensEpisode(c, source)
    <2> DEFINE n == Len(rows) + 1
    <2>1. c \in Candidate
      BY <1>1, CandidatesAssumption
    <2>2. /\ DOMAIN rows' = 1..n /\ Len(rows') = n
          /\ \A i \in DOMAIN rows : rows'[i] = rows[i] /\ fires'[i] = fires[i]
          /\ rows'[n] = InsertedRow(c, source)
          /\ fires'[n] = <<c>>
          /\ n \in Nat /\ n > 0
      BY <1>1, <2>1, InsertStep DEF TypeOK
    <2>3. Contract!OpenRows(c.identifier, source) = {}
      BY <1>1 DEF Insert, Conflicting, Conflicts, HasKey, IsOpen,
                  Contract!OpenRows, Contract!HasKey, Contract!IsOpen
    <2>4. InsertedRow(c, source).status = "active" /\ InsertedRow(c, source).source = source
      BY <2>1, InsertedRowOK DEF HasKey
    <2>5. Contract!Summarises(rows'[n], fires'[n])
      BY <2>2 DEF Summary
    <2>6. outcome' = <<source, "inserted">> /\ fires' = Append(fires, <<c>>)
      BY <1>1 DEF Insert
    <2> HIDE DEF n
    <2>7. QED
      BY <2>2, <2>3, <2>4, <2>5, <2>6
      DEF Contract!OpensEpisode, Contract!OthersUnchanged, n
  <1>2. ASSUME NEW c \in Candidates, NEW source \in Sources, Update(c, source)
        PROVE  Contract!ExtendsEpisode(c, source)
    <2>1. c \in Candidate
      BY <1>2, CandidatesAssumption
    <2>2. PICK i \in DOMAIN rows :
             /\ Conflicts(i, c, source)
             /\ DOMAIN rows' = DOMAIN rows
             /\ rows[i] \in CampaignRow
             /\ rows'[i] = DoUpdate(rows[i], c)
             /\ \A j \in DOMAIN rows \ {i} : rows'[j] = rows[j]
             /\ fires' = [fires EXCEPT ![i] = Append(@, c)]
             /\ \A j \in DOMAIN rows \ {i} : fires'[j] = fires[j]
             /\ TypeOK'
      BY <1>2, <2>1, UpdateStep
    <2>3. Len(rows') = Len(rows)
      BY <2>2 DEF TypeOK
    <2>4. i \in Contract!OpenRows(c.identifier, source)
      BY <2>2 DEF Conflicts, HasKey, IsOpen, Contract!OpenRows, Contract!HasKey, Contract!IsOpen
    <2>5. rows'[i].status = rows[i].status /\ rows'[i].source = source
      BY <2>1, <2>2, DoUpdateFields DEF Conflicts, HasKey
    <2>6. Contract!Summarises(rows'[i], fires'[i])
      BY <2>2 DEF Summary
    <2>7. outcome' = <<source, "updated">>
      BY <1>2 DEF Update
    <2>8. QED
      BY <2>2, <2>3, <2>4, <2>5, <2>6, <2>7
      DEF Contract!ExtendsEpisode, Contract!OthersUnchanged
  <1>3. ASSUME NEW i \in DOMAIN rows, NEW status \in Statuses, SetStatus(i, status)
        PROVE  Contract!ChangesStatus
    BY <1>3 DEF SetStatus, IsOpen, Statuses,
                Contract!ChangesStatus, Contract!IsOpen, Contract!Statuses
  <1>4. CASE UNCHANGED vars
    BY <1>4 DEF vars, Contract!contractVars
  <1>5. Sources = Contract!Sources
    BY DEF Sources, Contract!Sources
  <1>6. QED
    BY <1>1, <1>2, <1>3, <1>4, <1>5 DEF Next, upsertCandidate, Contract!ContractNext

\* The upsert statement keeps the store's contract: whatever is fired, and
\* whenever episodes are closed in between, every row is the summary of
\* exactly the fires of its own episode.
THEOREM Implements == Spec => ImplementsContract
  <1>1. Init => Summary
    BY DEF Init, Summary
  <1>2. Init => Contract!ContractInit
    BY DEF Init, NoOutcome, Contract!ContractInit, Contract!NoOutcome
  <1>3. Spec => []Summary
    BY <1>1, SummaryStep, TypeCorrect, PTL DEF Spec
  <1>4. QED
    BY <1>2, <1>3, StepImplements, TypeCorrect, PTL
    DEF Spec, ImplementsContract, Contract!ContractSpec
=============================================================================
