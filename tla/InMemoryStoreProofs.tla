----------------------- MODULE InMemoryStoreProofs -----------------------
(***************************************************************************)
(* Theorems about the store in memory, for any candidates, any number of   *)
(* upserts and any callers.                                                *)
(***************************************************************************)
EXTENDS InMemoryCampaignRecordStore, TLAPS

\* Every row has its fires, and nothing that was returned is a stored row.
DetachedInv ==
    /\ openRows \in Seq(CampaignRow)
    /\ fires \in Seq(Seq(Candidate))
    /\ Len(fires) = Len(openRows)
    /\ \A k \in DOMAIN returned : returned[k].sharedWith = 0

LEMMA EntryOK ==
    ASSUME NEW c \in Candidate
    PROVE  /\ buildEvidenceHistoryEntry(c) \in EvidenceHistoryEntry
           /\ buildEvidenceHistoryEntry(c).evidence \in Evidence
  BY StoredFormAssumption
  DEF Candidate, EvidenceHistoryEntry, Evidence,
      buildEvidenceHistoryEntry, normalizeEvidenceForStorage

LEMMA NewRowOK ==
    ASSUME NEW c \in Candidate, NEW source \in Sources
    PROVE  NewRow(c, source) \in CampaignRow
  <1> DEFINE entry == buildEvidenceHistoryEntry(c)
  <1>1. entry \in EvidenceHistoryEntry /\ entry.evidence \in Evidence
    BY EntryOK
  <1>2. NewRow(c, source) = FreshRow(c, source, entry.evidence, entry)
    BY DEF NewRow
  <1> HIDE DEF entry
  <1>3. <<entry>> \in Seq(EvidenceHistoryEntry)
    BY <1>1
  <1>4. FreshRow(c, source, entry.evidence, entry) \in CampaignRow
    BY <1>1, <1>3 DEF FreshRow, CampaignRow, Candidate, Statuses
  <1>5. QED BY <1>2, <1>4

LEMMA RefiredOK ==
    ASSUME NEW row \in CampaignRow, NEW c \in Candidate
    PROVE  Refired(row, c) \in CampaignRow
  <1> DEFINE entry == buildEvidenceHistoryEntry(c)
             history == MergedHistory(row, entry)
  <1>1. entry \in EvidenceHistoryEntry /\ entry.evidence \in Evidence
    BY EntryOK
  <1>2. history \in Seq(EvidenceHistoryEntry)
    BY <1>1 DEF MergedHistory, CampaignRow
  <1>3. Refired(row, c) =
            [row EXCEPT !.first_seen = Earlier(@, c.first), !.last_seen = Later(@, c.last),
                        !.times_fired = @ + 1, !.confidence = c.confidence,
                        !.peak_confidence = Later(@, c.confidence),
                        !.contributing_ips = @ \cup c.contributing_ips,
                        !.evidence_history = history, !.evidence = entry.evidence]
    BY DEF Refired
  <1> HIDE DEF entry, history
  <1>4. /\ Earlier(row.first_seen, c.first) \in Times /\ Later(row.last_seen, c.last) \in Times
        /\ Later(row.peak_confidence, c.confidence) \in Confidences
        /\ row.times_fired + 1 \in Nat \ {0}
        /\ row.contributing_ips \cup c.contributing_ips \in SUBSET Ips
    BY DataAssumption DEF Earlier, Later, CampaignRow, Candidate
  <1>5. QED BY <1>1, <1>2, <1>3, <1>4 DEF CampaignRow, Candidate

\* An upsert leaves a history of its own, and answers with a clone.
LEMMA UpsertStep ==
    ASSUME DetachedInv, NEW c \in Candidates, NEW source \in Sources,
           upsertCandidate(c, source)
    PROVE  DetachedInv' /\ fires' # fires
  <1> USE DEF DetachedInv
  <1>1. c \in Candidate
    BY CandidatesAssumption
  <1>2. CASE Insert(c, source)
    <2>1. /\ openRows' = Append(openRows, NewRow(c, source))
          /\ fires' = Append(fires, <<c>>)
          /\ \A k \in DOMAIN returned' : returned'[k].sharedWith = 0
      BY <1>2 DEF Insert, structuredClone
    <2>2. NewRow(c, source) \in CampaignRow /\ <<c>> \in Seq(Candidate)
      BY <1>1, NewRowOK
    <2>3. QED BY <2>1, <2>2
  <1>3. CASE Update(c, source)
    <2>1. PICK i \in Existing(c, source) :
             /\ openRows' = [openRows EXCEPT ![i] = Refired(@, c)]
             /\ fires' = [fires EXCEPT ![i] = Append(@, c)]
             /\ returned' = <<structuredClone(openRows', i)>>
      BY <1>3 DEF Update
    <2>2. i \in DOMAIN openRows
      BY DEF Existing
    <2>3. \A k \in DOMAIN returned' : returned'[k].sharedWith = 0
      BY <2>1 DEF structuredClone
    <2>4. /\ openRows[i] \in CampaignRow /\ Refired(openRows[i], c) \in CampaignRow
          /\ i \in DOMAIN fires /\ fires[i] \in Seq(Candidate)
      BY <1>1, <2>2, RefiredOK
    <2>5. Append(fires[i], c) \in Seq(Candidate) /\ Append(fires[i], c) # fires[i]
      BY <1>1, <2>4
    <2>6. QED BY <2>1, <2>2, <2>3, <2>4, <2>5
  <1>4. QED BY <1>2, <1>3 DEF upsertCandidate

\* A read hands out clones.
LEMMA ReadStep ==
    ASSUME DetachedInv,
           \/ \E identifier \in Identifiers : findOpenByIdentifier(identifier)
           \/ \E status \in Statuses : listByStatus(status)
    PROVE  DetachedInv' /\ openRows' = openRows
  <1>1. UNCHANGED <<openRows, fires>>
    BY DEF findOpenByIdentifier, listByStatus
  <1>2. \A k \in DOMAIN returned' : returned'[k].sharedWith = 0
    <2>1. ASSUME NEW identifier \in Identifiers, findOpenByIdentifier(identifier)
          PROVE  \A k \in DOMAIN returned' : returned'[k].sharedWith = 0
      <3>1. \/ returned' = << >>
            \/ \E i : returned' = <<structuredClone(openRows, i)>>
        BY <2>1 DEF findOpenByIdentifier
      <3>2. QED BY <3>1 DEF structuredClone
    <2>2. ASSUME NEW status \in Statuses, listByStatus(status)
          PROVE  \A k \in DOMAIN returned' : returned'[k].sharedWith = 0
      <3>1. \E D : \E sorted :
               returned' = [k \in D |-> structuredClone(openRows, sorted[k])]
        BY <2>2 DEF listByStatus
      <3>2. QED BY <3>1 DEF structuredClone
    <2>3. QED BY <2>1, <2>2
  <1>3. QED BY <1>1, <1>2 DEF DetachedInv

\* What a caller writes stays with the caller.
LEMMA CallerStep ==
    ASSUME DetachedInv, NEW k \in DOMAIN returned, NEW confidence \in Confidences,
           CallerMutates(k, confidence)
    PROVE  DetachedInv' /\ openRows' = openRows
  <1>1. /\ openRows' = openRows /\ fires' = fires
        /\ returned' = [returned EXCEPT ![k].row.confidence = confidence]
    BY DEF CallerMutates, DetachedInv
  <1>2. \A j \in DOMAIN returned' : returned'[j].sharedWith = returned[j].sharedWith
    BY <1>1
  <1>3. QED BY <1>1, <1>2 DEF DetachedInv

LEMMA DetachedStep ==
    ASSUME DetachedInv, [Next]_vars
    PROVE  DetachedInv' /\ (fires' = fires => openRows' = openRows)
  <1>1. CASE UNCHANGED vars
    BY <1>1 DEF vars, DetachedInv
  <1>2. CASE Next
    BY <1>2, UpsertStep, ReadStep, CallerStep DEF Next
  <1>3. QED BY <1>1, <1>2

\* Stored rows change with an upsert and with nothing else, whatever callers do
\* with the rows they were handed.
THEOREM Detached == Spec => RowsAreDetached
  <1>1. Init => DetachedInv
    BY DEF Init, DetachedInv
  <1>2. DetachedInv /\ [Next]_vars => DetachedInv'
    BY DetachedStep
  <1>3. DetachedInv /\ [Next]_vars => [fires' = fires => openRows' = openRows]_vars
    BY DetachedStep
  <1>4. QED BY <1>1, <1>2, <1>3, PTL DEF Spec, RowsAreDetached

---------------------------------------------------------------------------
(***************************************************************************)
(* The Map implements the contract of CampaignRecordStore, by the same     *)
(* invariant as the table: every row summarises the fires of its key.  A   *)
(* difference is that the Map compares the new evidence with the row's,    *)
(* key order aside, so it needs to know no more of the row's evidence than *)
(* what the summary says; and that rows are never closed.                  *)
(***************************************************************************)

Summary ==
    \A i \in DOMAIN openRows :
        Contract!Summarises(openRows[i], fires[i]) /\ openRows[i].status = "active"

\* The Map calls new evidence equal iff the contract calls it equal to that of
\* the latest fire, and an entry records the fire it was built from.
LEMMA StoredAlike ==
    ASSUME NEW c \in Candidate, NEW e \in Evidence, NEW d \in Evidence,
           Contract!evidenceEqualsIgnoringKeyOrder(d, e)
    PROVE  LET entry == buildEvidenceHistoryEntry(c) IN
           /\ evidenceEqualsIgnoringKeyOrder(d, entry.evidence)
                 <=> Contract!evidenceEqualsIgnoringKeyOrder(c.evidence, e)
           /\ Contract!evidenceEqualsIgnoringKeyOrder(entry.evidence, c.evidence)
           /\ Contract!Records(entry, c)
  BY StoredFormAssumption
  DEF Candidate, Evidence, buildEvidenceHistoryEntry, normalizeEvidenceForStorage,
      evidenceEqualsIgnoringKeyOrder, Contract!evidenceEqualsIgnoringKeyOrder,
      Contract!Records

LEMMA EntryRecords ==
    ASSUME NEW c \in Candidate
    PROVE  LET entry == buildEvidenceHistoryEntry(c) IN
           /\ Contract!evidenceEqualsIgnoringKeyOrder(entry.evidence, c.evidence)
           /\ Contract!Records(entry, c)
  <1>1. c.evidence \in Evidence
    BY DEF Candidate
  <1>2. Contract!evidenceEqualsIgnoringKeyOrder(c.evidence, c.evidence)
    BY DEF Contract!evidenceEqualsIgnoringKeyOrder
  <1>3. QED BY <1>1, <1>2, StoredAlike

\* A first fire is summarised by the row it inserts.
LEMMA InsertSummarises ==
    ASSUME NEW c \in Candidate, NEW source \in Sources
    PROVE  /\ Contract!Summarises(NewRow(c, source), <<c>>)
           /\ NewRow(c, source).status = "active"
           /\ NewRow(c, source).source = source
  <1> DEFINE row == NewRow(c, source)
             f == <<c>>
             entry == buildEvidenceHistoryEntry(c)
  <1>1. /\ row.identifier = c.identifier /\ row.confidence = c.confidence
        /\ row.peak_confidence = c.confidence /\ row.times_fired = 1
        /\ row.first_seen = c.first /\ row.last_seen = c.last
        /\ row.contributing_ips = c.contributing_ips
        /\ row.evidence_history = <<entry>> /\ row.evidence = entry.evidence
        /\ row.status = "active" /\ row.source = source
    BY DEF NewRow, FreshRow
  <1>2. c.first \in Nat /\ c.last \in Nat /\ c.confidence \in Nat
    BY DataAssumption DEF Candidate
  <1>3. /\ Contract!Records(entry, c)
        /\ Contract!evidenceEqualsIgnoringKeyOrder(entry.evidence, c.evidence)
    BY EntryRecords
  <1>4. Len(f) = 1 /\ DOMAIN f = {1} /\ f[1] = c
    OBVIOUS
  <1> HIDE DEF row, f, entry
  <1>5. Contract!HistoryOf(<<entry>>, f)
    <2>1. Contract!NewEvidenceAt(f) = {1}
      BY <1>4 DEF Contract!NewEvidenceAt
    <2> DEFINE at == [i \in {1} |-> 1]
               h == <<entry>>
    <2>2. DOMAIN h = {1} /\ h[1] = entry /\ at[1] = 1
      OBVIOUS
    <2>3. at \in [DOMAIN h -> DOMAIN f]
      BY <1>4
    <2> HIDE DEF at, h
    <2>4. /\ \A i, j \in DOMAIN h : i < j => at[i] < at[j]
          /\ \A m \in Contract!NewEvidenceAt(f) : \E i \in DOMAIN h : at[i] = m
          /\ \A i \in DOMAIN h :
                at[i] \in Contract!NewEvidenceAt(f) /\ Contract!Records(h[i], f[at[i]])
      BY <2>1, <2>2, <1>3, <1>4
    <2>5. Contract!HistoryOf(h, f)
      BY <2>3, <2>4, Zenon DEF Contract!HistoryOf
    <2>6. QED BY <2>5 DEF h
  <1>6. row.contributing_ips = UNION {f[i].contributing_ips : i \in DOMAIN f}
    BY <1>1, <1>4
  <1>7. Contract!Summarises(row, f)
    BY <1>1, <1>2, <1>3, <1>4, <1>5, <1>6
    DEF Contract!Summarises, Contract!IsLeast, Contract!IsGreatest
  <1>8. QED BY <1>1, <1>7 DEF row, f

LEMMA RefiredFields ==
    ASSUME NEW row \in CampaignRow, NEW c \in Candidate
    PROVE  LET new == Refired(row, c)
               entry == buildEvidenceHistoryEntry(c) IN
           /\ new.identifier = row.identifier
           /\ new.source = row.source
           /\ new.status = row.status
           /\ new.times_fired = row.times_fired + 1
           /\ new.confidence = c.confidence
           /\ new.peak_confidence = Later(row.peak_confidence, c.confidence)
           /\ new.first_seen = Earlier(row.first_seen, c.first)
           /\ new.last_seen = Later(row.last_seen, c.last)
           /\ new.contributing_ips = row.contributing_ips \cup c.contributing_ips
           /\ new.evidence_history = MergedHistory(row, entry)
           /\ new.evidence = entry.evidence
  BY DEF Refired, CampaignRow

\* The history of an episode after one more fire.
LEMMA HistoryExtends ==
    ASSUME NEW row \in CampaignRow, NEW f \in Seq(Candidate), NEW c \in Candidate,
           Len(f) > 0,
           Contract!evidenceEqualsIgnoringKeyOrder(row.evidence, f[Len(f)].evidence),
           Contract!HistoryOf(row.evidence_history, f)
    PROVE  LET entry == buildEvidenceHistoryEntry(c) IN
           Contract!HistoryOf(MergedHistory(row, entry), Append(f, c))
  <1> DEFINE h == row.evidence_history
             n == Len(f)
             g == Append(f, c)
             entry == buildEvidenceHistoryEntry(c)
  <1>1. /\ n \in Nat /\ n > 0 /\ DOMAIN f = 1..n /\ DOMAIN g = 1..(n + 1)
        /\ g[n + 1] = c /\ \A i \in 1..n : g[i] = f[i]
        /\ f[n] \in Candidate
    OBVIOUS
  <1>2. h \in Seq(EvidenceHistoryEntry) /\ Len(h) \in Nat /\ DOMAIN h = 1..Len(h)
    BY DEF CampaignRow
  <1>3. f[n].evidence \in Evidence /\ row.evidence \in Evidence
    BY <1>1 DEF Candidate, CampaignRow
  <1>4. PICK at \in [DOMAIN h -> DOMAIN f] :
          /\ \A i, j \in DOMAIN h : i < j => at[i] < at[j]
          /\ \A m \in Contract!NewEvidenceAt(f) : \E i \in DOMAIN h : at[i] = m
          /\ \A i \in DOMAIN h :
                at[i] \in Contract!NewEvidenceAt(f) /\ Contract!Records(h[i], f[at[i]])
    BY DEF Contract!HistoryOf
  <1>5. evidenceEqualsIgnoringKeyOrder(row.evidence, entry.evidence)
          <=> Contract!evidenceEqualsIgnoringKeyOrder(c.evidence, f[n].evidence)
    BY <1>3, StoredAlike
  <1>6. Contract!Records(entry, c)
    BY EntryRecords
  <1>7. MergedHistory(row, entry) =
          IF evidenceEqualsIgnoringKeyOrder(row.evidence, entry.evidence)
          THEN h ELSE Append(h, entry)
    BY DEF MergedHistory
  <1> HIDE DEF h, n, g, entry
  <1>8. \A i \in 1..n : i \in Contract!NewEvidenceAt(g) <=> i \in Contract!NewEvidenceAt(f)
    BY <1>1 DEF Contract!NewEvidenceAt
  <1>9. n + 1 \in Contract!NewEvidenceAt(g)
          <=> ~Contract!evidenceEqualsIgnoringKeyOrder(c.evidence, f[n].evidence)
    BY <1>1 DEF Contract!NewEvidenceAt
  <1>10. Contract!NewEvidenceAt(g) \subseteq 1..(n + 1)
    BY <1>1 DEF Contract!NewEvidenceAt
  <1>11. CASE Contract!evidenceEqualsIgnoringKeyOrder(c.evidence, f[n].evidence)
    <2>1. MergedHistory(row, entry) = h
      BY <1>5, <1>7, <1>11
    <2>2. Contract!NewEvidenceAt(g) = Contract!NewEvidenceAt(f)
      <3>1. Contract!NewEvidenceAt(g) \subseteq 1..n
        BY <1>1, <1>9, <1>10, <1>11
      <3>2. Contract!NewEvidenceAt(f) \subseteq 1..n
        BY <1>1 DEF Contract!NewEvidenceAt
      <3>3. QED BY <3>1, <3>2, <1>8
    <2>3. at \in [DOMAIN h -> DOMAIN g]
      BY <1>1
    <2>4. \A i \in DOMAIN h : g[at[i]] = f[at[i]]
      BY <1>1
    <2>5. Contract!HistoryOf(h, g)
      BY <1>4, <2>2, <2>3, <2>4 DEF Contract!HistoryOf
    <2>6. QED BY <2>1, <2>5 DEF g, entry
  <1>12. CASE ~Contract!evidenceEqualsIgnoringKeyOrder(c.evidence, f[n].evidence)
    <2> DEFINE m == Len(h) + 1
               k == Append(h, entry)
               to == [i \in 1..m |-> IF i = m THEN n + 1 ELSE at[i]]
    <2>1. MergedHistory(row, entry) = k
      BY <1>5, <1>7, <1>12
    <2>2. /\ DOMAIN k = 1..m /\ k[m] = entry /\ \A i \in 1..Len(h) : k[i] = h[i]
          /\ m \in Nat
      BY <1>2
    <2>3. /\ \A i \in 1..Len(h) : at[i] \in 1..n
          /\ 1..m = (1..Len(h)) \cup {m}
          /\ m \notin 1..Len(h)
      <3>1. at \in [1..Len(h) -> 1..n]
        BY <1>1, <1>2
      <3>2. 1..m = (1..Len(h)) \cup {m} /\ m \notin 1..Len(h)
        BY <1>2
      <3>3. QED BY <3>1, <3>2
    <2>4. /\ to \in [1..m -> 1..(n + 1)]
          /\ to[m] = n + 1
          /\ \A i \in 1..Len(h) : to[i] = at[i]
      BY <1>1, <1>2, <2>3
    <2> HIDE DEF m, k, to
    <2>5. \A i, j \in 1..m : i < j => to[i] < to[j]
      <3>1. ASSUME NEW i \in 1..m, NEW j \in 1..m, i < j PROVE to[i] < to[j]
        <4>1. i \in 1..Len(h)
          BY <3>1, <1>2, <2>2, <2>3 DEF m
        <4>2. CASE j = m
          BY <4>1, <4>2, <2>3, <2>4, <1>1
        <4>3. CASE j \in 1..Len(h)
          BY <3>1, <4>1, <4>3, <1>2, <1>4, <2>4
        <4>4. QED BY <4>2, <4>3, <2>3
      <3>2. QED BY <3>1
    <2>6. \A x \in Contract!NewEvidenceAt(g) : \E i \in 1..m : to[i] = x
      <3>1. ASSUME NEW x \in Contract!NewEvidenceAt(g) PROVE \E i \in 1..m : to[i] = x
        <4>1. CASE x = n + 1
          BY <4>1, <2>3, <2>4
        <4>2. CASE x \in 1..n
          <5>1. \E i \in DOMAIN h : at[i] = x
            BY <3>1, <4>2, <1>4, <1>8
          <5>2. QED BY <5>1, <1>2, <2>3, <2>4
        <4>3. QED BY <3>1, <4>1, <4>2, <1>1, <1>10
      <3>2. QED BY <3>1
    <2>7. \A i \in 1..m :
             to[i] \in Contract!NewEvidenceAt(g) /\ Contract!Records(k[i], g[to[i]])
      <3>1. ASSUME NEW i \in 1..Len(h)
            PROVE  to[i] \in Contract!NewEvidenceAt(g) /\ Contract!Records(k[i], g[to[i]])
        <4>1. /\ at[i] \in 1..n /\ to[i] = at[i] /\ k[i] = h[i] /\ g[at[i]] = f[at[i]]
          BY <1>1, <2>2, <2>3, <2>4
        <4>2. at[i] \in Contract!NewEvidenceAt(f) /\ Contract!Records(h[i], f[at[i]])
          BY <3>1, <1>2, <1>4
        <4>3. QED BY <4>1, <4>2, <1>8
      <3>2. to[m] \in Contract!NewEvidenceAt(g) /\ Contract!Records(k[m], g[to[m]])
        BY <1>1, <1>6, <1>9, <1>12, <2>2, <2>4
      <3>3. QED BY <3>1, <3>2, <2>3
    <2>8. Contract!HistoryOf(k, g)
      <3>1. to \in [DOMAIN k -> DOMAIN g]
        BY <1>1, <2>2, <2>4
      <3>2. /\ \A i, j \in DOMAIN k : i < j => to[i] < to[j]
            /\ \A x \in Contract!NewEvidenceAt(g) : \E i \in DOMAIN k : to[i] = x
            /\ \A i \in DOMAIN k :
                  to[i] \in Contract!NewEvidenceAt(g) /\ Contract!Records(k[i], g[to[i]])
        BY <2>2, <2>5, <2>6, <2>7
      <3>3. QED BY <3>1, <3>2, Zenon DEF Contract!HistoryOf
    <2>9. QED BY <2>1, <2>8 DEF g, entry
  <1>13. QED BY <1>11, <1>12

LEMMA GreatestExtends ==
    ASSUME NEW S \in SUBSET Nat, NEW v \in Nat, NEW w \in Nat, Contract!IsGreatest(v, S)
    PROVE  Contract!IsGreatest(Later(v, w), S \cup {w})
  BY DEF Contract!IsGreatest, Later

LEMMA LeastExtends ==
    ASSUME NEW S \in SUBSET Nat, NEW v \in Nat, NEW w \in Nat, Contract!IsLeast(v, S)
    PROVE  Contract!IsLeast(Earlier(v, w), S \cup {w})
  BY DEF Contract!IsLeast, Earlier

\* An episode is summarised by its row after one more fire.
LEMMA RefiredSummarises ==
    ASSUME NEW row \in CampaignRow, NEW f \in Seq(Candidate), NEW c \in Candidate,
           row.identifier = c.identifier,
           Contract!Summarises(row, f)
    PROVE  Contract!Summarises(Refired(row, c), Append(f, c))
  <1> DEFINE new == Refired(row, c)
             n == Len(f)
             g == Append(f, c)
  <1>1. /\ n \in Nat /\ DOMAIN f = 1..n /\ DOMAIN g = 1..(n + 1)
        /\ Len(g) = n + 1 /\ g[n + 1] = c /\ \A i \in 1..n : g[i] = f[i]
        /\ \A i \in 1..n : f[i] \in Candidate
    OBVIOUS
  <1>2. n > 0
    BY DEF Contract!Summarises
  <1>3. /\ new.identifier = row.identifier
        /\ new.times_fired = row.times_fired + 1
        /\ new.confidence = c.confidence
        /\ new.peak_confidence = Later(row.peak_confidence, c.confidence)
        /\ new.first_seen = Earlier(row.first_seen, c.first)
        /\ new.last_seen = Later(row.last_seen, c.last)
        /\ new.contributing_ips = row.contributing_ips \cup c.contributing_ips
        /\ new.evidence_history = MergedHistory(row, buildEvidenceHistoryEntry(c))
        /\ new.evidence = buildEvidenceHistoryEntry(c).evidence
    BY RefiredFields
  <1>4. /\ c.first \in Nat /\ c.last \in Nat /\ c.confidence \in Nat
        /\ c.evidence \in Evidence
        /\ row.first_seen \in Nat /\ row.last_seen \in Nat /\ row.peak_confidence \in Nat
        /\ \A i \in 1..n : f[i].first \in Nat /\ f[i].last \in Nat /\ f[i].confidence \in Nat
    BY <1>1, DataAssumption DEF Candidate, CampaignRow
  <1>5. Contract!HistoryOf(new.evidence_history, g)
    BY <1>2, <1>3, HistoryExtends DEF Contract!Summarises
  <1> HIDE DEF new, n, g
  <1>6. /\ row.times_fired = n
        /\ \A i \in 1..n : row.identifier = f[i].identifier
        /\ Contract!IsGreatest(row.peak_confidence, {f[i].confidence : i \in 1..n})
        /\ Contract!IsLeast(row.first_seen, {f[i].first : i \in 1..n})
        /\ Contract!IsGreatest(row.last_seen, {f[i].last : i \in 1..n})
        /\ row.contributing_ips = UNION {f[i].contributing_ips : i \in 1..n}
    BY <1>1 DEF Contract!Summarises, n
  <1>7. Contract!IsGreatest(new.peak_confidence, {g[i].confidence : i \in DOMAIN g})
    <2> DEFINE S == {f[i].confidence : i \in 1..n}
    <2>1. {g[i].confidence : i \in DOMAIN g} = S \cup {c.confidence}
      BY <1>1
    <2>2. S \in SUBSET Nat
      BY <1>4
    <2>3. Contract!IsGreatest(row.peak_confidence, S)
      BY <1>6
    <2> HIDE DEF S
    <2>4. Contract!IsGreatest(Later(row.peak_confidence, c.confidence), S \cup {c.confidence})
      BY <1>4, <2>2, <2>3, GreatestExtends
    <2>5. QED BY <1>3, <2>1, <2>4
  <1>8. Contract!IsLeast(new.first_seen, {g[i].first : i \in DOMAIN g})
    <2> DEFINE S == {f[i].first : i \in 1..n}
    <2>1. {g[i].first : i \in DOMAIN g} = S \cup {c.first}
      BY <1>1
    <2>2. S \in SUBSET Nat
      BY <1>4
    <2>3. Contract!IsLeast(row.first_seen, S)
      BY <1>6
    <2> HIDE DEF S
    <2>4. Contract!IsLeast(Earlier(row.first_seen, c.first), S \cup {c.first})
      BY <1>4, <2>2, <2>3, LeastExtends
    <2>5. QED BY <1>3, <2>1, <2>4
  <1>9. Contract!IsGreatest(new.last_seen, {g[i].last : i \in DOMAIN g})
    <2> DEFINE S == {f[i].last : i \in 1..n}
    <2>1. {g[i].last : i \in DOMAIN g} = S \cup {c.last}
      BY <1>1
    <2>2. S \in SUBSET Nat
      BY <1>4
    <2>3. Contract!IsGreatest(row.last_seen, S)
      BY <1>6
    <2> HIDE DEF S
    <2>4. Contract!IsGreatest(Later(row.last_seen, c.last), S \cup {c.last})
      BY <1>4, <2>2, <2>3, GreatestExtends
    <2>5. QED BY <1>3, <2>1, <2>4
  <1>10. new.contributing_ips = UNION {g[i].contributing_ips : i \in DOMAIN g}
    <2> DEFINE S == {f[i].contributing_ips : i \in 1..n}
    <2>1. {g[i].contributing_ips : i \in DOMAIN g} = S \cup {c.contributing_ips}
      BY <1>1
    <2>2. UNION (S \cup {c.contributing_ips}) = (UNION S) \cup c.contributing_ips
      OBVIOUS
    <2>3. QED BY <1>3, <1>6, <2>1, <2>2
  <1>11. \A i \in DOMAIN g : new.identifier = g[i].identifier
    BY <1>1, <1>3, <1>6
  <1>12. Contract!evidenceEqualsIgnoringKeyOrder(new.evidence, g[Len(g)].evidence)
    BY <1>1, <1>3, EntryRecords
  <1>13. Contract!Summarises(new, g)
    BY <1>1, <1>2, <1>3, <1>5, <1>6, <1>7, <1>8, <1>9, <1>10, <1>11, <1>12
    DEF Contract!Summarises
  <1>14. QED BY <1>13 DEF new, g
---------------------------------------------------------------------------
(* The invariant and the refinement *)

LEMMA InsertStep ==
    ASSUME DetachedInv, NEW c \in Candidate, NEW source \in Sources, Insert(c, source)
    PROVE  LET n == Len(openRows) + 1 IN
           /\ DOMAIN openRows = 1..(n - 1) /\ DOMAIN openRows' = 1..n
           /\ Len(openRows') = n /\ n \in Nat
           /\ \A i \in DOMAIN openRows : openRows'[i] = openRows[i] /\ fires'[i] = fires[i]
           /\ openRows'[n] = NewRow(c, source)
           /\ fires' = Append(fires, <<c>>) /\ fires'[n] = <<c>>
           /\ outcome' = <<source, "inserted">>
  <1>1. /\ openRows' = Append(openRows, NewRow(c, source))
        /\ fires' = Append(fires, <<c>>)
        /\ outcome' = <<source, "inserted">>
    BY DEF Insert
  <1>2. /\ openRows \in Seq(CampaignRow) /\ fires \in Seq(Seq(Candidate))
        /\ Len(fires) = Len(openRows)
    BY DEF DetachedInv
  <1>3. QED BY <1>1, <1>2

LEMMA UpdateStep ==
    ASSUME DetachedInv, NEW c \in Candidate, NEW source \in Sources, Update(c, source)
    PROVE  \E i \in DOMAIN openRows :
              /\ openRows[i].identifier = c.identifier /\ openRows[i].source = source
              /\ openRows[i] \in CampaignRow /\ fires[i] \in Seq(Candidate)
              /\ DOMAIN openRows' = DOMAIN openRows /\ Len(openRows') = Len(openRows)
              /\ openRows'[i] = Refired(openRows[i], c)
              /\ fires' = [fires EXCEPT ![i] = Append(@, c)]
              /\ fires'[i] = Append(fires[i], c)
              /\ \A j \in DOMAIN openRows \ {i} :
                    openRows'[j] = openRows[j] /\ fires'[j] = fires[j]
              /\ outcome' = <<source, "updated">>
  <1>1. PICK i \in Existing(c, source) :
           /\ openRows' = [openRows EXCEPT ![i] = Refired(openRows[i], c)]
           /\ fires' = [fires EXCEPT ![i] = Append(fires[i], c)]
           /\ outcome' = <<source, "updated">>
    BY DEF Update
  <1>2. /\ i \in DOMAIN openRows
        /\ openRows[i].identifier = c.identifier /\ openRows[i].source = source
    BY DEF Existing, keyFor
  <1>3. /\ openRows \in Seq(CampaignRow) /\ fires \in Seq(Seq(Candidate))
        /\ Len(fires) = Len(openRows)
    BY DEF DetachedInv
  <1>4. openRows[i] \in CampaignRow /\ fires[i] \in Seq(Candidate)
    BY <1>2, <1>3
  <1>5. openRows' \in Seq(CampaignRow)
    BY <1>1, <1>2, <1>3, <1>4, RefiredOK
  <1>6. /\ DOMAIN openRows' = DOMAIN openRows
        /\ openRows'[i] = Refired(openRows[i], c)
        /\ \A j \in DOMAIN openRows \ {i} : openRows'[j] = openRows[j]
    BY <1>1, <1>2
  <1>7. Len(openRows') = Len(openRows)
    BY <1>3, <1>5, <1>6
  <1>8. DOMAIN fires = DOMAIN openRows
    BY <1>3
  <1>9. /\ fires'[i] = Append(fires[i], c)
        /\ \A j \in DOMAIN openRows \ {i} : fires'[j] = fires[j]
    BY <1>1, <1>2, <1>8
  <1>10. QED BY <1>1, <1>2, <1>4, <1>6, <1>7, <1>9

\* Every other action leaves rows and fires alone.
LEMMA OtherStep ==
    ASSUME DetachedInv, [Next]_vars,
           ~ \E c \in Candidates, source \in Sources : upsertCandidate(c, source)
    PROVE  UNCHANGED <<openRows, fires, outcome>>
  <1>1. CASE UNCHANGED vars
    BY <1>1 DEF vars
  <1>2. ASSUME NEW identifier \in Identifiers, findOpenByIdentifier(identifier)
        PROVE  UNCHANGED <<openRows, fires, outcome>>
    BY <1>2 DEF findOpenByIdentifier
  <1>3. ASSUME NEW status \in Statuses, listByStatus(status)
        PROVE  UNCHANGED <<openRows, fires, outcome>>
    BY <1>3 DEF listByStatus
  <1>4. ASSUME NEW k \in DOMAIN returned, NEW confidence \in Confidences,
               CallerMutates(k, confidence)
        PROVE  UNCHANGED <<openRows, fires, outcome>>
    BY <1>4, CallerStep DEF CallerMutates
  <1>5. QED BY <1>1, <1>2, <1>3, <1>4 DEF Next

LEMMA SummaryStep == DetachedInv /\ Summary /\ [Next]_vars => Summary'
  <1> SUFFICES ASSUME DetachedInv, Summary, [Next]_vars PROVE Summary'
    OBVIOUS
  <1>1. ASSUME NEW c \in Candidates, NEW source \in Sources, Insert(c, source)
        PROVE  Summary'
    <2>1. c \in Candidate
      BY CandidatesAssumption
    <2>2. \A i \in DOMAIN openRows' :
             \/ i \in DOMAIN openRows /\ openRows'[i] = openRows[i] /\ fires'[i] = fires[i]
             \/ openRows'[i] = NewRow(c, source) /\ fires'[i] = <<c>>
      BY <1>1, <2>1, InsertStep
    <2>3. /\ Contract!Summarises(NewRow(c, source), <<c>>)
          /\ NewRow(c, source).status = "active"
      BY <2>1, InsertSummarises
    <2>4. ASSUME NEW i \in DOMAIN openRows'
          PROVE  Contract!Summarises(openRows'[i], fires'[i]) /\ openRows'[i].status = "active"
      BY <2>2, <2>3 DEF Summary
    <2>5. QED BY <2>4 DEF Summary
  <1>2. ASSUME NEW c \in Candidates, NEW source \in Sources, Update(c, source)
        PROVE  Summary'
    <2>1. c \in Candidate
      BY CandidatesAssumption
    <2>2. PICK i \in DOMAIN openRows :
             /\ openRows[i].identifier = c.identifier
             /\ openRows[i] \in CampaignRow /\ fires[i] \in Seq(Candidate)
             /\ DOMAIN openRows' = DOMAIN openRows
             /\ openRows'[i] = Refired(openRows[i], c)
             /\ fires'[i] = Append(fires[i], c)
             /\ \A j \in DOMAIN openRows \ {i} :
                   openRows'[j] = openRows[j] /\ fires'[j] = fires[j]
      BY <1>2, <2>1, UpdateStep
    <2>3. Contract!Summarises(openRows[i], fires[i]) /\ openRows[i].status = "active"
      BY DEF Summary
    <2>4. Contract!Summarises(openRows'[i], fires'[i])
      BY <2>1, <2>2, <2>3, RefiredSummarises
    <2>5. openRows'[i].status = "active"
      BY <2>1, <2>2, <2>3, RefiredFields
    <2>6. ASSUME NEW j \in DOMAIN openRows \ {i}
          PROVE  Contract!Summarises(openRows'[j], fires'[j]) /\ openRows'[j].status = "active"
      BY <2>2 DEF Summary
    <2>7. QED BY <2>2, <2>4, <2>5, <2>6 DEF Summary
  <1>3. CASE ~ \E c \in Candidates, source \in Sources : upsertCandidate(c, source)
    BY <1>3, OtherStep DEF Summary
  <1>4. QED BY <1>1, <1>2, <1>3 DEF upsertCandidate

\* An upsert is a step of the contract; whatever else happens leaves it alone.
LEMMA StepImplements ==
    DetachedInv /\ Summary /\ Summary' /\ [Next]_vars
        => [Contract!ContractNext]_(Contract!contractVars)
  <1> SUFFICES ASSUME DetachedInv, Summary, Summary', [Next]_vars
               PROVE  Contract!ContractNext \/ UNCHANGED Contract!contractVars
    OBVIOUS
  <1>1. ASSUME NEW c \in Candidates, NEW source \in Sources, Insert(c, source)
        PROVE  Contract!OpensEpisode(c, source)
    <2> DEFINE n == Len(openRows) + 1
    <2>1. c \in Candidate
      BY CandidatesAssumption
    <2>2. /\ DOMAIN openRows' = 1..n /\ Len(openRows') = n /\ n \in Nat
          /\ \A i \in DOMAIN openRows : openRows'[i] = openRows[i] /\ fires'[i] = fires[i]
          /\ openRows'[n] = NewRow(c, source)
          /\ fires' = Append(fires, <<c>>) /\ fires'[n] = <<c>>
          /\ outcome' = <<source, "inserted">>
      BY <1>1, <2>1, InsertStep
    <2>3. n \in 1..n
      BY DEF DetachedInv
    <2>4. Contract!OpenRows(c.identifier, source) = {}
      BY <1>1 DEF Insert, Existing, keyFor,
                  Contract!OpenRows, Contract!HasKey, Contract!IsOpen
    <2>5. NewRow(c, source).status = "active" /\ NewRow(c, source).source = source
      BY <2>1, InsertSummarises
    <2>6. Contract!Summarises(openRows'[n], fires'[n])
      BY <2>2, <2>3 DEF Summary
    <2> HIDE DEF n
    <2>7. QED
      BY <2>2, <2>4, <2>5, <2>6 DEF Contract!OpensEpisode, Contract!OthersUnchanged, n
  <1>2. ASSUME NEW c \in Candidates, NEW source \in Sources, Update(c, source)
        PROVE  Contract!ExtendsEpisode(c, source)
    <2>1. c \in Candidate
      BY CandidatesAssumption
    <2>2. PICK i \in DOMAIN openRows :
             /\ openRows[i].identifier = c.identifier /\ openRows[i].source = source
             /\ openRows[i] \in CampaignRow
             /\ DOMAIN openRows' = DOMAIN openRows /\ Len(openRows') = Len(openRows)
             /\ openRows'[i] = Refired(openRows[i], c)
             /\ fires' = [fires EXCEPT ![i] = Append(@, c)]
             /\ \A j \in DOMAIN openRows \ {i} :
                   openRows'[j] = openRows[j] /\ fires'[j] = fires[j]
             /\ outcome' = <<source, "updated">>
      BY <1>2, <2>1, UpdateStep
    <2>3. i \in Contract!OpenRows(c.identifier, source)
      BY <2>2 DEF Summary, Contract!OpenRows, Contract!HasKey, Contract!IsOpen
    <2>4. openRows'[i].status = openRows[i].status /\ openRows'[i].source = source
      BY <2>1, <2>2, RefiredFields
    <2>5. Contract!Summarises(openRows'[i], fires'[i])
      BY <2>2 DEF Summary
    <2>6. QED
      BY <2>2, <2>3, <2>4, <2>5 DEF Contract!ExtendsEpisode, Contract!OthersUnchanged
  <1>3. CASE ~ \E c \in Candidates, source \in Sources : upsertCandidate(c, source)
    BY <1>3, OtherStep DEF Contract!contractVars
  <1>4. Sources = Contract!Sources
    BY DEF Sources, Contract!Sources
  <1>5. QED BY <1>1, <1>2, <1>3, <1>4 DEF upsertCandidate, Contract!ContractNext

\* The Map keeps the store's contract: whatever is fired, read and written to
\* in the callers' copies, every row is the summary of exactly the fires of its
\* (identifier, source).
THEOREM Implements == Spec => ImplementsContract
  <1>1. Init => DetachedInv /\ Summary
    BY DEF Init, DetachedInv, Summary
  <1>2. Init => Contract!ContractInit
    BY DEF Init, NoOutcome, Contract!ContractInit, Contract!NoOutcome
  <1>3. DetachedInv /\ [Next]_vars => DetachedInv'
    BY DetachedStep
  <1>4. Spec => [](DetachedInv /\ Summary)
    BY <1>1, <1>3, SummaryStep, PTL DEF Spec
  <1>5. QED
    BY <1>2, <1>4, StepImplements, PTL
    DEF Spec, ImplementsContract, Contract!ContractSpec
===========================================================================
