------------------- MODULE InMemoryCampaignRecordStore -------------------
(***************************************************************************)
(* The store a backtest uses without --persist: open rows in a Map, no     *)
(* statuses, every answer a structuredClone of the stored row.  The Map    *)
(* iterates in insertion order, so it is a sequence of rows here; an       *)
(* answer remembers which stored row, if any, it shares memory with.       *)
(* Every method runs to its end without awaiting, so it is one action.     *)
(***************************************************************************)
EXTENDS CampaignRecords, Ordering, SequencesExt

CONSTANTS
    Candidates,     \* the candidates upserted
    MaxFires        \* bound: upserts in a behaviour

ASSUME CandidatesAssumption == Candidates \subseteq Candidate

VARIABLES
    openRows,   \* openRowsByKey
    returned,   \* the rows the last call handed to its caller
    fires,      \* history variable: the candidates that went into each row
    outcome     \* the source of the last upsert, and inserted | updated

vars == <<openRows, returned, fires, outcome>>

---------------------------------------------------------------------------

keyFor_Identifier(identifier, source) == identifier     \* mutant: one key for both sources
keyFor(identifier, source) == <<source, identifier>>

\* What a caller holds: the row as it is now, shared with no stored row.
structuredClone_Reference(store, i) == [row |-> store[i], sharedWith |-> i]  \* mutant
structuredClone(store, i) == [row |-> store[i], sharedWith |-> 0]

Existing(c, source) ==
    { i \in DOMAIN openRows :
        keyFor(openRows[i].identifier, openRows[i].source)
            = keyFor(c.identifier, source) }

MergedHistory(row, entry) ==
    IF evidenceEqualsIgnoringKeyOrder(row.evidence, entry.evidence)
    THEN row.evidence_history
    ELSE Append(row.evidence_history, entry)

NewRow(c, source) ==
    LET entry == buildEvidenceHistoryEntry(c) IN
    FreshRow(c, source, entry.evidence, entry)

Refired(row, c) ==
    LET entry == buildEvidenceHistoryEntry(c) IN
    [row EXCEPT
        !.first_seen = Earlier(@, c.first),
        !.last_seen = Later(@, c.last),
        !.times_fired = @ + 1,
        !.confidence = c.confidence,
        !.peak_confidence = Later(@, c.confidence),
        !.contributing_ips = @ \cup c.contributing_ips,
        !.evidence_history = MergedHistory(row, entry),
        !.evidence = entry.evidence]

Insert(c, source) ==
    /\ Existing(c, source) = {}
    /\ openRows' = Append(openRows, NewRow(c, source))
    /\ fires' = Append(fires, <<c>>)
    /\ outcome' = <<source, "inserted">>
    /\ returned' = <<structuredClone(openRows', Len(openRows'))>>

Update(c, source) ==
    \E i \in Existing(c, source) :
        /\ openRows' = [openRows EXCEPT ![i] = Refired(@, c)]
        /\ fires' = [fires EXCEPT ![i] = Append(@, c)]
        /\ outcome' = <<source, "updated">>
        /\ returned' = <<structuredClone(openRows', i)>>

upsertCandidate(c, source) == Insert(c, source) \/ Update(c, source)

\* The first open row of the identifier in insertion order, whatever its source.
findOpenByIdentifier(identifier) ==
    LET hits == {i \in DOMAIN openRows : openRows[i].identifier = identifier} IN
    /\ returned' = IF hits = {} THEN << >>
                   ELSE <<structuredClone(openRows, CHOOSE i \in hits : \A j \in hits : i <= j)>>
    /\ UNCHANGED <<openRows, fires, outcome>>

\* Array.prototype.sort is stable: equal peaks stay in insertion order.
listByStatus(status) ==
    LET wanted == {i \in DOMAIN openRows : openRows[i].status = status}
        sorted == HighestFirst(wanted, [i \in wanted |-> openRows[i].peak_confidence]) IN
    /\ returned' = [k \in DOMAIN sorted |-> structuredClone(openRows, sorted[k])]
    /\ UNCHANGED <<openRows, fires, outcome>>

\* Callers own what they were given, and may write to it.
CallerMutates(k, confidence) ==
    LET handle == returned[k] IN
    /\ returned' = [returned EXCEPT ![k].row.confidence = confidence]
    /\ openRows' = IF handle.sharedWith = 0 THEN openRows
                   ELSE [openRows EXCEPT ![handle.sharedWith].confidence = confidence]
    /\ UNCHANGED <<fires, outcome>>

---------------------------------------------------------------------------

FiresSoFar == Len(FlattenSeq(fires))

Init ==
    /\ openRows = << >>
    /\ returned = << >>
    /\ fires = << >>
    /\ outcome = NoOutcome

Next ==
    \/ \E c \in Candidates, source \in Sources :
          FiresSoFar < MaxFires /\ upsertCandidate(c, source)
    \/ \E identifier \in Identifiers : findOpenByIdentifier(identifier)
    \/ \E status \in Statuses : listByStatus(status)
    \/ \E k \in DOMAIN returned, confidence \in Confidences : CallerMutates(k, confidence)

Spec == Init /\ [][Next]_vars

---------------------------------------------------------------------------
(* Properties *)

\* "Callers cannot mutate stored state": stored rows change with an upsert
\* and with nothing else, whatever callers do with the rows they were handed.
RowsAreDetached == [][fires' = fires => openRows' = openRows]_vars

\* The Map implements the contract of CampaignRecordStore: every row is the
\* summary of exactly the fires of its (identifier, source), and its history
\* is the one the SQL statement would have kept.
Contract == INSTANCE CampaignRecordStore WITH campaigns <- openRows
ImplementsContract == Contract!ContractSpec
===========================================================================
