------------------------- MODULE CampaignRecords -------------------------
(***************************************************************************)
(* The data both campaign stores work on: candidates emitted by the        *)
(* detection strategies, the campaigns row, and the evidence helpers of    *)
(* detector/persistence/campaignRecordStore.ts.                            *)
(*                                                                         *)
(* Abstractions.  Times and confidences are naturals.  A piece of evidence *)
(* is the figures it carries and the order its keys were written in; the   *)
(* figures are opaque values, and StoredForm says what the JSON round trip *)
(* makes of them (a non-finite number becomes text, anything else stays).  *)
(* The columns a fire merely overwrites (sample paths, user agents, tags,  *)
(* threat level) follow confidence and are left out.                       *)
(***************************************************************************)
EXTENDS Integers, Sequences, FiniteSets

CONSTANTS
    Identifiers,    \* campaign identifiers, "<strategy>|<what it fired on>"
    Ips,            \* client addresses
    Times,          \* instants, in any unit
    Confidences,    \* 0..1 in the code; here scaled to naturals
    Figures,        \* what a piece of evidence says, key order aside
    KeyOrders,      \* the orders its keys can be written in
    JsonbOrder,     \* the one order jsonb keeps them in
    StoredForm(_)   \* figures -> what JSON.stringify/parse makes of them

ASSUME DataAssumption ==
    /\ Times \subseteq Nat
    /\ Confidences \subseteq Nat
    /\ JsonbOrder \in KeyOrders

\* JSON has no NaN or Infinity: once stored, a figure is stored as it is.
ASSUME StoredFormAssumption ==
    \A f \in Figures :
        StoredForm(f) \in Figures /\ StoredForm(StoredForm(f)) = StoredForm(f)

Sources == {"backtest", "live"}
Statuses == {"active", "dormant", "closed"}
Outcomes == Sources \X {"inserted", "updated"}
NoOutcome == << >>

Evidence == [figures : Figures, keyOrder : KeyOrders]

Candidate ==
    [ identifier : Identifiers, confidence : Confidences, evidence : Evidence,
      first : Times, last : Times, contributing_ips : SUBSET Ips ]

EvidenceHistoryEntry ==
    [observed_at : Times, confidence : Confidences, evidence : Evidence]

CampaignRow ==
    [ identifier : Identifiers, source : Sources, status : Statuses,
      confidence : Confidences, peak_confidence : Confidences,
      first_seen : Times, last_seen : Times, times_fired : Nat \ {0},
      contributing_ips : SUBSET Ips,
      evidence : Evidence, evidence_history : Seq(EvidenceHistoryEntry) ]

---------------------------------------------------------------------------
(* Evidence helpers *)

normalizeEvidenceForStorage(e) == [e EXCEPT !.figures = StoredForm(@)]

evidenceEqualsIgnoringKeyOrder(left, right) ==
    StoredForm(left.figures) = StoredForm(right.figures)

buildEvidenceHistoryEntry(c) ==
    [ observed_at |-> c.last, confidence |-> c.confidence,
      evidence |-> normalizeEvidenceForStorage(c.evidence) ]

---------------------------------------------------------------------------
(* Rows *)

Later(s, t) == IF s >= t THEN s ELSE t
Earlier(s, t) == IF s <= t THEN s ELSE t

IsOpen(row) == row.status # "closed"

HasKey(row, identifier, source) ==
    row.identifier = identifier /\ row.source = source

\* The row a first fire creates.
FreshRow(c, source, storedEvidence, entry) ==
    [ identifier |-> c.identifier, source |-> source, status |-> "active",
      confidence |-> c.confidence, peak_confidence |-> c.confidence,
      first_seen |-> c.first, last_seen |-> c.last, times_fired |-> 1,
      contributing_ips |-> c.contributing_ips,
      evidence |-> storedEvidence, evidence_history |-> <<entry>> ]
===========================================================================
