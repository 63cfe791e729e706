------------------ MODULE MCInMemoryCampaignRecordStore ------------------
(* A small Map of open rows. *)
EXTENDS InMemoryCampaignRecordStore, SampleCandidates
===========================================================================
