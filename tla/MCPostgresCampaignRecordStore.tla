------------------ MODULE MCPostgresCampaignRecordStore ------------------
(* A small campaigns table. *)
EXTENDS PostgresCampaignRecordStore, SampleCandidates
===========================================================================
