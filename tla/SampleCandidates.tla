------------------------ MODULE SampleCandidates ------------------------
(* Values for the constants of the two campaign stores: two identifiers    *)
(* that both sources report.                                               *)
EXTENDS CampaignRecords

\* 99 is a figure that only differs from 2 before it is stored (Infinity and
\* the text "Infinity").
MCFigures == {1, 2, 99}
MCStoredForm(f) == IF f = 99 THEN 2 ELSE f

Report(id, conf, fig, order, first, last, ips) ==
    [ identifier |-> id, confidence |-> conf,
      evidence |-> [figures |-> fig, keyOrder |-> order],
      first |-> first, last |-> last, contributing_ips |-> ips ]

\* An early and a late window; the same evidence written in two orders and
\* in its two forms; new evidence; an address that rotates.
MCCandidates ==
    { Report("burst", 2, 1, "asWritten", 1, 2, {"ip1"}),
      Report("burst", 1, 1, "asSorted", 2, 3, {"ip2"}),
      Report("burst", 3, 2, "asWritten", 1, 1, {"ip1", "ip2"}),
      Report("burst", 2, 99, "asWritten", 2, 2, {"ip1"}),
      Report("cluster", 1, 1, "asWritten", 1, 3, {"ip2"}) }
===========================================================================
