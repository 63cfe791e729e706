----------------------- MODULE MCBacktestStrategies -----------------------
(***************************************************************************)
(* A log of at most fourteen requests over a scan of three windows, the    *)
(* last one partial, or of four overlapping ones: a /24 that sprays and    *)
(* keeps bursting, a second /24 of the same ASN that replays the same      *)
(* routes, requests logged without an ASN and over Tor, a tool's user      *)
(* agent, an IPv6 client, and requests on the borders of windows and at    *)
(* the scan's end.                                                         *)
(***************************************************************************)
EXTENDS BacktestStrategies

\* The text "Infinity", which the JSON round trip leaves in its place.  A list of
\* user agents, in the two figures of ua-reputation, stays as it is.
InfinityText == -2
MCStoredForm(f) ==
    IF Len(f) = 2 THEN f
    ELSE [i \in DOMAIN f |-> IF f[i] = Infinity THEN InfinityText ELSE f[i]]

MCSubnetOf == [ip \in {"a", "b", "c"} |-> IF ip = "c" THEN "s2" ELSE "s1"]

Request(id, ip, asn, route, at) ==
    [ id |-> id, ip |-> ip, asn |-> asn, route |-> route, created_at |-> at,
      user_agent |-> "browser", is_tor |-> FALSE, threat |-> TRUE, family |-> 4 ]

Pool ==
    { Request(1, "a", "AS1", "/.env", 0),
      Request(2, "a", "AS1", "/wp", 1),
      Request(3, "b", "AS1", "/.env", 2),
      Request(4, "c", "AS1", "/.env", 1),
      [Request(5, "c", "AS1", "/wp", 2) EXCEPT !.user_agent = "tool"],
      Request(6, "a", "AS1", "/.env", 3),
      Request(7, "a", "AS1", "/wp", 5),
      Request(8, "a", "AS1", "/.env", 6),
      Request(9, "a", "AS1", "/wp", 7),
      Request(10, "b", "AS1", "/wp", 8),
      [Request(11, "v6", "AS1", "/wp", 4) EXCEPT !.family = 6],
      [Request(12, "b", "null", "/", 4) EXCEPT !.threat = FALSE],
      Request(13, "b", "null", "/.env", 4),
      [Request(14, "b", "AS1", "/wp", 7) EXCEPT !.is_tor = TRUE] }

\* From the first row on, and from the second instant.
MCFromArgs == {NoArg, 1}

\* The whole pool; the pool without the first spray, or without the burst after
\* it; and nothing.
MCLogs == {Pool, {}} \cup {{r \in Pool : r.id # gone} : gone \in {1, 6}}

\* Bursts are reported from two requests of two paths, the rest whenever
\* their gates pass.
MCConfidence(strategy, f) ==
    IF strategy = "single-ip-burst" THEN IF f[1] >= 2 /\ f[2] >= 2 THEN 3 ELSE 1
    ELSE IF strategy = "ua-reputation" THEN 2
    ELSE 2 + (f[1] \div 100)
===========================================================================
