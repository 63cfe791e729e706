----------------------- MODULE MCFingerprintReplay -----------------------
(***************************************************************************)
(* Four addresses of one ASN in two clusters of two, first seen at the     *)
(* same instant, any of their requests missing or backfilled; and one      *)
(* request after the pinned range, which the query must not load.  Three   *)
(* of them share a /24, over two windows of the tuning harness; one row    *)
(* was not a threat when it was stored, one came over Tor.                 *)
(***************************************************************************)
EXTENDS ScoreTuning

MCSubnetOf == [ip \in {"a", "b", "c", "d"} |-> IF ip = "d" THEN "t" ELSE "s"]
MCConfidence(strategy, figures) == 1

MCPathThreats == { [matches |-> {"/.env"}, severity |-> "high"],
                   [matches |-> {"/.env", "/wp"}, severity |-> "low"] }
MCMaxOR(ips, cohesion, attackPaths) ==
    20 * ips + IF cohesion > 30 * attackPaths THEN cohesion ELSE 30 * attackPaths

Request(id, ip, route, at) ==
    [ id |-> id, ip |-> ip, asn |-> "AS1", route |-> route, created_at |-> at,
      user_agent |-> "browser", is_tor |-> id = 3, threat |-> id # 7, family |-> 4 ]

MCPool ==
    { Request(1, "a", "/.env", 1), Request(2, "a", "/wp", 2),
      Request(3, "b", "/.env", 2), Request(4, "b", "/wp", 3),
      Request(5, "c", "/.env", 1), Request(6, "c", "/git", 2),
      Request(7, "d", "/.env", 3), Request(8, "d", "/git", 3),
      Request(9, "a", "/git", 4) }
===========================================================================
