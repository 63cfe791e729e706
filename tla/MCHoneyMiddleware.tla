------------------------ MODULE MCHoneyMiddleware ------------------------
(* Three overlapping requests: one from a Tor exit that a g expression     *)
(* matches twice, one from an address that is none, whose URL and          *)
(* malformed method the same expression matches, and a health check.  The  *)
(* first one comes through both proxies with blanks in its header, the     *)
(* second one wrote addresses into it, the third has only the proxy's own. *)
EXTENDS HoneyMiddleware

\* A secret in an object in an array, and an object under a sensitive key.
MCValues ==
    { [keys |-> <<"name">>, value |-> "climbs"],
      [keys |-> <<"users", "0", "password">>, value |-> "hunter2"],
      [keys |-> <<"users", "0", "city">>, value |-> "Oslo"],
      [keys |-> <<"token", "parts", "0">>, value |-> "abc"],
      [keys |-> <<"token", "parts", "1">>, value |-> "def"] }

NoToken == [cookie |-> "none", header |-> "none"]

MCRequestOf ==
    [ r1 |-> [ path |-> "/files", url |-> "/files?up", method |-> "POST", body |-> "climbs",
               values |-> MCValues, userAgent |-> "curl/8", ip |-> "exit",
               tokens |-> <<[NoToken EXCEPT !.header = "valid"], [NoToken EXCEPT !.cookie = "expired"]>>,
               client |-> "exit", preloaded |-> <<"", "">>, via |-> "cloudflare" ],
      r2 |-> [ path |-> "/.env", url |-> "/files?up", method |-> "beacon", body |-> "nothing",
               values |-> {[keys |-> <<>>, value |-> "text"]},
               userAgent |-> "bot in Mozilla", ip |-> "garbage",
               tokens |-> <<[cookie |-> "expired", header |-> "valid"], NoToken>>,
               client |-> "garbage", preloaded |-> <<"127.0.0.1", "", "1.1.1.1">>,
               via |-> "cloudflare" ],
      r3 |-> [ path |-> "/health", url |-> "/health", method |-> "GET", body |-> "nothing",
               values |-> {}, userAgent |-> "nothing", ip |-> "visitor",
               tokens |-> <<NoToken, NoToken>>,
               client |-> "visitor", preloaded |-> << >>, via |-> "proxy" ] ]

MCAgentsOf ==
    [ curl |-> {"curl/8"}, postman |-> {}, insomnia |-> {},
      bot |-> {"bot in Mozilla"}, browser |-> {"bot in Mozilla"} ]

MCAsnDataOf ==
    [ exit |-> [asn |-> "AS1", org |-> "Relay hosting"],
      visitor |-> [asn |-> "AS2", org |-> "University cable"] ]
    @@ [ip \in {"0.0.0.0"} |-> [asn |-> Unknown, org |-> Unknown]]
MCRegistry == [asn \in {"AS1"} |-> "isp"]
MCOrgPatterns ==
    << [matches |-> {"Relay hosting"}, type |-> "hosting"],
       [matches |-> {"University cable"}, type |-> "education"],
       [matches |-> {"University cable"}, type |-> "isp"] >>

MCPathThreats == {[matches |-> {"/.env"}, severity |-> "high", global |-> FALSE]}
MCMethodThreats == {[method |-> "TRACE", severity |-> "high"]}
MCBodyThreats ==
    { [matches |-> {"climbs", "/files?up", "beacon"}, severity |-> "low", global |-> TRUE],
      [matches |-> {"joins"}, severity |-> "high", global |-> FALSE] }
===========================================================================
