------------------------- MODULE MCNginxBackfill -------------------------
(***************************************************************************)
(* Six requests in two rotated files, the newer file read first, and one   *)
(* line of a handshake, which is no request.  Instants are half seconds:   *)
(* nginx logs even ones, the middleware any.                               *)
(***************************************************************************)
EXTENDS NginxBackfill

MCLines == <<"l5", "l6", "l1", "l2", "l0", "l3", "l4">>
MCAt == [l0 |-> 4, l1 |-> 2, l2 |-> 4, l3 |-> 4, l4 |-> 6, l5 |-> 8, l6 |-> 10]

Request(ip, method, url, body, userAgent) ==
    [ip |-> ip, method |-> method, url |-> url, body |-> body, userAgent |-> userAgent]

MCRequestOf ==
    [ l1 |-> Request("visitor", "GET", "/", "nothing", "Mozilla"),
      l2 |-> Request("relay", "GET", "/.env", "nothing", "curl/8"),
      l3 |-> Request("relay", "POST", "/", "drops", "nothing"),
      l4 |-> Request("local", "TRACE", "/?drops", "nothing", "nothing"),
      l5 |-> Request("visitor", "POST", "/?drops", "drops", "bot in Mozilla"),
      l6 |-> Request("visitor", "GET", "/", "nothing", "Wget") ]
MCLoggedAgent ==
    [ l1 |-> "Mozilla", l2 |-> "curl/8", l3 |-> "-", l4 |-> "",
      l5 |-> "bot in Mozilla", l6 |-> "Wget" ]

MCPathThreats == {[matches |-> {"/.env"}, severity |-> "high", global |-> FALSE]}
MCMethodThreats == {[method |-> "TRACE", severity |-> "medium"]}
MCBodyThreats == {[matches |-> {"drops", "/?drops"}, severity |-> "high", global |-> TRUE]}

MCAgentsOf ==
    [ curl |-> {"curl/8"}, postman |-> {}, insomnia |-> {},
      bot |-> {"bot in Mozilla"}, browser |-> {"bot in Mozilla", "Mozilla"} ]
MCAsnDataOf ==
    [ visitor |-> [asn |-> "AS1", org |-> "Cable"], relay |-> [asn |-> "AS2", org |-> "Hosting"],
      local |-> [asn |-> Unknown, org |-> Unknown] ]
MCRegistry == [asn \in {"AS1"} |-> "isp"]
MCOrgPatterns == <<[matches |-> {"Hosting"}, type |-> "hosting"]>>

\* A window that ends between two seconds, and windows that end on one.
MCWindows == {[from |-> 1, to |-> 5], [from |-> 3, to |-> 8], [from |-> 4, to |-> 6]}
OnSeconds == {[from |-> 5, to |-> 6]}

Processes == Permutations(Runs)
===========================================================================
