-------------------------- MODULE MCMiningReplay --------------------------
(***************************************************************************)
(* Four requests: one known by its body alone, one by its URL, and two     *)
(* that no pattern knows at first, of which one hides what gives it away   *)
(* under a key that is redacted.  The first one names no agent, although   *)
(* its URL is that of the last.  The second was backfilled, hours after it *)
(* was made.  Of the proposals for URLs one matches a body and a           *)
(* legitimate route too, the other has the g flag; of those for bodies one *)
(* has it and matches a legitimate route, one matches what is redacted,    *)
(* and one the redaction and an empty body; and the one for a method, that *)
(* of every visit, matches a URL as well.                                  *)
(***************************************************************************)
EXTENDS MiningReplay

Request(url, method, body, ip, at) ==
    [ url |-> url, method |-> method, body |-> body, userAgent |-> "curl",
      ip |-> ip, asn |-> "AS1", org |-> "Org", is_tor |-> FALSE, created_at |-> at ]

MCRequestOf ==
    << [Request("/login", "POST", "joins", "10.0.0.1", 5) EXCEPT !.userAgent = "nothing"],
       Request("/.env", "GET", "nothing", "10.0.0.2", 2),
       [Request("/new", "POST", "password drops", "10.0.0.1", 6) EXCEPT !.asn = Unknown],
       [Request("/login", "POST", "drops", "fd00::1", 7) EXCEPT !.org = Unknown, !.is_tor = TRUE] >>

MCLegitRoutes == <<"/", "/cart">>

MCSubnet24 == [ip \in {"10.0.0.1", "10.0.0.2"} |-> "10.0.0.0/24"]

MCStoredText == [ text \in {"joins", "drops", "nothing", "password drops"} |->
                     IF text = "password drops" THEN "password [REDACTED]" ELSE text ]

Proposed(texts, severity, g) == [matches |-> texts, severity |-> severity, global |-> g]

MCAllPath == { Proposed({"/.env", "drops", "/cart"}, "high", FALSE),
               Proposed({"/new", "/login"}, "low", TRUE) }
MCFirst == {Proposed({"joins"}, "high", FALSE)}
MCAllBody == MCFirst \cup
    { Proposed({"drops", "password drops", "/new", "/"}, "medium", TRUE),
      Proposed({"password drops"}, "medium", FALSE),
      Proposed({"password [REDACTED]", "nothing"}, "low", FALSE) }
MCAllMethod ==
    {[matches |-> {"/new"}, severity |-> "medium", global |-> FALSE, method |-> "GET"]}

Writers == Permutations(Connections)
===========================================================================
