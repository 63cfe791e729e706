---------------------------- MODULE Strategies ----------------------------
(***************************************************************************)
(* The four detection strategies (strategies/*.ts): which requests each    *)
(* one observes, under which key, what it makes of a group of them, and    *)
(* what it calls the campaign.  The weighted sigmoids that turn the        *)
(* figures of a group into a confidence are the constant Confidence: any   *)
(* function of exactly those figures.                                      *)
(***************************************************************************)
EXTENDS MetricsWithinWindow, Markers

CONSTANTS
    ToolUas,            \* user agents that EXPLOIT_TOOL_UA matches
    MinClusterIps,      \* distinct IPs that make a cluster (3 in the code)
    Confidence(_, _)    \* strategy, figures -> confidence

\* ORDERED_STRATEGIES: the producer of markers before their consumer.
OrderedStrategies_ConsumerFirst ==             \* mutant
    <<"single-ip-burst", "asn-path-fingerprint-cluster",
      "ua-reputation", "subnet-fingerprint-overlap">>
OrderedStrategies ==
    <<"subnet-fingerprint-overlap", "asn-path-fingerprint-cluster",
      "ua-reputation", "single-ip-burst">>

\* A strategy that has nothing to say of a group (score returns null).
NoScore == << >>

---------------------------------------------------------------------------
(* observe: does the strategy take this request, and under which key *)

SpraysFrom(r) == r.threat /\ ~r.is_tor

InDominantCluster_AnyThreat(metrics, r) ==     \* mutant: no membership filter
    r.threat /\ metrics.clusters[r.asn] # NoCluster
InDominantCluster(metrics, r) ==
    r.threat /\ r.ip \in metrics.clusters[r.asn].ips

Observes(strategy, metrics, r) ==
    CASE strategy = "subnet-fingerprint-overlap" -> SpraysFrom(r)
      [] strategy = "asn-path-fingerprint-cluster" -> InDominantCluster(metrics, r)
      [] strategy = "ua-reputation" -> r.user_agent \in ToolUas
      [] strategy = "single-ip-burst" -> r.threat

KeyOf(strategy, r) ==
    CASE strategy = "subnet-fingerprint-overlap" -> SubnetOf[r.ip]
      [] strategy = "asn-path-fingerprint-cluster" -> r.asn
      [] OTHER -> r.ip

\* groupObservationsByKey: the groups in the order their keys first appeared.
GroupsOf(strategy, metrics) ==
    LET requests == metrics.requests
        observed == {i \in DOMAIN requests : Observes(strategy, metrics, requests[i])}
        key == [i \in DOMAIN requests |-> KeyOf(strategy, requests[i])]
        starts == Ascending(FirstAt(observed, key))
    IN  [k \in DOMAIN starts |->
            EntriesAt(requests, {i \in observed : key[i] = key[starts[k]]})]

---------------------------------------------------------------------------
(* score: the figures of a group, or nothing *)

\* The ASN is the first request's; the IPs and the paths are the group's.
SprayFigures(metrics, group) ==
    LET asn == group[1].asn
        ips == Cardinality(IpsOf(ToSet(group)))
        attackPaths == Cardinality({p \in RoutesOf(ToSet(group)) : isAttackPath(p)})
        paths == Cardinality(RoutesOf(ToSet(group))) IN
    IF asn = NoAsn \/ ips < MinClusterIps \/ attackPaths < 1 \/ paths < 2 THEN NoScore
    ELSE << per_asn_subnet_cohesion(metrics.requests, asn, SubnetOf[group[1].ip]),
            ips, attackPaths, paths >>

ClusterFigures(metrics, group) ==
    LET cluster == metrics.clusters[group[1].asn]
        rotation == MapThenSumSet(LAMBDA ip : per_ip_useragent_diversity(metrics.requests, ip), cluster.ips)
    IN
    IF ipCount(cluster) < MinClusterIps \/ cluster.pathUnionSize < 2 THEN NoScore
    ELSE <<ipCount(cluster), cluster.pathUnionSize, rotation \div ipCount(cluster)>>

\* The tools' user agents in the order they first appeared; every request of the
\* group carries one, so the list is never empty.
ToolFigures(group) ==
    LET agent == [i \in DOMAIN group |-> group[i].user_agent]
        starts == Ascending(FirstAt(DOMAIN group, agent))
    IN  <<[k \in DOMAIN starts |-> agent[starts[k]]], Len(group)>>

\* A burst stands down while its /24, or its ASN, is marked.  The ASN's marker
\* has no producer among the strategies.
BurstFigures(metrics, group, marked) ==
    LET ip == group[1].ip
        asn == group[1].asn
    IN
    IF \/ Marker("asn_subnet", SubnetOf[ip], "seen_in_subnet_spray") \in marked
       \/ asn # NoAsn /\ Marker("asn", asn, "seen_in_tor_distributed_scan") \in marked
    THEN NoScore
    ELSE << per_ip_volume(metrics.requests, ip), per_ip_unique_paths(metrics.requests, ip),
            per_ip_time_burst_sec(metrics.requests, ip) >>

\* marked: the markers the strategy's snapshot has.
FiguresOf(strategy, metrics, group, marked) ==
    CASE strategy = "subnet-fingerprint-overlap" -> SprayFigures(metrics, group)
      [] strategy = "asn-path-fingerprint-cluster" -> ClusterFigures(metrics, group)
      [] strategy = "ua-reputation" -> ToolFigures(group)
      [] strategy = "single-ip-burst" -> BurstFigures(metrics, group, marked)

---------------------------------------------------------------------------

\* "asn-path-fingerprint-cluster|asn=..|fp=..", "<strategy>|subnet=.." or
\* "<strategy>|ip=..".
identifier_from(strategy, metrics, group) ==
    << strategy, KeyOf(strategy, group[1]),
       IF strategy = "asn-path-fingerprint-cluster"
       THEN metrics.clusters[group[1].asn].fingerprint ELSE {} >>

\* markers_observed: what a strategy that fired leaves on the group's key.
markers_observed(strategy) ==
    IF strategy = "subnet-fingerprint-overlap"
    THEN {[scope_type |-> "asn_subnet", marker_name |-> "seen_in_subnet_spray"]}
    ELSE {}
===========================================================================
