----------------------- MODULE MetricsWithinWindow -----------------------
(***************************************************************************)
(* The metrics computed once per window of logged requests                 *)
(* (detector/metrics/MetricsWithinWindow.ts) and the helpers under them.   *)
(* A window is the sequence of requests in the order the query returned    *)
(* them: JavaScript Maps iterate in insertion order, so that order decides *)
(* which request is a group's first and which of two equal clusters wins.  *)
(* Ratios are whole percentages, rounded down.                             *)
(***************************************************************************)
EXTENDS Integers, SequencesExt, Ordering

CONSTANTS
    AttackPaths,    \* the routes some PATH_THREATS pattern matches
    SubnetOf,       \* IPv4 address -> its /24
    NoAsn           \* ip_location without an ASN

Infinity == -1      \* Number.POSITIVE_INFINITY, kept apart from every measure

\* What ORDER BY created_at may answer: the requests of an instant in any order.
Orders(requests) ==
    LET end == Max({r.created_at : r \in requests} \cup {0})
        tied == [t \in 0..end |-> SetToSeqs({r \in requests : r.created_at = t})]
        upTo[t \in 0..end] ==
            IF t = 0 THEN tied[0]
            ELSE {earlier \o next : earlier \in upTo[t - 1], next \in tied[t]}
    IN  upTo[end]

ThreatsIn(window) == {r \in ToSet(window) : r.threat}

RoutesOf(requests) == {r.route : r \in requests}
IpsOf(requests) == {r.ip : r \in requests}
RequestsFrom(requests, ip) == {r \in requests : r.ip = ip}

isAttackPath(route) == route \in AttackPaths

---------------------------------------------------------------------------
(* Per IP *)

per_ip_volume(window, ip) == Cardinality(RequestsFrom(ToSet(window), ip))

per_ip_unique_paths(window, ip) == Cardinality(RoutesOf(RequestsFrom(ToSet(window), ip)))

per_ip_time_burst_sec(window, ip) ==
    LET times == {r.created_at : r \in RequestsFrom(ToSet(window), ip)} IN
    IF per_ip_volume(window, ip) < 2 THEN Infinity ELSE Max(times) - Min(times)

per_ip_useragent_diversity(window, ip) ==
    LET agents == {r.user_agent : r \in RequestsFrom(ToSet(window), ip)} IN
    (100 * Cardinality(agents)) \div per_ip_volume(window, ip)

---------------------------------------------------------------------------
(* Cohesion of a /24 *)

jaccard(first, second) ==
    IF first \cup second = {} THEN 0
    ELSE (100 * Cardinality(first \cap second)) \div Cardinality(first \cup second)

\* The tabs of a folder: one set of attack routes per non-Tor threat IP of the
\* ASN in the /24, empty for an IP that probed none.
TabsInFolder(window, asn, subnet) ==
    LET filed == {r \in ThreatsIn(window) :
                     ~r.is_tor /\ r.asn = asn /\ SubnetOf[r.ip] = subnet} IN
    [ip \in IpsOf(filed) |-> {route \in RoutesOf(RequestsFrom(filed, ip)) : isAttackPath(route)}]

\* Average overlap over every pair of tabs.
averageOverlap(tabs) ==
    LET pairs == kSubset(2, DOMAIN tabs)
        Overlap(pair) == LET ip == CHOOSE x \in pair : TRUE
                             other == CHOOSE x \in pair : x # ip
                         IN  jaccard(tabs[ip], tabs[other]) IN
    IF pairs = {} THEN 0
    ELSE MapThenSumSet(Overlap, pairs) \div Cardinality(pairs)

per_asn_subnet_cohesion(window, asn, subnet) ==
    averageOverlap(TabsInFolder(window, asn, subnet))

---------------------------------------------------------------------------
(* Fingerprint clusters of an ASN *)

\* The fingerprint of a route set is the set itself: SHA-1 of the sorted
\* routes stands for it.
routeSetFingerprint(routes) == routes

RouteSetOf(window, asn, ip) ==
    RoutesOf({r \in ThreatsIn(window) : r.asn = asn /\ r.ip = ip})

\* The route sets of an ASN's threat IPs, in the order they first appeared.
FingerprintsOf(window, asn) ==
    LET inAsn == {i \in DOMAIN window : window[i].threat /\ window[i].asn = asn}
        prints == [i \in inAsn |-> routeSetFingerprint(RouteSetOf(window, asn, window[i].ip))]
    IN  EntriesAt(prints, FirstAt(inAsn, prints))

Cluster(window, asn, print) ==
    [ fingerprint |-> print, pathUnionSize |-> Cardinality(print),
      ips |-> {ip \in IpsOf(ThreatsIn(window)) :
                  routeSetFingerprint(RouteSetOf(window, asn, ip)) = print} ]

NoCluster == [fingerprint |-> {}, pathUnionSize |-> 0, ips |-> {}]

ipCount(cluster) == Cardinality(cluster.ips)

\* A cluster takes over if it has two paths (one is a census) and more IPs.
Dominates_ByPaths(cluster, best) ==            \* mutant: ranks by paths
    cluster.pathUnionSize >= 2 /\ cluster.pathUnionSize > best.pathUnionSize
Dominates_Census(cluster, best) ==             \* mutant: single paths count too
    ipCount(cluster) > ipCount(best)
Dominates(cluster, best) ==
    cluster.pathUnionSize >= 2 /\ ipCount(cluster) > ipCount(best)

\* One pass over the clusters of an ASN: the first of the largest wins.
DominantCluster(window, asn) ==
    LET prints == FingerprintsOf(window, asn)
        best[k \in 0..Len(prints)] ==
            IF k = 0 THEN NoCluster
            ELSE LET cluster == Cluster(window, asn, prints[k])
                     sofar == best[k - 1] IN
                 IF Dominates(cluster, sofar) THEN cluster ELSE sofar
    IN  best[Len(prints)]

---------------------------------------------------------------------------

\* compute: the clusters once per window; the other metrics are read off its
\* requests where they are used.
compute(window) ==
    [ requests |-> window,
      clusters |-> [asn \in {r.asn : r \in ToSet(window)} |->
                       IF asn = NoAsn THEN NoCluster ELSE DominantCluster(window, asn)] ]
===========================================================================
