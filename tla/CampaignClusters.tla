-------------------------- MODULE CampaignClusters --------------------------
(***************************************************************************)
(* The clusters of a mining report (tools/mine-export.ts): the replayed    *)
(* rows of a dump, in id order, grouped by address, by /24 and by ASN, and *)
(* of each group what the miners read.  The lists of samples and their     *)
(* cuts are left out; the counts beside them are not.                      *)
(***************************************************************************)
EXTENDS Integers, Sequences, FiniteSets

CONSTANTS
    Subnet24,       \* IPv4 address -> its /24
    MinRequests,    \* 10: requests of a group that is reported,
    MinIpPaths,     \* 5: or the paths of an address,
    MinSubnetIps, MinSubnetPaths,   \* 2, 3: the addresses and paths of a /24,
    MinAsnIps, MinAsnPaths          \* 3, 3: and of an ASN

Levels == {"none", "low", "medium", "high"}

\* No ip_location, no ASN in it, or no name of it; and no time yet.
Unknown == "null"
NeverSeen == -1

ASSUME ClusterAssumption ==
    /\ {MinRequests, MinIpPaths, MinSubnetIps, MinSubnetPaths, MinAsnIps, MinAsnPaths}
           \subseteq Nat \ {0}
    /\ \A ip \in DOMAIN Subnet24 : Subnet24[ip] # Unknown

makeCluster ==
    [ request_count |-> 0, ips |-> {}, paths |-> {}, methods |-> {}, tor_count |-> 0,
      threat_levels |-> [level \in Levels |-> 0],
      first_seen |-> NeverSeen, last_seen |-> NeverSeen ]

FirstSeen_InOrder(seen, at) == IF seen = NeverSeen THEN at ELSE seen      \* mutant
FirstSeen(seen, at) == IF seen = NeverSeen \/ at < seen THEN at ELSE seen

LastSeen(seen, at) == IF seen = NeverSeen \/ at > seen THEN at ELSE seen

feedCluster(cluster, row) ==
    [ request_count |-> cluster.request_count + 1,
      ips |-> cluster.ips \cup {row.ip},
      paths |-> cluster.paths \cup {row.url},
      methods |-> cluster.methods \cup {row.method},
      tor_count |-> cluster.tor_count + IF row.is_tor THEN 1 ELSE 0,
      threat_levels |-> [cluster.threat_levels EXCEPT ![row.current_level] = @ + 1],
      first_seen |-> FirstSeen(cluster.first_seen, row.created_at),
      last_seen |-> LastSeen(cluster.last_seen, row.created_at) ]

\* The groups a row is fed to; IPv6 has no /24, and the name of an ASN is part
\* of its key.
IpKey(row) == row.ip
SubnetKey(row) == IF row.ip \in DOMAIN Subnet24 THEN Subnet24[row.ip] ELSE Unknown
AsnKey(row) == <<row.asn, row.org>>

\* The cluster of some of the rows: they are fed to it in one pass.
ClusterOf(rows, positions) ==
    LET fed[k \in 0..Len(rows)] ==
            IF k = 0 THEN makeCluster
            ELSE IF k \in positions THEN feedCluster(fed[k - 1], rows[k]) ELSE fed[k - 1]
    IN  fed[Len(rows)]

ClusterBy(Key(_), rows, positions) ==
    [ key \in {Key(rows[k]) : k \in positions} |->
        ClusterOf(rows, {k \in positions : Key(rows[k]) = key}) ]

Reported(clusters, Worth(_)) ==
    [key \in {k \in DOMAIN clusters : Worth(clusters[k])} |-> clusters[key]]

Busy(cluster) == cluster.request_count >= MinRequests
Ips(cluster) == Cardinality(cluster.ips)
Paths(cluster) == Cardinality(cluster.paths)

IpWorth(cluster) == Busy(cluster) \/ Paths(cluster) >= MinIpPaths
SubnetWorth(cluster) ==
    Ips(cluster) >= MinSubnetIps /\ (Busy(cluster) \/ Paths(cluster) >= MinSubnetPaths)
AsnWorth(cluster) == Ips(cluster) >= MinAsnIps /\ Paths(cluster) >= MinAsnPaths

buildClusters(rows) ==
    LET inSubnets == {k \in DOMAIN rows : rows[k].ip \in DOMAIN Subnet24}
        located == {k \in DOMAIN rows : rows[k].asn # Unknown}
        TimeOf(k) == IF k \in DOMAIN rows THEN rows[k].created_at ELSE NeverSeen
    IN  [ time_range |-> [first |-> TimeOf(1), last |-> TimeOf(Len(rows))],
          by_ip |-> Reported(ClusterBy(IpKey, rows, DOMAIN rows), IpWorth),
          by_subnet |-> Reported(ClusterBy(SubnetKey, rows, inSubnets), SubnetWorth),
          by_asn |-> Reported(ClusterBy(AsnKey, rows, located), AsnWorth) ]

NoClusters == buildClusters(<< >>)
=============================================================================
