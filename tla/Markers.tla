------------------------------ MODULE Markers ------------------------------
(***************************************************************************)
(* Markers (detector/MarkerSnapshot.ts): a strategy that fires leaves one  *)
(* on an address, an ASN or a /24, and later strategies read them from a   *)
(* snapshot as of some instant.  Two stores hand out snapshots: the one in *)
(* the memory of a backtest, and the table logs_flag_tracker, which        *)
(* detector/IpAsnMarkerTracker.ts reads and nothing writes yet.            *)
(***************************************************************************)
EXTENDS Integers, FiniteSets

\* The key `${scope_type}:${scope_value}:${marker_name}`.
Marker(scope_type, scope_value, marker_name) == <<scope_type, scope_value, marker_name>>

\* In memory: marker -> when it expires.
NoMarkers == [key \in {} |-> 0]

\* recordMarker, for each of these keys.
recordMarkers(markers, keys, expiresAtMs) ==
    [k \in DOMAIN markers \cup keys |-> IF k \in keys THEN expiresAtMs ELSE markers[k]]

\* A copy of everything, expired markers included.
memorySnapshot(markers, asOf) == [markers |-> markers, asOfMs |-> asOf]

---------------------------------------------------------------------------
(* MarkerSnapshot *)

hasMarker(snapshot, key) ==
    key \in DOMAIN snapshot.markers /\ snapshot.markers[key] > snapshot.asOfMs

markerTtl(snapshot, key) ==
    IF key \notin DOMAIN snapshot.markers THEN 0
    ELSE LET remaining == snapshot.markers[key] - snapshot.asOfMs
         IN  IF remaining > 0 THEN remaining ELSE 0

---------------------------------------------------------------------------
(* logs_flag_tracker *)

\* Its rows when these markers are in it: one per scope, value and name.
TableOf(markers) ==
    { [scope_type |-> key[1], scope_value |-> key[2], flag_name |-> key[3],
       expires_at |-> markers[key]] : key \in DOMAIN markers }

\* The scopes that are asked for, each with values of its own.
InScope_Swapped(row, filter) ==                \* mutant: $3 and $4 exchanged
    \/ row.scope_type = "ip" /\ row.scope_value \in filter.ips
    \/ row.scope_type = "asn" /\ row.scope_value \in filter.subnets
    \/ row.scope_type = "asn_subnet" /\ row.scope_value \in filter.asns
InScope(row, filter) ==
    \/ row.scope_type = "ip" /\ row.scope_value \in filter.ips
    \/ row.scope_type = "asn" /\ row.scope_value \in filter.asns
    \/ row.scope_type = "asn_subnet" /\ row.scope_value \in filter.subnets

trackerSnapshot(table, filter, asOf) ==
    LET found == {row \in table : row.expires_at > asOf /\ InScope(row, filter)}
        KeyOfRow(row) == Marker(row.scope_type, row.scope_value, row.flag_name)
    IN  [ markers |-> [key \in {KeyOfRow(row) : row \in found} |->
                          (CHOOSE row \in found : KeyOfRow(row) = key).expires_at],
          asOfMs |-> asOf ]
===========================================================================
