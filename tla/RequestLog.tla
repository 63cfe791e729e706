----------------------------- MODULE RequestLog -----------------------------
(***************************************************************************)
(* logs_requests (migration 001): the table of requests the backtest, the  *)
(* replay check and the tuning harness read, each with its own queries.    *)
(***************************************************************************)
EXTENDS Naturals, FiniteSets

VARIABLE log        \* logs_requests: a set of requests

\* A table is finite, created_at is a time, and id is the primary key.
IsATable(requests) ==
    /\ IsFiniteSet(requests)
    /\ \A r \in requests : r.created_at \in Nat
    /\ \A r, s \in requests : r.id = s.id => r = s
=============================================================================
