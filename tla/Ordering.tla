----------------------------- MODULE Ordering -----------------------------
(***************************************************************************)
(* Finite sets of positions in an order: what ORDER BY, sort() and a       *)
(* filter over a list have in common.  It is stated by counting and not    *)
(* by recursion, so that it can be reasoned about.                         *)
(***************************************************************************)
EXTENDS Integers, Sequences, FiniteSets

\* The place of p among the members of S.
Rank(S, p) == Cardinality({q \in S : q <= p})

\* A function and not an operator, so that TLC evaluates S once.
ascending[S \in SUBSET Int] == [k \in 1..Cardinality(S) |-> CHOOSE p \in S : Rank(S, p) = k]

Ascending(S) == ascending[S]

\* What is left of a list when only some of its positions are kept.
EntriesAt(s, positions) ==
    LET at == Ascending(positions) IN [k \in DOMAIN at |-> s[at[k]]]

\* The positions where a key occurs for the first time: a Map that is filled from
\* the list holds its keys in their order.
FirstAt(positions, key) ==
    {i \in positions : \A j \in positions : j < i => key[j] # key[i]}

\* The positions of the highest keys first; a stable sort keeps equal keys in
\* the order of their positions.
Precedes(key, p, q) == key[p] > key[q] \/ (key[p] = key[q] /\ p < q)

\* The place of p among them.
Place(S, key, p) == Cardinality({q \in S : q = p \/ Precedes(key, q, p)})

HighestFirst(S, key) ==
    [k \in 1..Cardinality(S) |-> CHOOSE p \in S : Place(S, key, p) = k]
===========================================================================
