----------------------------- MODULE SpoolNames -----------------------------
(***************************************************************************)
(* Listings of the spool directory.  A reading's file is named by its      *)
(* zero-padded sequence number, so the sorted listing is in numeric order  *)
(* and a set of numbers stands for it: position i of the listing is the    *)
(* element with i smaller ones.                                            *)
(***************************************************************************)
EXTENDS Naturals, FiniteSets

CONSTANTS
    Max,        \* Spool.Max (DefaultMax is 500): how many readings may be held
    MaxBatch    \* agent.MaxBatch (60): how many readings one Take may return

ASSUME BoundsAssumption == Max \in Nat \ {0} /\ MaxBatch \in Nat \ {0}

Newer(S, n) == {m \in S : m > n}

\* names[:k] of a listing.
Oldest(S, k) == {n \in S : Cardinality({m \in S : m < n}) < k}

ExcessOfNewest(S, k) == {n \in S : Cardinality({m \in S : m < n}) >= k}   \* mutant of Excess

\* names[:len(names)-k]: those with k or more names after them.
Excess(S, k) == {n \in S : Cardinality(Newer(S, n)) >= k}

SurplusPlusOne(S) == Excess(S, Max + 1)                                   \* mutant of Surplus

\* What trim removes.
Surplus(S) == Excess(S, Max)

=============================================================================
