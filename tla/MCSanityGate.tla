---------------------------- MODULE MCSanityGate ----------------------------
(* Small instances of SanityGate for TLC. *)
EXTENDS SanityGate, TLC

CONSTANTS s1, s2, m1, m2

Two == 1..2
One == 1..1

\* Neither samples nor models are told apart by the dispatcher or the host.
Symmetry == Permutations(Samples) \cup Permutations(Models)
=============================================================================
