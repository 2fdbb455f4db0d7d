------------------------------ MODULE MCJudge ------------------------------
(* The judge on one sample: two reference runs of two turns, a read, a command whose *)
(* output cannot be derived and a quiet one, two providers before the fallback.      *)
EXTENDS Judge, TLC

CONSTANTS r1, r2, p1, p2, writer

MCRuns      == {r1, r2}
MCProducers == {p1, p2}
MCSlots     == MCRuns \cup MCProducers \cup {writer} \cup {"king", "challenger"}
Interchangeable == Permutations(MCRuns) \cup Permutations(MCProducers)
=============================================================================
