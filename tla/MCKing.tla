------------------------------- MODULE MCKing -------------------------------
(* The king's API and its portal: one person with two browsers and two clients, of *)
(* which any MaxBusy have a request under way at a time.                            *)
EXTENDS KingApi, TLC

CONSTANTS a1, n1, n2, n3, b1, b2, c1, c2, MaxBusy

MCAccounts == {a1}
MCKeys     == 1..3
MCNames    == {n1, n2, n3}
MCBrowsers == {b1, b2}
MCClients  == {c1, c2}
Interchangeable == Permutations(MCBrowsers) \cup Permutations(MCClients) \cup Permutations(MCNames)

FewAtOnce == Cardinality({b \in Browsers : form[b].pc # "idle"})
             + Cardinality({c \in Clients : req[c].pc # "idle"}) <= MaxBusy
=============================================================================
