---------------------------- MODULE MCModelHosts ----------------------------
EXTENDS ModelHosts

CONSTANTS r1, f1, f2, t1, t2, m1, m2

MCRefs    == {r1}
MCFiles   == {f1, f2}
MCThreads == {t1, t2}
MCModels  == {m1, m2}
=============================================================================
