----------------------------- MODULE MCDra7Rng -----------------------------
EXTENDS Dra7Rng

CONSTANTS t1, t2, f1, f2

MCThreads == {t1, t2}
MCFROs == {f1, f2}

=============================================================================
