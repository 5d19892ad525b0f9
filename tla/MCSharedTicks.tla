--------------------------- MODULE MCSharedTicks ---------------------------
\* Instances of SharedTicks for TLC: two threads on one handle.
EXTENDS SharedTicks, TLC

CONSTANTS t1, t2

MCThread == {t1, t2}
=============================================================================
