------------------------ MODULE MCAsyncSubscription ------------------------
\* Instances of AsyncSubscription for TLC: a subscription and its clone.
EXTENDS AsyncSubscription, TLC

CONSTANTS r1, r2

MCReader == {r1, r2}
=============================================================================
