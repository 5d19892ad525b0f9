------------------------ MODULE MCHistoricalRequest ------------------------
\* An instance of HistoricalRequest for TLC: one request and its session.
EXTENDS HistoricalRequest, TLC

CONSTANT h1

OneRequest == {h1}
=============================================================================
