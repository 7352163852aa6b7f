---------------------------- MODULE MCLogWriter ----------------------------
\* Instances of LogWriter for TLC: a few rows, of which one may be refused.
EXTENDS LogWriter

CONSTANTS a, b, c, d
=============================================================================
