---------------------------- MODULE MCTsdbQuery ----------------------------
EXTENDS MCTsdb, TsdbQuery

\* The bytes of a log that happen to look like the index of a stored log.
LogBytes == [st |-> WRITE, time |-> 1]
=============================================================================
