-------------------------- MODULE MCTaskScheduler --------------------------
EXTENDS TaskScheduler
\* The second task may wait for the first, never the other way round.
MCWaitsFor == {<<2, 1>>}
=============================================================================
