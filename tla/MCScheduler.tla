---------------------------- MODULE MCScheduler ----------------------------
\* Scheduler with small sets of rows and concurrent requests (see the cfg files).
EXTENDS Scheduler
=============================================================================
