----------------------------- MODULE MCLifecycle -----------------------------
\* Lifecycle with small sets of sources and cron goroutines (see the cfg files).
EXTENDS Lifecycle
=============================================================================
