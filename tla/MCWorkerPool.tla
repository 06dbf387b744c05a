----------------------------- MODULE MCWorkerPool -----------------------------
EXTENDS WorkerPool
=============================================================================
