---------------------------- MODULE MCWorkerRun ----------------------------
\* Small instances of WorkerRun for TLC.
EXTENDS WorkerRun

=============================================================================
