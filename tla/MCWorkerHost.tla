---------------------------- MODULE MCWorkerHost ----------------------------
\* Small hosts for TLC: calls and rebuilds of a single import.
EXTENDS WorkerHost

CONSTANTS i1

MCImportOf == [c \in Calls \cup Ensures |-> i1]
=============================================================================
