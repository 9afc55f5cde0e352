-------------------------- MODULE MCExtensionTasks --------------------------
\* Two starts of a task that claims a key.
EXTENDS ExtensionTasks

CONSTANTS t1, k1

MCKeyOf == [t \in Tasks |-> k1]
MCMaxLogs == [t \in Tasks |-> IF t = t1 THEN 2 ELSE 0]
=============================================================================
