---------------------------- MODULE MCStepRetry -----------------------------
\* Errors of every name, some with a message that looks transient.
EXTENDS StepRetry

CONSTANTS unrecoverable, refused, busy, broken, timeout

MCErrors == {unrecoverable, refused, busy, broken, timeout}
=============================================================================
