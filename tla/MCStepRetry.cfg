\* Every history of errors of five kinds, up to the longest the limits allow.
SPECIFICATION Spec
CONSTANTS
  unrecoverable = unrecoverable
  refused = refused
  busy = busy
  broken = broken
  timeout = timeout
  Errors <- MCErrors
  Unrecoverable = {unrecoverable}
  Recoverable = {refused, busy}
  Transient = {busy, timeout}
  NoError = none
  HasHook = TRUE
INVARIANTS
  RetriesWhileHopeful
PROPERTIES
  JobSpec
