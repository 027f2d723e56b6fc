SPECIFICATION Spec
INVARIANTS
  BadResponseIsTheLogs
