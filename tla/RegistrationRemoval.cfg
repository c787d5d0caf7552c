\* One client, registered, materialized, deployed and removed again.
SPECIFICATION Spec
CONSTANTS
  Tokens = {t1}
  Ceremonies = {c1}
  None = None
INVARIANT RemovalTakesEffect
CHECK_DEADLOCK FALSE
