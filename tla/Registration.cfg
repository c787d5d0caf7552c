SPECIFICATION Spec
CONSTANTS
  Tokens = {t1, t2}
  Ceremonies = {c1, c2, c3}
  None = None
INVARIANTS TypeOK ListedHasFile
PROPERTIES RegisterImplemented
CHECK_DEADLOCK FALSE
