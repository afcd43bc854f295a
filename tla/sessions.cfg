CONSTANTS
  Account = {a1}
  Token = {k1, k2}
  Tab = {t1, t2}
  NULL = NULL
SPECIFICATION Spec
INVARIANTS TypeOK
PROPERTIES EveryTabFollows SuspensionBites
