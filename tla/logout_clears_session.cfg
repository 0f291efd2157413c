SPECIFICATION SSpec
CONSTANTS
  Tabs = {t1, t2}
  MaxCalls = 2
  MaxLosses = 1
INVARIANTS LogoutClearsSession
CHECK_DEADLOCK FALSE
