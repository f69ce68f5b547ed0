SPECIFICATION CacheSpec
CONSTANTS
  Nothing = Nothing
  Earlier = Earlier
  Callers = {c1, c2}
  TierChoices = {{"local", "remote"}}
  MaxLapses = 0
INVARIANT LoaderKeepsDel
CHECK_DEADLOCK FALSE
