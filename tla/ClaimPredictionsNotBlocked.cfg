CONSTANTS
  Trainers = {t1, t2}
  Handlers = {h1, h2}
  Logs = {easy, odd, rare}
  Easy = {easy}
  Nobody = Nobody
  NoLog = NoLog
  CacheMax = 2
SPECIFICATION Spec
INVARIANT PredictionsNotBlocked
CHECK_DEADLOCK FALSE
