SPECIFICATION FairSpec
CONSTANTS
  w1 = w1  w2 = w2  p1 = p1  t1 = t1  k1 = k1
  Started <- StartedC
  Run = {w1, w2, p1}
  JobOf <- JobOfC
  PoolMax = 1
  Tx = {t1}
  MaxRetries = 2
  Timeout = 1
  Task = {k1}
  Retention = 1
  Threshold = 3
  Window = 2
  Channel = {"slack", "email"}
INVARIANTS FailedOnlyAfterRetries SpikeIsAlerted
PROPERTIES StalledIsNoticed OldFailedGo ChannelsTried
CHECK_DEADLOCK FALSE
