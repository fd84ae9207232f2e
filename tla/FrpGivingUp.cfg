SPECIFICATION FairSpec
CONSTANTS
  Starters = {c1}
  Stoppers = {}
  Requests = {}
  Configs <- OneRetryConfigs
  CounterMax = 0
PROPERTY GivingUpReturns
