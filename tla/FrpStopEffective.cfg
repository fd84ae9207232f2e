SPECIFICATION FairSpec
CONSTANTS
  Starters = {c1}
  Stoppers = {s1}
  Requests = {}
  Configs <- TwoRetriesConfigs
  CounterMax = 0
PROPERTY StopIsEffective
