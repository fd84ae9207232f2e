SPECIFICATION Spec
CONSTANTS
  Starters = {c1}
  Stoppers = {}
  Requests = {}
  Configs <- ZeroConfigs
  CounterMax = 0
INVARIANT UnlimitedRetries
