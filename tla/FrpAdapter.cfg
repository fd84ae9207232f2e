SPECIFICATION FairSpec
CONSTANTS
  Starters = {c1, c2}
  Stoppers = {s1}
  Requests = {r1}
  Configs <- AdapterConfigs
  CounterMax = 0
INVARIANTS TypeOK SingleSupervisor AtMostOneProcess RetryBudget
   StopNilMeansQuiet ConnectedIsSupervised
PROPERTIES LifecycleSpec CancelTerminates ProcessReaped RestartsOrReturns
