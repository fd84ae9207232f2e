SPECIFICATION FairSpec
CONSTANTS
  Callers = {c1, c2}
  Names = {n1}
  Infos = {i1, i2}
  None = None
  Nobody = Nobody
INVARIANTS TypeOK DialsKnownTarget
PROPERTIES RegistrySpec CallReturns
