SPECIFICATION Spec
CONSTANTS
  Callers = {c1}
  Names = {n1}
  Infos = {i1}
  None = None
  Nobody = Nobody
INVARIANT RegisteredIsKnown
