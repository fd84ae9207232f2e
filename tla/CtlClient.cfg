SPECIFICATION FairSpec
CONSTANTS
  Clients = {c1, c2}
  Names = {n1}
  Infos = {i1}
  None = None
INVARIANTS TypeOK ReportWasTrue NoPhantomClose
PROPERTY CommandEnds
CHECK_DEADLOCK FALSE
