SPECIFICATION Spec
CONSTANTS
  Threads = {t1, t2}
  Requests <- AnyRequests
  MaxCount = 3
INVARIANTS TypeOK CountCoversTracked TrackedWasAllowed
PROPERTY LeakOnlyByDuplicate
SYMMETRY Symmetry
