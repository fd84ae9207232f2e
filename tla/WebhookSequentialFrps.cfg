SPECIFICATION SequentialSpec
CONSTANTS
  Threads = {t1, t2, t3}
  Requests <- SequentialRequests
  MaxCount = 3
INVARIANTS TrackingAgrees CountExact UntrackedDuringEvent
SYMMETRY Symmetry
