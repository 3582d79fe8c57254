SPECIFICATION Spec
CONSTANTS
  Threads = {t1}
  Faults = {"crash"}
  MaxEvents = 3
  MaxCrashes = 1
INVARIANTS
  MirrorVerifies
CHECK_DEADLOCK FALSE
