CONSTANTS
  Waiter = {t1, t2}
SPECIFICATION Spec
INVARIANTS TypeOK NoLostSignal OneLateCall NoLostRing
PROPERTIES ImplementsGate DestroyedExits EnabledRuns WaitersResume
CHECK_DEADLOCK FALSE
