SPECIFICATION Spec
CONSTANTS
  entryA = entryA  entryB = entryB  entryC = entryC  entryEmpty = entryEmpty
  Entries = {entryA, entryB, entryC, entryEmpty}
  LengthOf <- Lengths
  MaxQueueLength = 3
  MayFail = {"CoInitialize", "SetEvent", "Wait", "ReportEvent", "Deregister"}
INVARIANTS NothingLost NoLostWakeup DrainedAtClose LengthTracked
PROPERTIES ImplementsEventLog
CHECK_DEADLOCK FALSE
