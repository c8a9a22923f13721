SPECIFICATION Spec
CONSTANTS
  t1 = t1  t2 = t2  f1 = f1  f2 = f2  f3 = f3
  ka = ka  kb = kb  m1 = m1  m2 = m2
  NoThread = NoThread  NoFunction = NoFunction  NoBody = NoBody
  Baseline = Baseline  Raw = Raw
  EncodeMaps <- MCEncodeMaps
  BaselineMaps <- MCBaselineMaps
  RawMaps <- MCRawMaps
  Threads <- TwoThreads
  Functions = {f1, f2, f3}
  Tokens = {ka, kb}
  TokenOf <- Generic
  Dynamic = {kb}
  Methods <- TwoMethods
  UserBufferEnabled = TRUE
  MaxWork = 2
  MaxRawMaps = 1
  MaxRawBodies <- RawBodies
SYMMETRY Symmetric
INVARIANTS InfosTracked OnePass OriginalKept MapComposes MarkersGrow
PROPERTIES AllOrNothing
CHECK_DEADLOCK FALSE
