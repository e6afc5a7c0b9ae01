CONSTANTS
  k1 = k1
  k2 = k2
  Keys = {k1, k2}
  MaxCount = 2
  Room = 1
  MaxOther = 2
  MaxChange = 3
  MaxFrames = 2
SPECIFICATION FairSpec
INVARIANTS AckedMeansSynced NoPrematureAck ServerHoldsWritten
PROPERTIES EventuallySynced RefinesRegister
