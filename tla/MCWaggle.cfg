CONSTANTS
  XDance <- DanceOfX
  YDance <- DanceOfY
  MinFrames = 5
  ObservedFrames = 15
  FrameLimit = 20
  Threshold = 42
  FirstAnswers = {TRUE, FALSE}
  MaxDancerSkip = 1
  MaxObserverSkip = 2
SPECIFICATION FairSpec
INVARIANTS WaggleInv ReferenceFirst
PROPERTIES RecitalHolds DanceLearned DanceFinished
