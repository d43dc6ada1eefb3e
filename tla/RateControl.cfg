CONSTANTS
  NBuf = 2  FrameLen = 1  WordSize = 8
  CountArgs = {0, 2, 5}
  Garbage <- MCGarbage
SPECIFICATION Spec
INVARIANTS TypeOK CountIsAPromise StopsAtCount SpeedSurvivesWrap
