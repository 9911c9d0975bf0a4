SPECIFICATION Spec
CONSTANTS
  Base = 4
  HdrLen = 2
  MaxDataLen = 4
  SendCap = 2
  RecvCap = 5
  Tag <- MCTag
  Sender <- MCSender
  BodyLen = {0, 1, 3, 4}
  MaxFrames = 3
INVARIANTS TypeOK HeaderSurvives FramesArriveIntact
PROPERTIES IsFrameQueue WholeFramesArrive SenderNotHeldUp EndIsNoticed
CHECK_DEADLOCK FALSE
