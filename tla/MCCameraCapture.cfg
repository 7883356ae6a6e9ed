SPECIFICATION FairSpec
CONSTANTS
  MediaDevices <- MCMediaDevices
  Asked = 1
  Sizes = {1, 2}
  StartupTicks = 3
  StallTicks = 2
  MaxFrames = 2
  MaxResizes = 2
INVARIANTS CaptureConsistent StallEndsProcess
PROPERTIES EachImageOnce NewestIsPublished
CHECK_DEADLOCK FALSE
