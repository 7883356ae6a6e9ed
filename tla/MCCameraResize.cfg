SPECIFICATION Spec
CONSTANTS
  MediaDevices <- MCMediaDevices
  Asked = 1
  Sizes = {1, 2}
  StartupTicks = 3
  StallTicks = 2
  MaxFrames = 2
  MaxResizes = 1
INVARIANTS DoesNotHang
CHECK_DEADLOCK FALSE
