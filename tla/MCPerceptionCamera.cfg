SPECIFICATION FairSpec
CONSTANTS
  Hefs = {"yolo_s", "yolo_m"}
  FirstHef = "yolo_s"
  Backends = {"direct", "gst", "stub"}
  QueueSize = 2
  MaxFrames = 3
  MaxRequests = 1
INVARIANT PipelineConsistent
PROPERTIES EngineStaysUnderACall DetectionsInOrder NewestIsTaken NodeReturns
CHECK_DEADLOCK FALSE
