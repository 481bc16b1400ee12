CONSTANTS
  j1 = j1  j2 = j2  w1 = w1  w2 = w2
  Jobs = {j1, j2}
  Workers = {w1}
  QueueCap = 2
  NoJob = NoJob
  Faults = {"tts", "upload", "publish", "reply", "loss", "cancel"}
SPECIFICATION FairSpec
CHECK_DEADLOCK FALSE
PROPERTIES HeldJobEnds ClientSeesEnd ImplementsLifecycle
INVARIANT SeenIsFinal
