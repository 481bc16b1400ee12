CONSTANTS
  j1 = j1  j2 = j2  w1 = w1  w2 = w2
  Jobs = {j1, j2}
  Workers = {w1, w2}
  QueueCap = 1
  NoJob = NoJob
  Faults = {"db", "publish", "reply", "loss", "tts", "upload", "crash", "cancel"}
SPECIFICATION Spec
SYMMETRY Sym
CHECK_DEADLOCK FALSE
INVARIANTS TypeOK CompletedHasAudio EventAfterRow RowBeforeMessage
PROPERTIES OncePerReplica NeverReopened
