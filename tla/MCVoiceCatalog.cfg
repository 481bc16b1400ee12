CONSTANTS
  u1 = u1  u2 = u2  v1 = v1  v2 = v2  s1 = s1  s2 = s2  r1 = r1  r2 = r2
  Users = {u1, u2}
  SystemUser = SystemUser
  NoVoice = NoVoice
  Voices = {v1, v2, s1, s2}
  Owner <- VoiceOwner
  Existing = {v1, s1}
  Requests = {r1, r2}
  Kinds = {"playback", "list", "create", "update", "delete", "seed", "search"}
  MaxActive = 3
  MaxVersion = 4
  FaultSets = {{"db", "s3"}, {"db", "module"}, {"db", "s3", "redis", "crash"}}
SPECIFICATION FairSpec
CHECK_DEADLOCK FALSE
INVARIANTS TypeOK NoOrphanAudio DocsCarryOwner SerialInSync
PROPERTY StaleEntriesDie
