CONSTANTS
  u1 = u1  u2 = u2  v1 = v1  v2 = v2  s1 = s1  s2 = s2  r1 = r1  r2 = r2
  Users = {u1}
  SystemUser = SystemUser
  NoVoice = NoVoice
  Voices = {v1, v2, s1, s2}
  Owner <- VoiceOwner
  Existing = {v1, s1}
  Requests = {r1, r2}
  Kinds = {"create", "list"}
  MaxActive = 2
  MaxVersion = 2
  FaultSets = {{}}
SPECIFICATION Spec
SYMMETRY Sym
CHECK_DEADLOCK FALSE
INVARIANT ListsIncludeCreated
