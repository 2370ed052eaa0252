\* The finding: a transcript made of another frame.
SPECIFICATION VoiceSpec
CONSTANTS
  Nobody = Nobody
  Setup = Setup
  s1 = s1
  s2 = s2
  t1 = t1
  w1 = w1
  Requests = {s1, s2, t1, w1}
  Kind <- MCKind
  Scenes <- MCScenes
  Engines = {kokoro, qwen}
  Default = kokoro
  MaxChunks = 1
  MaxVoices = 1
INVARIANT
  TranscriptIsOwn
CHECK_DEADLOCK FALSE
