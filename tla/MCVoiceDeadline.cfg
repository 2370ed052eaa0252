\* A recognition that no deadline ends.
SPECIFICATION VoiceFairSpec
CONSTANTS
  Nobody = Nobody
  Setup = Setup
  s1 = s1
  s2 = s2
  t1 = t1
  w1 = w1
  Requests = {s1, s2, t1, w1}
  Kind <- MCKind
  Scenes <- MCScenes
  Engines = {kokoro, qwen}
  Default = kokoro
  MaxChunks = 1
  MaxVoices = 1
PROPERTY
  TranscribeReturns
CHECK_DEADLOCK FALSE
