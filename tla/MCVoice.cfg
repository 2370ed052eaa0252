\* Two recordings, or a sentence and the pre-warm; one setup, and the end of the server.
SPECIFICATION VoiceFairSpec
CONSTANTS
  Nobody = Nobody
  Setup = Setup
  s1 = s1
  s2 = s2
  t1 = t1
  w1 = w1
  Requests = {s1, s2, t1, w1}
  Kind <- MCKind
  Scenes <- MCScenes
  Engines = {kokoro, qwen}
  Default = kokoro
  MaxChunks = 1
  MaxVoices = 1
INVARIANTS
  QuietVoice
  SetupAlone
  ClosedForGood
PROPERTIES
  OwnTranscript
  SpeakReturns
  CancelledEnds
CHECK_DEADLOCK FALSE
