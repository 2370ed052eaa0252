------------------------------ MODULE MCVoice ------------------------------
(***************************************************************************)
(* Instances of Voice for TLC: two recordings, one sentence to read aloud  *)
(* and the pre-warm.                                                       *)
(***************************************************************************)
EXTENDS Voice, TLC

CONSTANTS s1, s2, t1, w1

MCKind == s1 :> "stt" @@ s2 :> "stt" @@ t1 :> "tts" @@ w1 :> "warm"

\* What comes: two recordings, or a sentence besides the pre-warm.
MCScenes == {{s1, s2}, {t1, w1}}
=============================================================================
