------------------------------ MODULE GpuUse ------------------------------
(***************************************************************************)
(* What the speech hand-off promises about the GPU, seen from outside:     *)
(* token generation and speech synthesis take turns.  A decode step and a  *)
(* synthesis never run at the same time, and at most one synthesis runs.   *)
(***************************************************************************)
CONSTANT Speaks

VARIABLES decoding,   \* a decode step is running
          speaking    \* the speak requests being synthesized

TypeOK == decoding \in BOOLEAN /\ speaking \in SUBSET Speaks

Init == decoding = FALSE /\ speaking = {}

BeginStep ==
    /\ ~decoding /\ speaking = {}
    /\ decoding' = TRUE
    /\ UNCHANGED speaking

EndStep ==
    /\ decoding
    /\ decoding' = FALSE
    /\ UNCHANGED speaking

BeginSpeech(s) ==
    /\ ~decoding /\ speaking = {}
    /\ speaking' = {s}
    /\ UNCHANGED decoding

EndSpeech ==
    /\ speaking # {}
    /\ speaking' = {}
    /\ UNCHANGED decoding

Next ==
    \/ BeginStep \/ EndStep \/ EndSpeech
    \/ \E s \in Speaks : BeginSpeech(s)

Spec == Init /\ [][Next]_<<decoding, speaking>>
===========================================================================
