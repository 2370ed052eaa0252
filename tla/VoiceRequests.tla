---------------------------- MODULE VoiceRequests ----------------------------
(***************************************************************************)
(* What the two halves of the assistant's voice share (server.py: _speech, *)
(* _read_aloud, _voice, _prewarm_run): the requests, how far the thread of *)
(* each got, and the cancel event that each creates.                       *)
(***************************************************************************)
EXTENDS Naturals, Sequences, FiniteSets

CONSTANTS Nobody,
          Requests,
          Kind          \* of each: "stt", "tts", or "warm" for the pre-warm

ASSUME VoiceAssumption ==
  /\ Nobody \notin Requests
  /\ Kind \in [Requests -> {"stt", "tts", "warm"}]

VARIABLES step,       \* where each request's thread is
          cancels,    \* requests whose cancel event is set
          lost        \* history: a worker outlived SIGTERM and SIGKILL

requestVars == <<step, cancels, lost>>

Goes(r, from, to) == step[r] = from /\ step' = [step EXCEPT ![r] = to]
\* A worker is told to end, terminated and killed.  It is dead then or, stuck in
\* the kernel, it is not.
StopConfirmed == UNCHANGED lost
StopUnconfirmed == lost' = TRUE
=============================================================================
