------------------------------- MODULE Voice -------------------------------
(***************************************************************************)
(* The voice half of the server (server.py: _speech, _read_aloud, _voice,  *)
(* _voice_cancel, _prewarm_run, setup, server_close) over the two workers  *)
(* of Synthesis and Recognition.                                           *)
(*                                                                         *)
(* A request holds audio_lock, and the GPU while it works; the pre-warm    *)
(* holds the GPU only.  Who else uses the GPU is SpeechYield's subject:    *)
(* here a request is granted it when it is free, or refused.               *)
(***************************************************************************)
EXTENDS Synthesis, Recognition

CONSTANTS Setup,      \* the setup thread, as a holder of the GPU
          Scenes,     \* the sets of requests that may come, one of which does
          MaxVoices   \* bound on the changes of the saved voice

ASSUME SetupAssumption == Setup \notin Requests \cup {Nobody}
ASSUME SceneAssumption == Scenes \subseteq SUBSET Requests /\ MaxVoices \in Nat

VARIABLES audioLock,  \* who holds audio_lock
          gpu,        \* who holds the GPU
          event,      \* whose cancel event audio_cancel is
          audioKind,  \* audio_kind
          aim,        \* a cancel handler compared the kinds, and sets the event next
          op, opstep, \* setup or server_close, and where it is
          missed,     \* history: sentences whose event server_close came too early for
          voices      \* changes of the voice so far

handlerVars == <<audioLock, event, audioKind, aim>>
opVars == <<op, opstep, missed>>
workerVars == <<synthVars, recogVars>>
serverVars == <<handlerVars, gpu, opVars, voices>>
voiceVars == <<requestVars, workerVars, serverVars>>

Warm == {r \in Requests : Kind[r] = "warm"}

Steps ==
  {"new", "event", "enter", "granted", "release", "leave", "over"}
    \cup {"queue", "ensure", "send", "speak", "read", "poll", "yield", "cancel",
          "abandon", "unlock"}
    \cup {"worker", "boot", "write", "writing", "await", "join", "joinBad",
          "joinBroken", "stop"}

VoiceInit ==
  /\ \E scene \in Scenes :
       step = [r \in Requests |-> IF r \in scene THEN "new" ELSE "over"]
  /\ cancels = {}
  /\ lost = FALSE
  /\ choice = Default /\ wlock = Nobody
  /\ using = [r \in Requests |-> Nobody] /\ asked = using
  /\ proc = [e \in Engines |-> "none"] /\ piped = [e \in Engines |-> Nobody]
  /\ serving = piped /\ made = [e \in Engines |-> 0]
  /\ sent = [e \in Engines |-> <<>>] /\ stopping = {}
  /\ backend \in {"ane", "gpu"} /\ current = FALSE /\ rproc = "none"
  /\ rin = <<>> /\ rout = <<>> /\ booted = FALSE
  /\ watch = [r \in Requests |-> "none"] /\ result = watch /\ raced = FALSE
  /\ audioLock = Nobody /\ gpu = Nobody /\ event = Nobody
  /\ audioKind = "none" /\ aim = FALSE
  /\ op = "none" /\ opstep = "none" /\ missed = {} /\ voices = 0

-----------------------------------------------------------------------------
\* The handlers

\* A request comes.  The end of serve_forever ends the accepting only: the thread of
\* one that still reads its body is a daemon, and gets here while the server closes.
TakeAudio(r) ==
  /\ r \notin Warm
  /\ \/ /\ audioLock = Nobody /\ audioLock' = r
        /\ Goes(r, "new", "event")
     \/ audioLock # Nobody /\ Goes(r, "new", "over") /\ UNCHANGED audioLock
  /\ UNCHANGED <<cancels, lost, workerVars, event, audioKind, aim, gpu, opVars, voices>>

NewEvent(r) ==
  /\ Goes(r, "event", "enter")
  /\ event' = r /\ audioKind' = Kind[r]
  /\ missed' = missed \cup (IF op = "close" THEN {r} \cap Speaking ELSE {})
  /\ UNCHANGED <<cancels, lost, workerVars, audioLock, aim, gpu, op, opstep, voices>>

\* _prewarm_run: once round its loop, or, when it was cancelled, out of it.
PrewarmLoop(r) ==
  /\ r \in Warm
  /\ Goes(r, "new", IF r \in cancels THEN "over" ELSE "enter")
  /\ UNCHANGED <<cancels, lost, workerVars, serverVars>>

TakeGpu(r) ==
  /\ gpu = Nobody /\ gpu' = r
  /\ Goes(r, "enter", "granted")
  /\ UNCHANGED <<cancels, lost, workerVars, handlerVars, opVars, voices>>

\* A grant refused: the pre-warm tries again later.
RefuseGpu(r) ==
  /\ gpu # Nobody
  /\ Goes(r, "enter", IF r \in Warm THEN "new" ELSE "leave")
  /\ UNCHANGED <<cancels, lost, workerVars, serverVars>>

GiveGpu(r) ==
  /\ Goes(r, "release", IF r \in Warm THEN "over" ELSE "leave")
  /\ gpu' = Nobody
  /\ UNCHANGED <<cancels, lost, workerVars, handlerVars, opVars, voices>>

\* (Its event has no reader any more, and is forgotten.)
LeaveAudio(r) ==
  /\ Goes(r, "leave", "over")
  /\ audioKind' = "none" /\ audioLock' = Nobody
  /\ cancels' = cancels \ {r}
  /\ UNCHANGED <<lost, workerVars, event, aim, gpu, opVars, voices>>

\* Whose event audio_cancel.set() sets.  (That of a request that is over is
\* forgotten.)
Reached == {r \in Requests : r = event /\ step[r] # "over"}

\* _voice_cancel reads audio_kind, and then sets whatever event is there.
CancelReads ==
  /\ ~aim /\ audioKind # "none" /\ event \notin cancels
  /\ aim' = TRUE
  /\ UNCHANGED <<requestVars, workerVars, audioLock, event, audioKind, gpu, opVars, voices>>

CancelSets ==
  /\ aim /\ aim' = FALSE
  /\ cancels' = cancels \cup Reached
  /\ UNCHANGED <<step, lost, workerVars, audioLock, event, audioKind, gpu, opVars,
                 voices>>

\* (Bounded, and of no interest when nothing more is read aloud.)
SaveVoice ==
  /\ \E r \in Speaking : step[r] # "over"
  /\ voices < MaxVoices /\ voices' = voices + 1
  /\ SetVoice
  /\ UNCHANGED <<recogVars, handlerVars, gpu, opVars>>

-----------------------------------------------------------------------------
\* setup and server_close

Op(what, from, to) == op = what /\ opstep = from /\ opstep' = to /\ UNCHANGED <<op, missed>>

SetupBegins ==
  /\ op = "none" /\ gpu = Nobody
  /\ op' = "setup" /\ opstep' = "speech" /\ gpu' = Setup
  /\ UNCHANGED <<requestVars, workerVars, handlerVars, missed, voices>>

\* Mutant of WarmToCancel: the pre-warm is not told.
NoWarmToCancel == {}

WarmToCancel == Warm

\* server_close joins a setup that runs.  The event it sets is the one it finds: a
\* sentence that makes its own later is missed.
CloseBegins ==
  /\ op = "none" \/ (op = "setup" /\ opstep = "ended")
  /\ op' = "close" /\ opstep' = "listen"
  /\ cancels' = cancels \cup Reached \cup WarmToCancel
  /\ UNCHANGED <<step, lost, workerVars, handlerVars, gpu, missed, voices>>

\* synthesis.close, which setup calls first and server_close last.
CloseSpeech ==
  /\ \/ Op("setup", "speech", "speechStops") \/ Op("close", "speech", "speechStops")
  /\ CollectWorkers
  /\ UNCHANGED <<recogVars, handlerVars, gpu, voices>>

SpeechClosed ==
  /\ \/ Op("setup", "speechStops", "listen") \/ Op("close", "speechStops", "closed")
  /\ WorkersStopped
  /\ UNCHANGED <<recogVars, handlerVars, gpu, voices>>

SpeechNotClosed ==
  /\ \/ Op("setup", "speechStops", "failed") \/ Op("close", "speechStops", "failed")
  /\ WorkersNotStopped
  /\ UNCHANGED <<recogVars, handlerVars, gpu, voices>>

ListenClosed ==
  /\ \/ Op("setup", "listen", "working") \/ Op("close", "listen", "speech")
  /\ RecognizerStopped
  /\ UNCHANGED <<synthVars, handlerVars, gpu, voices>>

ListenNotClosed ==
  /\ \/ Op("setup", "listen", "failed") \/ Op("close", "listen", "failed")
  /\ RecognizerNotStopped
  /\ UNCHANGED <<synthVars, handlerVars, gpu, voices>>

\* The models are replaced, or not, and the GPU is given back.
SetupEnds ==
  /\ \/ Op("setup", "working", "ended") \/ Op("setup", "failed", "ended")
  /\ gpu' = Nobody
  /\ UNCHANGED <<requestVars, workerVars, handlerVars, voices>>

-----------------------------------------------------------------------------
Handler(r) ==
  \/ TakeAudio(r) \/ NewEvent(r) \/ PrewarmLoop(r) \/ TakeGpu(r) \/ RefuseGpu(r)
  \/ GiveGpu(r) \/ LeaveAudio(r)

\* What the threads of a request do once it has the GPU.
Work(r) ==
  \/ Synthesize(r) /\ UNCHANGED <<recogVars, serverVars>>
  \/ Transcribe(r) /\ UNCHANGED <<synthVars, serverVars>>

Watch(r) == WatchCancel(r) /\ UNCHANGED <<synthVars, serverVars>>

Workers ==
  \/ (\E e \in Engines : SynthWorker(e)) /\ UNCHANGED <<recogVars, serverVars>>
  \/ RecogWorker /\ UNCHANGED <<synthVars, serverVars>>

Operation ==
  \/ CloseSpeech \/ SpeechClosed \/ SpeechNotClosed \/ ListenClosed \/ ListenNotClosed
  \/ SetupEnds

VoiceNext ==
  \/ \E r \in Requests : Handler(r) \/ Work(r) \/ Watch(r)
  \/ Workers \/ SaveVoice \/ CancelReads \/ CancelSets
  \/ SetupBegins \/ CloseBegins \/ Operation

\* The server's threads run, and its waits with a deadline end.  Of the workers,
\* one that is waiting for a frame reads it; that one ever answers is not assumed.
VoiceFairness ==
  /\ \A r \in Requests : WF_voiceVars(Work(r)) /\ WF_voiceVars(Watch(r)) /\ WF_voiceVars(GiveGpu(r))
  /\ WF_voiceVars(TakeFrame /\ UNCHANGED <<synthVars, serverVars>>)

VoiceSpec == VoiceInit /\ [][VoiceNext]_voiceVars
VoiceFairSpec == VoiceSpec /\ VoiceFairness

-----------------------------------------------------------------------------
InFlight(r) == step[r] \notin {"new", "event", "enter", "release", "leave", "over"}

\* The GPU has one user, and a voice request that is not at work has no worker busy
\* behind it: whoever gets the GPU next gets all of it.  Excepted are a worker that
\* survived SIGKILL and a recognizer whose answers run behind (see TranscriptIsOwn).
QuietVoice ==
  /\ \A e \in Engines :
       (proc[e] = "busy" \/ piped[e] # Nobody) => lost \/ (gpu \in Speaking /\ InFlight(gpu))
  /\ rproc = "busy" => lost \/ raced \/ (gpu \in Hearing /\ InFlight(gpu))

\* While setup replaces the models no voice worker is resident: their memory is
\* free, and none holds a file that is replaced.
SetupAlone ==
  op = "setup" /\ opstep = "working" =>
    lost \/ ((\A e \in Engines : ~SynthAlive(e)) /\ ~RecogAlive)

\* A closed server leaves no read-aloud worker behind: the events are set before the
\* workers are collected, so the pre-warm and every sentence with an event by then
\* start none.  Excepted is a sentence that makes its event afterwards: its handler
\* thread was still at its body, or between audio_lock and the event.
ClosedForGood ==
  op = "close" /\ opstep = "closed" =>
    lost \/ missed # {} \/ \A e \in Engines : ~SynthAlive(e)

\* A transcript is the one of the recording that was sent, never another's and
\* never an empty one made of another frame, as long as no cancel was answered too
\* late for anyone to read the answer and no worker survived SIGKILL.
OwnTranscript ==
  [][\A r \in Hearing :
       result'[r] # result[r] /\ result'[r] \in {"other", "empty"} => raced \/ lost]_voiceVars

\* A doc's claim (recognition.py:18-19, "Silence decodes to an empty transcript [...]
\* it is never fabricated here"): what a recording that nobody cancelled returns is
\* its own.  The ANE worker answers the cancel of another with a frame of its own,
\* which this one takes for its transcript.  (LeaveAudio forgets the event, and a
\* server that closes has no next recording to speak of.)
TranscriptIsOwn ==
  op # "close" =>
    \A r \in Hearing \ cancels :
      step[r] # "over" => result[r] \notin {"other", "empty"}

\* Read-aloud and the pre-warm give the GPU back, whatever the worker does.
SpeakReturns == gpu \in Speaking ~> gpu \notin Speaking

\* A cancelled recognition gives the GPU back, whatever the worker does, unless the
\* worker survives SIGKILL or runs behind.
CancelledEnds ==
  gpu \in Hearing \cap cancels ~> gpu \notin Hearing \cap cancels \/ lost \/ raced

\* A doc's claim (recognition.py:15, "Every call is bounded by a deadline"): a
\* recognition ends.  The deadline is not looked at while the read blocks.
TranscribeReturns == gpu \in Hearing ~> gpu \notin Hearing \/ lost

\* A request asks a worker for a voice of the worker's engine.
VoiceFitsEngine ==
  \A r \in Speaking : step[r] \in {"speak", "read", "poll"} => asked[r] = using[r]

\* The shape of the state.
RequestType == step \in [Requests -> Steps] /\ cancels \subseteq Requests /\ lost \in BOOLEAN
SynthType ==
  /\ choice \in Engines /\ wlock \in Requests \cup {Nobody}
  /\ using \in [Requests -> Engines \cup {Nobody}]
  /\ asked \in [Requests -> Engines \cup {Nobody}]
  /\ proc \in [Engines -> {"none", "idle", "busy", "dead"}]
  /\ piped \in [Engines -> Requests \cup {Nobody}]
  /\ serving \in [Engines -> Requests \cup {Nobody}]
  /\ made \in [Engines -> Nat]
  /\ sent \in [Engines -> Seq(Message)]
  /\ stopping \subseteq Engines
RecogType ==
  /\ backend \in {"ane", "gpu"} /\ current \in BOOLEAN
  /\ rproc \in {"none", "loading", "idle", "busy", "stuck", "dead"}
  /\ rin \in Seq(Order)
  /\ rout \in Seq(Frame)
  /\ booted \in BOOLEAN /\ watch \in [Requests -> {"none", "waiting", "armed", "asked"}]
  /\ result \in [Requests -> {"none", "own", "other", "empty"}] /\ raced \in BOOLEAN
ServerType ==
  /\ audioLock \in Requests \cup {Nobody} /\ gpu \in Requests \cup {Nobody, Setup}
  /\ event \in Requests \cup {Nobody} /\ audioKind \in {"none", "stt", "tts", "warm"}
  /\ aim \in BOOLEAN
  /\ op \in {"none", "setup", "close"}
  /\ opstep \in {"none", "speech", "speechStops", "listen", "working", "failed", "ended",
                 "closed"}
  /\ missed \subseteq Speaking /\ voices \in Nat

VoiceType == RequestType /\ SynthType /\ RecogType /\ ServerType
=============================================================================
