---------------------------- MODULE Recognition ----------------------------
(***************************************************************************)
(* Speech recognition (recognition.py: Recognition, _WorkerHandle;         *)
(* gpu_stt.py: _WorkerHandle; the loops of gpu_stt_worker.py and of        *)
(* parakeet_dictation.py): one owned worker process, frames to its stdin   *)
(* and from its stdout, and a thread per request that watches its cancel   *)
(* event.                                                                  *)
(*                                                                         *)
(* These are actions without a next-state relation: Voice composes them.   *)
(* A frame is <<request, kind>>; what it says is left out.  No read has a  *)
(* deadline: _read_response looks at its own between two reads only, and a *)
(* read blocks until the frame or the end of the pipe.                     *)
(***************************************************************************)
EXTENDS VoiceRequests

VARIABLES backend,    \* "ane" or "gpu": the module that was loaded
          current,    \* _worker is the handle of the process below
          rproc,      \* that process
          rin,        \* frames in its stdin
          rout,       \* frames in its stdout
          booted,     \* _ready_seen: the "ready" frame was consumed
          watch,      \* the watcher of each request
          result,     \* what each returned
          raced       \* history: this process answers a cancel when a request
                      \* waits for its own answer

frameVars == <<rin, rout, booted>>
recogVars == <<backend, current, rproc, frameVars, watch, result, raced>>

Hearing == {r \in Requests : Kind[r] = "stt"}
Order == (Requests \cup {Nobody}) \X {"transcribe", "cancel"}
Frame == (Requests \cup {Nobody}) \X {"ready", "unavailable", "ack", "text", "input"}
RecogAlive == rproc \in {"loading", "idle", "busy", "stuck"}

\* Where a request still waits for its watcher to see that it is done.
InRequest(r) == step[r] \in {"boot", "write", "writing", "await"}

Kills == rproc' = "dead" /\ rin' = <<>>

\* It is stuck in the kernel: its pipes stay open, and it answers no more.
Sticks == RecogAlive /\ rproc' = "stuck" /\ StopUnconfirmed

\* confirm_stopped: the process group is gone, or an exception says it is not.
ConfirmStopped ==
  \/ Kills /\ StopConfirmed
  \/ Sticks /\ UNCHANGED rin

-----------------------------------------------------------------------------
\* transcribe and request

\* A cancel that came first, or decode_wav, ends it at once.
RecogBegins(r) ==
  /\ r \in Hearing
  /\ \/ r \notin cancels /\ Goes(r, "granted", "worker")
     \/ Goes(r, "granted", "release")
  /\ UNCHANGED <<cancels, lost, recogVars>>

FirstStep == IF backend = "gpu" /\ ~(current /\ RecogAlive /\ booted) THEN "boot" ELSE "write"

\* _ensure_worker, which may refuse to start one, and the watcher.
EnsureRecognizer(r) ==
  /\ \/ /\ Goes(r, "worker", FirstStep)
        /\ watch' = [watch EXCEPT ![r] = "waiting"]
        /\ current' = TRUE
        /\ IF current /\ RecogAlive
             THEN UNCHANGED <<rproc, frameVars, raced>>
             ELSE /\ rproc' = IF backend = "gpu" THEN "loading" ELSE "idle"
                  /\ rin' = <<>> /\ rout' = <<>>
                  /\ booted' = FALSE /\ raced' = FALSE
     \/ /\ Goes(r, "worker", "release") /\ ~(current /\ RecogAlive)
        /\ UNCHANGED <<watch, current, rproc, frameVars, raced>>
  /\ UNCHANGED <<cancels, lost, backend, result>>

\* The pipe ended.  The GPU handle calls that a cancellation if it was cancelled.
Breaks(r, from) ==
  Goes(r, from, IF backend = "gpu" /\ r \in cancels THEN "join" ELSE "joinBroken")

\* Mutant of AwaitBoot: the first frame is left to be read as an answer.
BootLeftUnread(r) ==
  /\ Goes(r, "boot", "write") /\ booted' = TRUE
  /\ UNCHANGED <<cancels, lost, backend, current, rproc, rin, rout, watch, result, raced>>

AwaitBoot(r) ==
  /\ rout # <<>>
  /\ rout' = Tail(rout)
  /\ \/ /\ Head(rout) = <<Nobody, "ready">>
        /\ Goes(r, "boot", "write") /\ booted' = TRUE
     \/ /\ Head(rout) = <<Nobody, "unavailable">>
        /\ Breaks(r, "boot") /\ UNCHANGED booted
  /\ UNCHANGED <<cancels, lost, backend, current, rproc, rin, watch, result, raced>>

\* A long recording does not fit the pipe: the write goes on, and with it the
\* handle's _send_lock, until the worker reads it.
SendTranscribe(r) ==
  /\ IF RecogAlive
       THEN /\ \E to \in {"writing", "await"} : Goes(r, "write", to)
            /\ rin' = Append(rin, <<r, "transcribe">>)
       ELSE Breaks(r, "write") /\ UNCHANGED rin
  /\ UNCHANGED <<cancels, lost, backend, current, rproc, rout, booted, watch, result,
                 raced>>

Unread(r) ==
  \E i \in DOMAIN rin : rin[i] = <<r, "transcribe">> /\ ~(i = 1 /\ rproc = "busy")

SendEnds(r) ==
  /\ IF RecogAlive
       THEN ~Unread(r) /\ Goes(r, "writing", "await")
       ELSE Breaks(r, "writing")
  /\ UNCHANGED <<cancels, lost, recogVars>>

\* What transcribe returns for a frame: nobody compares its id with the request's.
Heard(r, frame) ==
  CASE frame[2] = "text" -> IF frame[1] = r THEN "own" ELSE "other"
    [] frame[2] \in {"ack", "ready"} -> "empty"
    [] OTHER -> "none"

\* One frame is the answer.
ReadAnswer(r) ==
  /\ rout # <<>>
  /\ rout' = Tail(rout)
  /\ Goes(r, "await", IF Head(rout)[2] = "unavailable" THEN "joinBad" ELSE "join")
  /\ result' = [result EXCEPT ![r] = Heard(r, Head(rout))]
  /\ UNCHANGED <<cancels, lost, backend, current, rproc, rin, booted, watch, raced>>

AnswerLost(r) ==
  /\ ~RecogAlive
  /\ \E from \in {"boot", "await"} : Breaks(r, from)
  /\ UNCHANGED <<cancels, lost, recogVars>>

\* The watcher of a request that nobody cancelled is left behind: it sees, if it
\* ever wakes, that the request is done.
JoinWatcher(r) ==
  /\ watch[r] \in {"waiting", "none"}
  /\ watch' = [watch EXCEPT ![r] = "none"]
  /\ \/ Goes(r, "join", "release")
     \/ Goes(r, "joinBad", IF r \in cancels THEN "release" ELSE "stop")
     \/ Goes(r, "joinBroken", "stop")
  /\ result' = [result EXCEPT ![r] =
                  IF backend = "gpu" /\ r \in cancels THEN "none" ELSE @]
  /\ UNCHANGED <<cancels, lost, backend, current, rproc, frameVars, raced>>

\* The except clause of transcribe: the handle is dropped and killed.
DropRecognizer(r) ==
  /\ Goes(r, "stop", "release")
  /\ current' = FALSE
  /\ ConfirmStopped
  /\ rout' = <<>> /\ booted' = FALSE /\ raced' = FALSE
  /\ UNCHANGED <<cancels, backend, watch, result>>

Transcribe(r) ==
  \/ RecogBegins(r) \/ EnsureRecognizer(r) \/ AwaitBoot(r) \/ SendTranscribe(r)
  \/ SendEnds(r) \/ ReadAnswer(r) \/ AnswerLost(r) \/ JoinWatcher(r) \/ DropRecognizer(r)

-----------------------------------------------------------------------------
\* watch_cancel

WatchWakes(r) ==
  /\ watch[r] = "waiting" /\ r \in cancels
  /\ watch' = [watch EXCEPT ![r] = IF InRequest(r) THEN "armed" ELSE "none"]
  /\ UNCHANGED <<requestVars, backend, current, rproc, frameVars, raced, result>>

\* The ANE worker is asked to stop, when no write holds _send_lock.  The watcher
\* started before the request was written: its frame may be the first of the two.
WatchAsks(r) ==
  /\ watch[r] = "armed" /\ backend = "ane" /\ step[r] # "writing"
  /\ IF RecogAlive
       THEN /\ rin' = Append(rin, <<Nobody, "cancel">>)
            /\ watch' = [watch EXCEPT ![r] = "asked"]
            /\ raced' = (raced \/ step[r] = "write")
       ELSE /\ watch' = [watch EXCEPT ![r] = "none"]
            /\ UNCHANGED <<rin, raced>>
  /\ UNCHANGED <<requestVars, backend, current, rproc, rout, booted, result>>

\* The request was answered after all, by this request's frame: the worker's
\* answer to the cancel is still to come.
WatchAnswered(r) ==
  /\ watch[r] = "asked" /\ ~InRequest(r)
  /\ watch' = [watch EXCEPT ![r] = "none"]
  /\ raced' = (raced \/ RecogAlive)
  /\ UNCHANGED <<requestVars, backend, current, rproc, frameVars, result>>

\* Mutant of WatchKills: the watcher has no second step.
WatchOnlyAsks(r) == FALSE /\ UNCHANGED <<requestVars, recogVars>>

\* It was not answered in time; the GPU worker is not asked at all.
WatchKills(r) ==
  /\ IF backend = "ane" THEN watch[r] = "asked" /\ InRequest(r) ELSE watch[r] = "armed"
  /\ watch' = [watch EXCEPT ![r] = "none"]
  /\ ConfirmStopped
  /\ UNCHANGED <<step, cancels, backend, current, rout, booted, result, raced>>

WatchCancel(r) == WatchWakes(r) \/ WatchAsks(r) \/ WatchAnswered(r) \/ WatchKills(r)

-----------------------------------------------------------------------------
\* The worker process: it reads its next frame between two transcriptions only.

LoadModel ==
  /\ rproc = "loading"
  /\ \/ rproc' = "idle" /\ rout' = Append(rout, <<Nobody, "ready">>)
     \/ rproc' = "dead" /\ rout' = Append(rout, <<Nobody, "unavailable">>)
  /\ UNCHANGED <<requestVars, backend, current, rin, booted, watch, raced, result>>

TakeFrame ==
  /\ rproc = "idle" /\ rin # <<>>
  /\ IF Head(rin)[2] = "cancel"
       THEN /\ rin' = Tail(rin)
            /\ rout' = Append(rout, <<Nobody, "ack">>)
            /\ UNCHANGED rproc
       ELSE rproc' = "busy" /\ UNCHANGED <<rin, rout>>
  /\ UNCHANGED <<requestVars, backend, current, booted, watch, raced, result>>

Answer ==
  /\ rproc = "busy"
  /\ rproc' = "idle"
  /\ rin' = Tail(rin)
  /\ \E how \in {"text", "input", "unavailable"} :
       rout' = Append(rout, <<Head(rin)[1], how>>)
  /\ UNCHANGED <<requestVars, backend, current, booted, watch, raced, result>>

RecogDies ==
  /\ RecogAlive
  /\ Kills
  /\ UNCHANGED <<requestVars, backend, current, rout, booted, watch, raced, result>>

RecogWorker == LoadModel \/ TakeFrame \/ Answer \/ RecogDies

-----------------------------------------------------------------------------
\* close(): the handle is taken, and its process told to close and confirmed dead.

RecognizerStopped ==
  /\ current' = FALSE
  /\ IF current THEN Kills ELSE UNCHANGED <<rproc, rin>>
  /\ UNCHANGED <<requestVars, backend, rout, booted, watch, raced, result>>

RecognizerNotStopped ==
  /\ current /\ current' = FALSE
  /\ Sticks
  /\ UNCHANGED <<step, cancels, backend, frameVars, watch, result, raced>>
=============================================================================
