------------------------------ MODULE Synthesis ------------------------------
(***************************************************************************)
(* Read-aloud (synthesis.py: Synthesis.synthesize_chunks, _cancel_request, *)
(* _abandon_request, _reset_worker, close; _WorkerHandle; _worker_main):   *)
(* one resident worker process per voice engine, a pipe to it, and one     *)
(* request at a time under _worker_lock.                                   *)
(*                                                                         *)
(* These are actions without a next-state relation: Voice composes them.   *)
(* What a chunk holds is left out, and every wait with a deadline may end  *)
(* at any time.  The queue of waiting callers (_acquire_slot) is left out  *)
(* too: all callers hold the GPU, so none of them ever waits for another.  *)
(***************************************************************************)
EXTENDS VoiceRequests

CONSTANTS Engines,    \* the voice packs
          Default,    \* the one whose voice is used when none was saved
          MaxChunks   \* bound on the chunks of one request (MAX_OUTPUT_SECONDS)

ASSUME SynthesisAssumption ==
  /\ Default \in Engines /\ Nobody \notin Engines
  /\ MaxChunks \in Nat

VARIABLES choice,     \* the engine of the saved voice
          wlock,      \* who holds _worker_lock
          using,      \* the engine of the worker of each request, or Nobody
          asked,      \* the engine of the voice that each asks for (or Nobody)
          proc,       \* per engine: the process of the handle in _workers
          piped,      \* per engine: whose "speak" is in its pipe
          serving,    \* per engine: the request the worker generates for
          made,       \* per engine: chunks of that request so far
          sent,       \* per engine: the worker's messages, <<request, type>>
          stopping    \* engines whose worker close() collected

pipeVars == <<piped, serving, made, sent>>
synthVars == <<choice, wlock, using, asked, proc, pipeVars, stopping>>

Speaking == {r \in Requests : Kind[r] # "stt"}
Message == (Requests \cup {Nobody}) \X {"chunk", "done", "error"}
SynthAlive(e) == proc[e] \in {"idle", "busy"}
Unlocks(r, from) == Goes(r, from, "unlock")
Engine(r) == using[r]

\* _reset_worker, which does not look at what stop() returns.
ResetWorker(e) ==
  /\ proc' = [proc EXCEPT ![e] = "none"]
  /\ piped' = [piped EXCEPT ![e] = Nobody]
  /\ sent' = [sent EXCEPT ![e] = <<>>]
  /\ serving' = [serving EXCEPT ![e] = Nobody]
  /\ made' = [made EXCEPT ![e] = 0]
  /\ StopConfirmed \/ (SynthAlive(e) /\ StopUnconfirmed)

\* A voice of the other engine is saved.
SetVoice ==
  /\ choice' \in Engines \ {choice}
  /\ UNCHANGED <<requestVars, wlock, using, asked, proc, pipeVars, stopping>>

-----------------------------------------------------------------------------
\* synthesize_chunks

\* A cancel that came first, or _guard, ends it at once.
SynthBegins(r) ==
  /\ r \in Speaking
  /\ \/ r \notin cancels /\ Goes(r, "granted", "queue")
     \/ Goes(r, "granted", "release")
  /\ UNCHANGED <<cancels, lost, synthVars>>

LockWorker(r) ==
  /\ wlock = Nobody /\ wlock' = r
  /\ Goes(r, "queue", "ensure")
  /\ UNCHANGED <<cancels, lost, choice, using, asked, proc, pipeVars, stopping>>

\* _ensure_worker for the engine of the voice saved now; it may fail to start.
EnsureWorker(r) ==
  /\ \/ /\ r \notin cancels
        /\ Goes(r, "ensure", "send")
        /\ using' = [using EXCEPT ![r] = choice]
        /\ proc' = [proc EXCEPT ![choice] = IF @ = "none" THEN "idle" ELSE @]
     \/ Unlocks(r, "ensure") /\ UNCHANGED <<using, proc>>
  /\ UNCHANGED <<cancels, lost, choice, wlock, asked, pipeVars, stopping>>

\* The voice is read again; a file that cannot be read leaves a request that was
\* never sent and has to be settled.
ReadVoice(r) ==
  /\ \/ Goes(r, "send", "speak") /\ asked' = [asked EXCEPT ![r] = choice]
     \/ Goes(r, "send", "abandon") /\ UNCHANGED asked
  /\ UNCHANGED <<cancels, lost, choice, wlock, using, proc, pipeVars,
                 stopping>>

SendSpeak(r) ==
  LET e == Engine(r) IN
  /\ step[r] = "speak"
  /\ IF SynthAlive(e)
       THEN /\ Goes(r, "speak", "read")
            /\ piped' = [piped EXCEPT ![e] = r]
            /\ UNCHANGED <<lost, proc, sent, serving, made>>
       ELSE Unlocks(r, "speak") /\ ResetWorker(e)
  /\ UNCHANGED <<cancels, choice, wlock, using, asked, stopping>>

\* The top of the loop: the cancel event is looked at between two messages.
LookForCancel(r) ==
  /\ Goes(r, "read", IF r \in cancels THEN "cancel" ELSE "poll")
  /\ UNCHANGED <<cancels, lost, synthVars>>

\* The next message; one of another request is skipped.
ReceiveMessage(r) ==
  LET e == Engine(r)  m == Head(sent[e]) IN
  /\ step[r] = "poll" /\ sent[e] # <<>>
  /\ sent' = [sent EXCEPT ![e] = Tail(@)]
  /\ Goes(r, "poll", CASE m[1] # r                  -> "read"
                       [] m[1] = r /\ m[2] = "chunk" -> "yield"
                       [] OTHER                      -> "unlock")
  /\ UNCHANGED <<cancels, lost, choice, wlock, using, asked, proc, piped, serving,
                 made, stopping>>

\* Mutant of NoMessage: the wait has no timeout.
PipeEndsOnly(r) ==
  /\ Unlocks(r, "poll")
  /\ sent[Engine(r)] = <<>> /\ ~SynthAlive(Engine(r))
  /\ ResetWorker(Engine(r))
  /\ UNCHANGED <<cancels, choice, wlock, using, asked, stopping>>

\* Silence until the timeout, or the end of the pipe.
NoMessage(r) ==
  /\ Unlocks(r, "poll")
  /\ sent[Engine(r)] = <<>>
  /\ ResetWorker(Engine(r))
  /\ UNCHANGED <<cancels, choice, wlock, using, asked, stopping>>

\* The consumer has a chunk.  It takes the next one, or closes the generator: its
\* event is set, or its client is gone and it sets the event.
ConsumeChunk(r) ==
  /\ \/ Goes(r, "yield", "read") /\ UNCHANGED cancels
     \/ /\ Kind[r] = "tts"
        /\ Goes(r, "yield", "abandon")
        /\ cancels' = cancels \cup {r}
  /\ UNCHANGED <<lost, synthVars>>

\* GENERATION_DEADLINE_SECONDS have passed.
SpeakTooLong(r) ==
  /\ Unlocks(r, "yield")
  /\ ResetWorker(Engine(r))
  /\ UNCHANGED <<cancels, choice, wlock, using, asked, stopping>>

\* Mutant of NoAbandon: whoever stops consuming leaves the worker to itself.
NoAbandonEver(r) == TRUE

\* _abandon_request does nothing when the worker was reset or is dead.
NoAbandon(r) == ~SynthAlive(Engine(r))

\* The request that was cancelled is not settled either: it is abandoned after.
AfterCancel(from) == IF from = "cancel" THEN "abandon" ELSE "unlock"

NothingToAbandon(r) ==
  /\ Unlocks(r, "abandon")
  /\ NoAbandon(r)
  /\ UNCHANGED <<cancels, lost, synthVars>>

\* _cancel_request: a last message of this request settles it, others are dropped.
\* (The worker reads its pipe between two requests only, so that the "cancel" it is
\* sent finds no current request and changes nothing.)
DrainMessage(r, from) ==
  LET e == Engine(r)  m == Head(sent[e]) IN
  /\ step[r] = from /\ ~(from = "abandon" /\ NoAbandon(r))
  /\ sent[e] # <<>>
  /\ sent' = [sent EXCEPT ![e] = Tail(@)]
  /\ Goes(r, from, IF m \in {<<r, "done">>, <<r, "error">>} THEN AfterCancel(from) ELSE from)
  /\ UNCHANGED <<cancels, lost, choice, wlock, using, asked, proc, piped,
                 serving, made, stopping>>

\* The grace is over or the pipe ends: the worker is reset.
DrainEnds(r, from) ==
  /\ Goes(r, from, AfterCancel(from))
  /\ ~(from = "abandon" /\ NoAbandon(r))
  /\ ResetWorker(Engine(r))
  /\ UNCHANGED <<cancels, choice, wlock, using, asked, stopping>>

UnlockWorker(r) ==
  /\ Goes(r, "unlock", "release")
  /\ wlock' = Nobody
  /\ using' = [using EXCEPT ![r] = Nobody]
  /\ asked' = [asked EXCEPT ![r] = Nobody]
  /\ UNCHANGED <<cancels, lost, choice, proc, pipeVars, stopping>>

Synthesize(r) ==
  \/ SynthBegins(r) \/ LockWorker(r) \/ EnsureWorker(r) \/ ReadVoice(r)
  \/ SendSpeak(r) \/ LookForCancel(r) \/ ReceiveMessage(r) \/ NoMessage(r)
  \/ ConsumeChunk(r) \/ SpeakTooLong(r)
  \/ \E from \in {"cancel", "abandon"} : DrainMessage(r, from) \/ DrainEnds(r, from)
  \/ NothingToAbandon(r) \/ UnlockWorker(r)

-----------------------------------------------------------------------------
\* _worker_main

TakeSpeak(e) ==
  /\ proc[e] = "idle" /\ piped[e] # Nobody
  /\ proc' = [proc EXCEPT ![e] = "busy"]
  /\ serving' = [serving EXCEPT ![e] = piped[e]]
  /\ piped' = [piped EXCEPT ![e] = Nobody]
  /\ made' = [made EXCEPT ![e] = 0]
  /\ UNCHANGED <<requestVars, choice, wlock, using, asked, sent, stopping>>

MakeChunk(e) ==
  /\ proc[e] = "busy" /\ made[e] < MaxChunks
  /\ made' = [made EXCEPT ![e] = @ + 1]
  /\ sent' = [sent EXCEPT ![e] = Append(@, <<serving[e], "chunk">>)]
  /\ UNCHANGED <<requestVars, choice, wlock, using, asked, proc, piped, serving,
                 stopping>>

EndSpeak(e) ==
  /\ proc[e] = "busy"
  /\ proc' = [proc EXCEPT ![e] = "idle"]
  /\ \E how \in {"done", "error"} :
       sent' = [sent EXCEPT ![e] = Append(@, <<serving[e], how>>)]
  /\ serving' = [serving EXCEPT ![e] = Nobody]
  /\ made' = [made EXCEPT ![e] = 0]
  /\ UNCHANGED <<requestVars, choice, wlock, using, asked, piped, stopping>>

SynthDies(e) ==
  /\ SynthAlive(e)
  /\ proc' = [proc EXCEPT ![e] = "dead"]
  /\ piped' = [piped EXCEPT ![e] = Nobody]
  /\ serving' = [serving EXCEPT ![e] = Nobody]
  /\ made' = [made EXCEPT ![e] = 0]
  /\ UNCHANGED <<requestVars, choice, wlock, using, asked, sent, stopping>>

SynthWorker(e) == TakeSpeak(e) \/ MakeChunk(e) \/ EndSpeak(e) \/ SynthDies(e)

-----------------------------------------------------------------------------
\* close(): the handles are collected under the lock, and stopped after it.

\* Mutant of Residents: only the worker that was used last is collected.
ResidentsCurrent == {e \in Engines : SynthAlive(e) /\ e = choice}

Residents == {e \in Engines : SynthAlive(e)}

CollectWorkers ==
  /\ wlock = Nobody
  /\ stopping' = Residents
  /\ proc' = [e \in Engines |-> IF e \in Residents \/ ~SynthAlive(e) THEN "none" ELSE proc[e]]
  /\ piped' = [e \in Engines |-> Nobody]
  /\ sent' = [e \in Engines |-> <<>>]
  /\ UNCHANGED <<requestVars, choice, wlock, using, asked, serving, made>>

\* One that cannot be confirmed dead makes close() raise.
WorkersStopped ==
  /\ stopping' = {}
  /\ UNCHANGED <<requestVars, choice, wlock, using, asked, proc, pipeVars>>
WorkersNotStopped ==
  /\ stopping # {} /\ stopping' = {}
  /\ StopUnconfirmed
  /\ UNCHANGED <<step, cancels, choice, wlock, using, asked, proc, pipeVars>>
=============================================================================
