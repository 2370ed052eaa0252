---------------------------- MODULE SpeechYield ----------------------------
(***************************************************************************)
(* The GPU lock and its hand-off between a chat turn and read-aloud        *)
(* requests: SpeechYieldScheduler and YieldClient of                       *)
(* serve/mlx_omarchy_assistant/speech_yield.py, the part of a coordinator  *)
(* turn that holds the lock (coordinator.py: submit, _run,                 *)
(* _consume_stream, _release_turn), and the other users of                 *)
(* coordinator.gpu in server.py.  The chat worker's gate is YieldGate.     *)
(*                                                                         *)
(* A turn and a speak request are each one thread that runs once; an       *)
(* operation (setup, resume, transfer, transcription) comes and goes.      *)
(* Clocks are left out: a wait that has a deadline may end at any time.    *)
(***************************************************************************)
EXTENDS YieldGate, Naturals, Sequences, FiniteSets

CONSTANTS Speaks,       \* calls of SpeechYieldScheduler.enter
          Ops,          \* other holders of coordinator.gpu
          MaxPending,   \* MAX_PENDING_SPEAKS
          LateControl,  \* a request its client gave up on may still be served
          Overrun,      \* a draft or a repair may stop reading before its end
          Unlocked      \* speaks that enter without the server's audio_lock

ASSUME SpeechYieldAssumption ==
    /\ NoOne \notin Speaks \cup Ops
    /\ Turns \cap Speaks = {} /\ Turns \cap Ops = {} /\ Speaks \cap Ops = {}
    /\ MaxPending \in Nat
    /\ LateControl \in BOOLEAN
    /\ Overrun \in BOOLEAN
    /\ Unlocked \subseteq Speaks

VARIABLES owner,     \* who holds coordinator.gpu (a threading.Lock)
          turn,      \* [Turns -> TurnState]: where the generation thread is
          capable,   \* turns whose probe found the gate with their secret
          ending,    \* turns in _release_turn: the last yield_point
          cancelled, \* turns whose cancel event is set
          failed,    \* turns whose stream raised
          waiter,    \* [Turns -> Speaks or NoOne]: the entry yield_point popped
          late,      \* control requests still to be served for nobody
          speak,     \* [Speaks -> SpeakState]
          pending,   \* the queue of waiting speaks
          granted, taken, refused   \* the events of each speak's _Waiter

turnVars  == <<turn, capable, ending, cancelled, failed, waiter>>
speakVars == <<speak, pending, granted, taken, refused>>
vars == <<gateVars, owner, turnVars, speakVars, late>>

TurnState == {"idle", "open", "chat", "consume", "pop", "hold", "acking",
              "parked", "grant", "wait_taken", "retake", "reacquire",
              "unpark", "stop", "exit", "done"}
SpeakState == {"idle", "enqueue", "queued", "quit", "leave", "take", "synth",
               "done"}

\* The lock is given away (or about to be) and not yet back.
LockAway == {"grant", "wait_taken", "retake", "reacquire"}
Handoff  == LockAway \cup {"parked"}
Active(t) == turn[t] \notin {"idle", "done"}

\* The turn waits at the second acquire for a lock that it holds itself.
SelfBlocked(t) == turn[t] = "reacquire" /\ owner = t

TypeOK ==
    /\ GateTypeOK
    /\ owner \in Turns \cup Speaks \cup Ops \cup {NoOne}
    /\ turn \in [Turns -> TurnState]
    /\ waiter \in [Turns -> Speaks \cup {NoOne}]
    /\ capable \subseteq Turns /\ ending \subseteq Turns
    /\ cancelled \subseteq Turns /\ failed \subseteq Turns
    /\ late \subseteq Turns \X {"hold", "acking", "release"}
    /\ speak \in [Speaks -> SpeakState]
    /\ pending \in Seq(Speaks)
    /\ granted \subseteq Speaks /\ taken \subseteq Speaks /\ refused \subseteq Speaks

Init ==
    /\ GateInit
    /\ owner = NoOne
    /\ turn = [t \in Turns |-> "idle"]
    /\ waiter = [t \in Turns |-> NoOne]
    /\ capable = {} /\ ending = {} /\ cancelled = {} /\ failed = {}
    /\ late = {}
    /\ speak = [s \in Speaks |-> "idle"]
    /\ pending = <<>>
    /\ granted = {} /\ taken = {} /\ refused = {}

Go(t, from, to) == turn[t] = from /\ turn' = [turn EXCEPT ![t] = to]
SpeakGo(s, from, to) == speak[s] = from /\ speak' = [speak EXCEPT ![s] = to]

Acquire(p) == owner = NoOne /\ owner' = p
Release == owner' = NoOne

Queued == {pending[i] : i \in DOMAIN pending}

\* The queue without its i-th entry.
RemovedAt(i) ==
    [j \in 1..(Len(pending) - 1) |-> IF j < i THEN pending[j] ELSE pending[j + 1]]

----------------------------------------------------------------------------
(* A turn: submit, open, probe, stream. *)

\* submit: a non-blocking acquire, BusyError when it fails.
Submit(t) ==
    /\ Go(t, "idle", "open")
    /\ Acquire(t)
    /\ UNCHANGED <<gateVars, capable, ending, cancelled, failed, waiter,
                   speakVars, late>>

\* _open_turn raises or returns None; the turn never probed, so the finally
\* block refuses the queue.
OpenEnds(t) ==
    /\ Go(t, "open", "stop")
    /\ failed' \in {failed, failed \cup {t}}
    /\ ending' = ending \cup {t}
    /\ refused' = refused \cup Queued
    /\ UNCHANGED <<gateVars, owner, capable, cancelled, waiter, late,
                   speak, pending, granted, taken>>

\* ensure_context, before the stream or for a repair inside it, restarts the chat
\* worker with a larger context; the restarted one has a new gate.
GrowContext(t) ==
    /\ turn[t] \in {"open", "consume"}
    /\ WorkerReset
    /\ late' = {}
    /\ UNCHANGED <<owner, turnVars, speakVars>>

\* _repair_components: a second chat request, without the secret, while the main
\* stream may still be in the batch (that it happens once a turn is left out).
RepairChat(t) ==
    /\ turn[t] = "consume"
    /\ ChatPost(t, FALSE)
    /\ UNCHANGED <<owner, turnVars, speakVars, late>>

\* _probe_yield: the worker may bind the secret and its answer still be lost.  A
\* draft turn (_run_draft) does not probe, and has no yield points.
Probe(t) ==
    /\ Go(t, "open", "chat")
    /\ \/ /\ ControlProbe(t)
          /\ capable' \in {capable, IF SecretOk(t) THEN capable \cup {t} ELSE capable}
       \/ UNCHANGED <<gateVars, capable>>
    /\ UNCHANGED <<owner, ending, cancelled, failed, waiter, speakVars, late>>

\* models.chat: the secret travels only when the probe succeeded.
Chat(t) ==
    /\ Go(t, "chat", IF t \in capable THEN "pop" ELSE "consume")
    /\ ChatPost(t, t \in capable)
    /\ UNCHANGED <<owner, capable, ending, cancelled, failed, waiter,
                   speakVars, late>>

\* next(stream) returned an event: another yield point before the next one.
NextEvent(t) ==
    /\ turn[t] = "consume" /\ t \in capable
    /\ Go(t, "consume", "pop")
    /\ UNCHANGED <<gateVars, owner, capable, ending, cancelled, failed, waiter,
                   speakVars, late>>

\* The stream is over: complete, broken by cancel, or failed (read timeout,
\* dead worker, refused emit).  A draft or a repair leaves its loop at the size
\* limit, with the worker still decoding.  What follows is _release_turn.
StreamEnds(t) ==
    /\ Go(t, "consume", IF t \in capable THEN "pop" ELSE "stop")
    /\ \/ t \notin streams /\ failed' = failed
       \/ t \in cancelled /\ failed' = failed
       \/ failed' = failed \cup {t}
       \/ Overrun /\ failed' = failed
    /\ ending' = ending \cup {t}
    /\ refused' = IF t \in capable THEN refused ELSE refused \cup Queued
    /\ UNCHANGED <<gateVars, owner, capable, cancelled, waiter, late,
                   speak, pending, granted, taken>>

\* Coordinator.cancel (stop button, lost heartbeat, close).
Cancel(t) ==
    /\ Active(t)
    /\ cancelled' = cancelled \cup {t}
    /\ UNCHANGED <<gateVars, owner, turn, capable, ending, failed, waiter,
                   speakVars, late>>

\* A cancelled or failed turn stops the workers, still holding the lock.
StopWorkers(t) ==
    /\ Go(t, "stop", "exit")
    /\ IF t \in cancelled \cup failed
       THEN WorkerReset /\ late' = {}
       ELSE UNCHANGED <<gateVars, late>>
    /\ UNCHANGED <<owner, capable, ending, cancelled, failed, waiter, speakVars>>

GiveBack(t) ==
    /\ Go(t, "exit", "done")
    /\ Release
    /\ UNCHANGED <<gateVars, capable, ending, cancelled, failed, waiter,
                   speakVars, late>>

----------------------------------------------------------------------------
(* yield_point, one iteration per queue entry. *)

\* Where yield_point returns to.
AfterYield(t) == IF t \in ending THEN "stop" ELSE "consume"

PopWaiter(t) ==
    /\ turn[t] = "pop"
    /\ IF pending = <<>>
       THEN /\ Go(t, "pop", AfterYield(t))
            /\ UNCHANGED <<waiter, pending>>
       ELSE /\ Go(t, "pop", "hold")
            /\ waiter' = [waiter EXCEPT ![t] = Head(pending)]
            /\ pending' = Tail(pending)
    /\ UNCHANGED <<gateVars, owner, capable, ending, cancelled, failed, late,
                   speak, granted, taken, refused>>

\* Mutant of HoldFailed: the popped speak is dropped without an answer.
HoldFailedSilently(t, from) ==
    /\ Go(t, from, AfterYield(t))
    /\ waiter' = [waiter EXCEPT ![t] = NoOne]
    /\ UNCHANGED <<owner, capable, ending, cancelled, failed, speakVars>>

\* client.hold came back False: the popped speak is refused, no pause is faked.
HoldFailed(t, from) ==
    /\ Go(t, from, AfterYield(t))
    /\ refused' = refused \cup {waiter[t]}
    /\ waiter' = [waiter EXCEPT ![t] = NoOne]
    /\ UNCHANGED <<owner, capable, ending, cancelled, failed,
                   speak, pending, granted, taken>>

\* 403, a dead worker, or a request that was never served.
HoldRefused(t) == HoldFailed(t, "hold") /\ UNCHANGED <<gateVars, late>>

\* The client's time ran out with the request still on its way.
HoldLate(t) ==
    /\ LateControl
    /\ HoldFailed(t, "hold")
    /\ late' = late \cup {<<t, "hold">>}
    /\ UNCHANGED gateVars

\* The gate takes the hold: answered at once, or it waits for the park.
HoldServed(t) ==
    /\ Go(t, "hold", IF HoldMustWait THEN "acking" ELSE "parked")
    /\ ControlHold(t)
    /\ UNCHANGED <<owner, capable, ending, cancelled, failed, waiter,
                   speakVars, late>>

HoldAcked(t) ==
    /\ Go(t, "acking", "parked")
    /\ Parked
    /\ UNCHANGED <<gateVars, owner, capable, ending, cancelled, failed, waiter,
                   speakVars, late>>

HoldTimesOut(t) ==
    /\ HoldFailed(t, "acking")
    /\ ControlHoldTimeout
    /\ UNCHANGED late

\* The answer to a granted hold is lost: the client sees False, nobody releases.
HoldAnswerLost(t) ==
    /\ turn[t] = "parked"
    /\ HoldFailed(t, "parked")
    /\ UNCHANGED <<gateVars, late>>

GiveLock(t) ==
    /\ Go(t, "parked", "grant")
    /\ Release
    /\ UNCHANGED <<gateVars, capable, ending, cancelled, failed, waiter,
                   speakVars, late>>

Grant(t) ==
    /\ Go(t, "grant", "wait_taken")
    /\ granted' = granted \cup {waiter[t]}
    /\ UNCHANGED <<gateVars, owner, capable, ending, cancelled, failed, waiter,
                   speak, pending, taken, refused, late>>

\* waiter.taken.wait: the speak took the lock, or the ten seconds are over.
SeeTaken(t) ==
    /\ \/ waiter[t] \in taken /\ Go(t, "wait_taken", "reacquire")
       \/ Go(t, "wait_taken", "retake")
    /\ waiter' = [waiter EXCEPT ![t] = NoOne]
    /\ UNCHANGED <<gateVars, owner, capable, ending, cancelled, failed,
                   speakVars, late>>

\* gpu.acquire(timeout): its result is not looked at.
Retake(t) ==
    /\ Go(t, "retake", "reacquire")
    /\ \/ Acquire(t)
       \/ UNCHANGED owner
    /\ UNCHANGED <<gateVars, capable, ending, cancelled, failed, waiter,
                   speakVars, late>>

\* Mutant of Reacquire: the second acquire has a deadline nobody looks at either.
ReacquireUnchecked(t) ==
    /\ Go(t, "reacquire", "unpark")
    /\ Acquire(t) \/ UNCHANGED owner
    /\ UNCHANGED <<gateVars, capable, ending, cancelled, failed, waiter,
                   speakVars, late>>

\* gpu.acquire(): on a Lock that is not reentrant.
Reacquire(t) ==
    /\ Go(t, "reacquire", "unpark")
    /\ Acquire(t)
    /\ UNCHANGED <<gateVars, capable, ending, cancelled, failed, waiter,
                   speakVars, late>>

\* client.release: served, lost, or (LateControl) served some time later.
\* A set cancel event ends yield_point; the last one is passed a fresh event.
ReleaseGate(t) ==
    /\ Go(t, "unpark", IF t \in cancelled \ ending THEN "consume" ELSE "pop")
    /\ \/ ControlRelease(t) /\ UNCHANGED late
       \/ UNCHANGED <<gateVars, late>>
       \/ LateControl /\ late' = late \cup {<<t, "release">>} /\ UNCHANGED gateVars
    /\ UNCHANGED <<owner, capable, ending, cancelled, failed, waiter, speakVars>>

\* The worker serves a request whose client has given up.
LateServed(t) ==
    /\ \/ /\ <<t, "hold">> \in late
          /\ \/ ControlHold(t)
             \/ secret # t /\ UNCHANGED gateVars
          /\ late' = (late \ {<<t, "hold">>})
                       \cup (IF secret = t /\ HoldMustWait THEN {<<t, "acking">>} ELSE {})
       \/ /\ <<t, "acking">> \in late
          /\ \/ Parked /\ UNCHANGED gateVars
             \/ ControlHoldTimeout
          /\ late' = late \ {<<t, "acking">>}
       \/ /\ <<t, "release">> \in late
          /\ ControlRelease(t)
          /\ late' = late \ {<<t, "release">>}
    /\ UNCHANGED <<owner, turnVars, speakVars>>

----------------------------------------------------------------------------
(* A speak request: enter, synthesize, release. *)

\* The server holds audio_lock around a read-aloud or preview; the pre-warm of
\* the voice enters without it, and so does any caller of the scheduler alone.
MayEnter(s) ==
    \/ s \in Unlocked
    \/ \A u \in Speaks \ Unlocked : speak[u] \in {"idle", "done"}

\* The non-blocking acquire: the grant, or on to the queue.
EnterFast(s) ==
    /\ MayEnter(s)
    /\ SpeakGo(s, "idle", "synth")
    /\ Acquire(s)
    /\ UNCHANGED <<gateVars, turnVars, late, pending, granted, taken, refused>>

EnterBusy(s) ==
    /\ MayEnter(s)
    /\ SpeakGo(s, "idle", "enqueue")
    /\ owner # NoOne
    /\ UNCHANGED <<gateVars, owner, turnVars, late, pending, granted, taken, refused>>

Enqueue(s) ==
    /\ IF Len(pending) >= MaxPending
       THEN SpeakGo(s, "enqueue", "done") /\ UNCHANGED pending
       ELSE SpeakGo(s, "enqueue", "queued") /\ pending' = Append(pending, s)
    /\ UNCHANGED <<gateVars, owner, turnVars, late, granted, taken, refused>>

\* Mutant of GiveUp: only a refusal ends the wait.
GiveUpWhenRefused(s) ==
    /\ SpeakGo(s, "queued", "quit")
    /\ s \in refused \ granted
    /\ UNCHANGED <<gateVars, owner, turnVars, late, pending, granted, taken, refused>>

\* _waiter_wait returns False: refused, cancelled or out of time.  A grant that
\* comes after this is not seen.
GiveUp(s) ==
    /\ SpeakGo(s, "queued", "quit")
    /\ s \notin granted
    /\ UNCHANGED <<gateVars, owner, turnVars, late, pending, granted, taken, refused>>

SeeGrant(s) ==
    /\ SpeakGo(s, "queued", "leave")
    /\ s \in granted
    /\ UNCHANGED <<gateVars, owner, turnVars, late, pending, granted, taken, refused>>

\* The finally block of enter: the entry leaves the queue if it is still there.
LeaveQueue(s) ==
    /\ \/ SpeakGo(s, "quit", "done")
       \/ SpeakGo(s, "leave", "take")
    /\ \/ s \notin Queued /\ UNCHANGED pending
       \/ \E i \in DOMAIN pending : pending[i] = s /\ pending' = RemovedAt(i)
    /\ UNCHANGED <<gateVars, owner, turnVars, late, granted, taken, refused>>

\* gpu.acquire(timeout), then taken.set.
Take(s) ==
    /\ SpeakGo(s, "take", "synth")
    /\ Acquire(s)
    /\ taken' = taken \cup {s}
    /\ UNCHANGED <<gateVars, turnVars, late, pending, granted, refused>>

TakeTimesOut(s) ==
    /\ SpeakGo(s, "take", "done")
    /\ UNCHANGED <<gateVars, owner, turnVars, late, pending, granted, taken, refused>>

\* Mutant of EndSynthesis: the lock is kept when the synthesis fails.
EndSynthesisLeaks(s) ==
    /\ SpeakGo(s, "synth", "done")
    /\ Release \/ UNCHANGED owner
    /\ UNCHANGED <<gateVars, turnVars, late, pending, granted, taken, refused>>

\* SpeakGrant.release, when the audio is out, cancelled or failed.
EndSynthesis(s) ==
    /\ SpeakGo(s, "synth", "done")
    /\ Release
    /\ UNCHANGED <<gateVars, turnVars, late, pending, granted, taken, refused>>

----------------------------------------------------------------------------
(* Setup, resume, transfer and transcription (server.py). *)

OpStarts(o) ==
    /\ Acquire(o)
    /\ UNCHANGED <<gateVars, turnVars, speakVars, late>>

\* Setup and an installing transfer stop the model workers.
OpStopsWorkers(o) ==
    /\ owner = o
    /\ WorkerReset
    /\ late' = {}
    /\ UNCHANGED <<owner, turnVars, speakVars>>

OpEnds(o) ==
    /\ owner = o
    /\ Release
    /\ UNCHANGED <<gateVars, turnVars, speakVars, late>>

----------------------------------------------------------------------------
(* The decode thread of the chat worker. *)

\* hold_max_seconds is ten minutes; a hand-off is over before that ("It only
\* fires long after any bounded synthesis could legitimately take").
NoHandoffUnderWay ==
    \/ \E t \in Turns : SelfBlocked(t)
    \/ \A t \in Turns : turn[t] \notin Handoff

CrashNet == HoldExpires /\ NoHandoffUnderWay

Decode ==
    /\ \/ BeforeStep
       \/ Unpark
       \/ \E finished \in SUBSET streams : AfterStep(finished)
       \/ CrashNet
    /\ UNCHANGED <<owner, turnVars, speakVars, late>>

YieldStep(t) ==
    \/ PopWaiter(t) \/ HoldRefused(t) \/ HoldLate(t) \/ HoldServed(t)
    \/ HoldAcked(t) \/ HoldTimesOut(t) \/ HoldAnswerLost(t)
    \/ GiveLock(t) \/ Grant(t) \/ SeeTaken(t) \/ Retake(t) \/ Reacquire(t)
    \/ ReleaseGate(t)

TurnStep(t) ==
    \/ OpenEnds(t) \/ Probe(t) \/ Chat(t) \/ NextEvent(t) \/ StreamEnds(t)
    \/ StopWorkers(t) \/ GiveBack(t) \/ YieldStep(t)

SpeakStep(s) ==
    \/ Enqueue(s) \/ GiveUp(s) \/ SeeGrant(s) \/ LeaveQueue(s)
    \/ Take(s) \/ TakeTimesOut(s) \/ EndSynthesis(s)

Next ==
    \/ \E t \in Turns :
          \/ Submit(t) \/ Cancel(t) \/ GrowContext(t) \/ RepairChat(t)
          \/ TurnStep(t) \/ LateServed(t)
    \/ \E s \in Speaks : EnterFast(s) \/ EnterBusy(s) \/ SpeakStep(s)
    \/ \E o \in Ops : OpStarts(o) \/ OpStopsWorkers(o) \/ OpEnds(o)
    \/ Decode

Spec == Init /\ [][Next]_vars

\* Every wait of a turn or a speak has a deadline except Reacquire, a chat reply
\* is finite, and threads that can run do run.  Nothing is assumed of callers.
Fairness ==
    /\ \A t \in Turns : WF_vars(TurnStep(t)) /\ SF_vars(StreamEnds(t))
    /\ \A s \in Speaks : WF_vars(SpeakStep(s))
    /\ \A o \in Ops : WF_vars(OpEnds(o))
    /\ WF_vars(Decode)

FairSpec == Spec /\ Fairness

----------------------------------------------------------------------------
(* Safety. *)

\* No decode step runs while a speak request synthesizes: "No overlapping GPU
\* generation and synthesis" (speech_yield.py).
NoOverlap == \A s \in Speaks : speak[s] = "synth" => decode # "step"

\* While a turn's lock is away and its reply is still being generated, the gate
\* is held, whatever other turns, speaks and operations do with the lock.
HeldWhileLockAway ==
    (\A t \in Turns : ~SelfBlocked(t)) =>
        \A t \in streams : turn[t] \in LockAway => Held

\* A queue entry is a speak that is still inside enter: an entry nobody waits
\* behind would use up one of the two places.
NoGhostInQueue ==
    /\ \A s \in Queued : speak[s] \in {"queued", "quit"}
    /\ Len(pending) <= MaxPending
    /\ Cardinality(Queued) = Len(pending)

\* A speak that waits without being in the queue has its answer, or a turn is
\* about to give it one: popping an entry never loses the request.
PoppedIsAnswered ==
    \A s \in Speaks : speak[s] = "queued" /\ s \notin Queued =>
        \/ s \in granted \cup refused
        \/ \E t \in Turns : waiter[t] = s

\* The queue is honest: no entry is left by a caller that went away (enter's
\* finally), and no caller waits whose entry a turn popped and forgot (yield_point).
QueueIsHonest == NoGhostInQueue /\ PoppedIsAnswered

\* At most one turn keeps the lock, and only while it runs.
LockHasLiveOwner ==
    /\ \A t \in Turns : Active(t) /\ turn[t] \notin LockAway => owner = t
    /\ \A t \in Turns : owner = t => Active(t) /\ turn[t] \in {"reacquire"} \cup (TurnState \ LockAway)
    /\ \A s \in Speaks : (owner = s) <=> (speak[s] = "synth")

(* Liveness, under FairSpec. *)

\* A parked worker decodes again (or is stopped): also after a lost release or a
\* hold whose answer was lost, and when the turn that parked it is stuck.
ParkedIsReleased == Parked ~> ~Parked

\* The wait of a turn for its own lock is the only thing that keeps an admitted
\* turn from ending.
TurnEndsUnlessSelfBlocked ==
    \A t \in Turns :
        Active(t) ~> (turn[t] = "done" \/ \E u \in Turns : SelfBlocked(u))

\* A speak request always gets an answer, whatever happens to the turn.
SpeakEnds == \A s \in Speaks : (speak[s] # "idle") ~> (speak[s] = "done")

----------------------------------------------------------------------------
(* Refinement: decode steps and syntheses exclude each other in time. *)

Gpu == INSTANCE GpuUse WITH
    decoding <- decode = "step",
    speaking <- {s \in Speaks : speak[s] = "synth"}

ImplementsGpuUse == Gpu!Spec

----------------------------------------------------------------------------
(* What the documentation says and the code does not do. *)

\* "every wait is time-bounded" (speech_yield.py:19), "Bounded throughout"
\* (154): a turn does not wait without a deadline for a lock it holds itself.
NoSelfBlock == \A t \in Turns : ~SelfBlocked(t)

\* A turn is admitted only while no other is active (coordinator.py:628,
\* "Another local response is active").
OneActiveTurn == \A t, u \in Turns : Active(t) /\ Active(u) => t = u

\* "the next turn re-binds and re-probes anyway" (speech_yield.py:92): the next
\* turn's probe succeeds on a worker that answers it.
ProbeRebinds ==
    \A t \in Turns :
        turn[t] = "open" /\ (\A u \in Turns \ {t} : ~Active(u)) => SecretOk(t)
============================================================================
