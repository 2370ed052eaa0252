---------------------------- MODULE SpeechProofs ----------------------------
(***************************************************************************)
(* Theorems about the two systems through which the assistant speaks and   *)
(* listens.  They have no names in common, neither mentions the other, and *)
(* their proofs stand one after the other.                                 *)
(*                                                                         *)
(* SpeechYield: the read-aloud hand-off never lets a decode step and a     *)
(* synthesis overlap, for any number of turns, speak requests and other    *)
(* operations, provided no control request is served after its client gave *)
(* up and no draft or repair stops reading early (ClientsWait;             *)
(* MCLateControl.cfg shows the overlap that a late release makes           *)
(* possible).  The queue of waiting speaks is honest without that          *)
(* assumption.                                                             *)
(*                                                                         *)
(* Voice: whatever the requests, the workers, setup and close do, whoever  *)
(* has the GPU has all of it, setup and close leave no worker behind, and  *)
(* a transcript is the one of its recording, up to a worker that survives  *)
(* SIGKILL or a cancel that is answered too late.                          *)
(***************************************************************************)
EXTENDS SpeechYield, Voice, FiniteSetTheorems, TLAPS

ClientsWait == ~LateControl /\ ~Overrun

\* What every step relies on about the constants.
LEMMA ConstantsApart ==
    /\ NoOne \notin Turns /\ NoOne \notin Speaks /\ NoOne \notin Ops
    /\ \A t \in Turns : t \notin Speaks /\ t \notin Ops
    /\ \A s \in Speaks : s \notin Ops
  BY NoOneAssumption, SpeechYieldAssumption

----------------------------------------------------------------------------
(* The inductive invariant. *)

\* A turn in one of these states holds the lock.
Owning == TurnState \ (LockAway \cup {"idle", "done"})

OwnerInv ==
    /\ \A t \in Turns : turn[t] \in Owning => owner = t
    /\ \A t \in Turns : owner = t => turn[t] \in Owning \cup {"reacquire"}
    /\ \A s \in Speaks : owner = s <=> speak[s] = "synth"

StreamInv ==
    /\ \A t \in streams : turn[t] \notin {"idle", "open", "chat", "exit", "done"}
    /\ \A t \in streams : t \in ending => t \in failed \cup cancelled
    /\ \A t \in Turns : turn[t] = "stop" => t \in ending
    /\ \A t \in Turns : turn[t] \in {"idle", "open", "chat", "consume"} => t \notin ending
    /\ decode # "out" => streams # {}

\* The gate stays held from the acknowledged hold to the lock's return, and only
\* the turn that holds it can change that: it is the one whose secret is bound.
GateInv ==
    /\ late = {}
    /\ \A t \in Turns : turn[t] \in {"idle", "open"} => t \notin capable
    /\ \A t \in Turns : turn[t] = "chat" /\ t \in capable => secret = t
    /\ \A t \in Turns : turn[t] = "acking" =>
           secret = t /\ (decode = "park" => desire)
    /\ \A t \in Turns : turn[t] = "parked" => secret = t /\ Held
    /\ (\A t \in Turns : ~SelfBlocked(t)) =>
           \A t \in streams : turn[t] \in LockAway => secret = t /\ Held

\* A popped entry is in hand until its speak is refused or granted.
WaiterInv ==
    \A t \in Turns :
        turn[t] \in {"hold", "acking", "parked", "grant"} => waiter[t] \in Speaks

TypeInv == TypeOK /\ WaiterInv

IInv == TypeInv /\ OwnerInv /\ StreamInv /\ GateInv

----------------------------------------------------------------------------
(* Type correctness. *)

\* The sequence left when one entry is taken out is a queue of speaks.
LEMMA RemovedAtType ==
    ASSUME pending \in Seq(Speaks), NEW i \in DOMAIN pending
    PROVE  RemovedAt(i) \in Seq(Speaks)
<1>1. Len(pending) \in Nat /\ DOMAIN pending = 1..Len(pending)
  OBVIOUS
<1>2. \A j \in 1..(Len(pending) - 1) :
        (IF j < i THEN pending[j] ELSE pending[j + 1]) \in Speaks
  BY <1>1
<1>3. Len(pending) - 1 \in Nat
  BY <1>1
<1>4. RemovedAt(i) \in [1..(Len(pending) - 1) -> Speaks]
  BY <1>2 DEF RemovedAt
<1> QED
  BY <1>3, <1>4

\* Initially every variable has its type.
LEMMA TypeInit == Init => TypeInv
<1> SUFFICES ASSUME Init PROVE TypeInv
  OBVIOUS
<1>1. GateTypeOK
  BY DEF Init, GateInit, GateTypeOK
<1>2. pending \in Seq(Speaks)
  BY DEF Init
<1>3. turn \in [Turns -> TurnState] /\ speak \in [Speaks -> SpeakState]
  BY DEF Init, TurnState, SpeakState
<1>4. waiter \in [Turns -> Speaks \cup {NoOne}] /\ WaiterInv
  BY DEF Init, WaiterInv
<1> QED
  BY <1>1, <1>2, <1>3, <1>4 DEF Init, TypeOK, TypeInv

\* A step of a turn outside yield_point keeps the types.
LEMMA TypeTurn ==
    ASSUME TypeInv, NEW t \in Turns,
           \/ Submit(t) \/ Cancel(t) \/ OpenEnds(t) \/ Probe(t) \/ Chat(t)
           \/ NextEvent(t) \/ StreamEnds(t) \/ StopWorkers(t) \/ GiveBack(t)
           \/ GrowContext(t) \/ RepairChat(t)
    PROVE  TypeInv'
<1> USE DEF TypeInv, WaiterInv, TypeOK, GateTypeOK, TurnState, Go, gateVars,
            speakVars, Acquire, Release
<1>1. CASE Submit(t)       BY <1>1 DEF Submit
<1>2. CASE Cancel(t)       BY <1>2 DEF Cancel
<1>3. CASE OpenEnds(t)
  <2>1. Queued \subseteq Speaks  BY DEF Queued
  <2> QED  BY <1>3, <2>1 DEF OpenEnds
<1>4. CASE Probe(t)        BY <1>4 DEF Probe, ControlProbe
<1>5. CASE Chat(t)         BY <1>5 DEF Chat, ChatPost
<1>6. CASE NextEvent(t)    BY <1>6 DEF NextEvent
<1>7. CASE StreamEnds(t)
  <2>1. Queued \subseteq Speaks  BY DEF Queued
  <2> QED  BY <1>7, <2>1 DEF StreamEnds
<1>8. CASE StopWorkers(t)  BY <1>8 DEF StopWorkers, WorkerReset
<1>9. CASE GiveBack(t)     BY <1>9 DEF GiveBack
<1>10. CASE GrowContext(t) BY <1>10 DEF GrowContext, WorkerReset, turnVars
<1>11. CASE RepairChat(t)  BY <1>11 DEF RepairChat, ChatPost, turnVars
<1> QED
  BY <1>1, <1>2, <1>3, <1>4, <1>5, <1>6, <1>7, <1>8, <1>9, <1>10, <1>11

\* A step of yield_point keeps the types.
LEMMA TypeYield ==
    ASSUME TypeInv, NEW t \in Turns, YieldStep(t)
    PROVE  TypeInv'
<1> USE DEF TypeInv, WaiterInv, TypeOK, GateTypeOK, TurnState, Go, gateVars,
            speakVars, Acquire, Release, AfterYield
<1>1. CASE PopWaiter(t)
  <2>1. CASE pending = <<>>  BY <1>1, <2>1 DEF PopWaiter
  <2>2. CASE pending # <<>>
    <3>1. Head(pending) \in Speaks /\ Tail(pending) \in Seq(Speaks)  BY <2>2
    <3> QED  BY <1>1, <2>2, <3>1 DEF PopWaiter
  <2> QED  BY <2>1, <2>2
<1>2. CASE HoldRefused(t)     BY <1>2 DEF HoldRefused, HoldFailed
<1>3. CASE HoldLate(t)        BY <1>3 DEF HoldLate, HoldFailed
<1>4. CASE HoldServed(t)      BY <1>4 DEF HoldServed, ControlHold
<1>5. CASE HoldAcked(t)       BY <1>5 DEF HoldAcked
<1>6. CASE HoldTimesOut(t)    BY <1>6 DEF HoldTimesOut, HoldFailed, ControlHoldTimeout
<1>7. CASE HoldAnswerLost(t)  BY <1>7 DEF HoldAnswerLost, HoldFailed
<1>8. CASE GiveLock(t)        BY <1>8 DEF GiveLock
<1>9. CASE Grant(t)           BY <1>9 DEF Grant
<1>10. CASE SeeTaken(t)       BY <1>10 DEF SeeTaken
<1>11. CASE Retake(t)         BY <1>11 DEF Retake
<1>12. CASE Reacquire(t)      BY <1>12 DEF Reacquire
<1>13. CASE ReleaseGate(t)
  <2>1. GateTypeOK'  BY <1>13 DEF ReleaseGate, ControlRelease
  <2>2. late' \subseteq late \cup {<<t, "release">>}  BY <1>13 DEF ReleaseGate
  <2> QED  BY <1>13, <2>1, <2>2 DEF ReleaseGate
<1> QED
  BY <1>1, <1>2, <1>3, <1>4, <1>5, <1>6, <1>7, <1>8, <1>9, <1>10, <1>11,
     <1>12, <1>13 DEF YieldStep

\* A step of a speak request keeps the types.
LEMMA TypeSpeak ==
    ASSUME TypeInv, NEW s \in Speaks, EnterFast(s) \/ EnterBusy(s) \/ SpeakStep(s)
    PROVE  TypeInv'
<1> USE DEF TypeInv, WaiterInv, TypeOK, GateTypeOK, SpeakState, SpeakGo, gateVars,
            turnVars, Acquire, Release
<1>1. CASE EnterFast(s)     BY <1>1 DEF EnterFast
<1>2. CASE EnterBusy(s)     BY <1>2 DEF EnterBusy
<1>3. CASE Enqueue(s)
  <2>1. Append(pending, s) \in Seq(Speaks)  BY DEF TypeInv
  <2> QED  BY <1>3, <2>1 DEF Enqueue
<1>4. CASE GiveUp(s)        BY <1>4 DEF GiveUp
<1>5. CASE SeeGrant(s)      BY <1>5 DEF SeeGrant
<1>6. CASE LeaveQueue(s)
  <2>1. pending' \in Seq(Speaks)  BY <1>6, RemovedAtType DEF LeaveQueue
  <2> QED  BY <1>6, <2>1 DEF LeaveQueue
<1>7. CASE Take(s)          BY <1>7 DEF Take
<1>8. CASE TakeTimesOut(s)  BY <1>8 DEF TakeTimesOut
<1>9. CASE EndSynthesis(s)  BY <1>9 DEF EndSynthesis
<1> QED
  BY <1>1, <1>2, <1>3, <1>4, <1>5, <1>6, <1>7, <1>8, <1>9 DEF SpeakStep

\* Every step keeps the types.
LEMMA TypeStep == TypeInv /\ [Next]_vars => TypeInv'
<1> SUFFICES ASSUME TypeInv, [Next]_vars PROVE TypeInv'
  OBVIOUS
<1>1. CASE \E t \in Turns : Submit(t) \/ Cancel(t) \/ GrowContext(t) \/ RepairChat(t)
                                 \/ TurnStep(t)
  BY <1>1, TypeTurn, TypeYield DEF TurnStep
<1>2. ASSUME NEW t \in Turns, LateServed(t) PROVE TypeInv'
  <2>1. GateTypeOK'
    BY <1>2 DEF LateServed, ControlHold, ControlHoldTimeout, ControlRelease,
       TypeInv, TypeOK, GateTypeOK, gateVars
  <2>2. late' \subseteq late \cup {<<t, "acking">>}
    BY <1>2 DEF LateServed
  <2> QED
    BY <1>2, <2>1, <2>2 DEF LateServed, TypeInv, WaiterInv, TypeOK, turnVars, speakVars
<1>3. CASE \E s \in Speaks : EnterFast(s) \/ EnterBusy(s) \/ SpeakStep(s)
  BY <1>3, TypeSpeak
<1>4. CASE \E o \in Ops : OpStarts(o) \/ OpStopsWorkers(o) \/ OpEnds(o)
  BY <1>4 DEF OpStarts, OpStopsWorkers, OpEnds, WorkerReset, Acquire, Release,
     TypeInv, WaiterInv, TypeOK, GateTypeOK, gateVars, turnVars, speakVars
<1>5. CASE Decode
  BY <1>5 DEF Decode, BeforeStep, Unpark, AfterStep, CrashNet, HoldExpires,
     TypeInv, WaiterInv, TypeOK, GateTypeOK, turnVars, speakVars
<1>6. CASE UNCHANGED vars
  BY <1>6 DEF vars, TypeInv, WaiterInv, TypeOK, GateTypeOK, gateVars, turnVars,
     speakVars
<1> QED
  BY <1>1, <1>2, <1>3, <1>4, <1>5, <1>6 DEF Next

\* Every variable always has its type, for all constants: the queue is a
\* sequence of speak requests, the lock is held by a known thread or by nobody.
THEOREM TypeCorrect == Spec => []TypeOK
<1>1. TypeInv => TypeOK
  BY DEF TypeInv
<1> QED
  BY <1>1, TypeInit, TypeStep, PTL DEF Spec

----------------------------------------------------------------------------
(* The hand-off. *)

LEMMA SafeInit == Init => OwnerInv /\ StreamInv /\ GateInv
<1> SUFFICES ASSUME Init PROVE OwnerInv /\ StreamInv /\ GateInv
  OBVIOUS
<1>1. \A t \in Turns : turn[t] = "idle" /\ owner # t
  BY ConstantsApart DEF Init
<1>2. \A s \in Speaks : speak[s] = "idle" /\ owner # s
  BY ConstantsApart DEF Init
<1> QED
  BY <1>1, <1>2 DEF Init, GateInit, OwnerInv, StreamInv, GateInv, Owning,
     TurnState, LockAway, Handoff

\* A step of a turn outside yield_point keeps the hand-off invariants.
LEMMA SafeTurn ==
    ASSUME IInv, ClientsWait, NEW t \in Turns,
           \/ Submit(t) \/ Cancel(t) \/ OpenEnds(t) \/ Probe(t) \/ Chat(t)
           \/ NextEvent(t) \/ StreamEnds(t) \/ StopWorkers(t) \/ GiveBack(t)
           \/ GrowContext(t) \/ RepairChat(t)
    PROVE  OwnerInv' /\ StreamInv' /\ GateInv'
<1> USE ConstantsApart
    DEF IInv, TypeInv, TypeOK, GateTypeOK, OwnerInv, StreamInv, GateInv, Owning,
        TurnState, LockAway, Go, gateVars, speakVars, Acquire, Release, Held,
        SelfBlocked, Active
<1>1. CASE Submit(t)       BY <1>1 DEF Submit
<1>2. CASE Cancel(t)       BY <1>2 DEF Cancel
<1>3. CASE OpenEnds(t)     BY <1>3 DEF OpenEnds
<1>4. CASE Probe(t)
  <2>1. t \notin streams /\ t \notin capable
    BY <1>4 DEF Probe
  <2>2. \A u \in Turns : u \in capable' => u \in capable \/ (u = t /\ secret' = t)
    BY <1>4, <2>1 DEF Probe, ControlProbe, SecretOk
  <2>3. \A u \in Turns : secret = u => secret' = u
    BY <1>4 DEF Probe, ControlProbe
  <2>4. UNCHANGED <<owner, desire, decode, streams, ending, cancelled, failed,
                    waiter, speak, late>>
    BY <1>4 DEF Probe, ControlProbe
  <2>5. turn' = [turn EXCEPT ![t] = "chat"] /\ turn[t] = "open"
    BY <1>4 DEF Probe
  <2>6. OwnerInv' /\ StreamInv'
    BY <2>4, <2>5
  <2> QED
    BY <2>1, <2>2, <2>3, <2>4, <2>5, <2>6
<1>5. CASE Chat(t)
  <2>1. t \notin ending /\ owner = t
    BY <1>5 DEF Chat
  <2>2. UNCHANGED <<owner, secret, desire, decode, capable, ending, cancelled,
                    failed, waiter, speak, late>>
    BY <1>5 DEF Chat, ChatPost
  <2>3. turn[t] = "chat" /\ streams' = streams \cup {t}
    BY <1>5 DEF Chat, ChatPost
  <2>4. \E to \in {"pop", "consume"} : turn' = [turn EXCEPT ![t] = to]
    BY <1>5 DEF Chat
  <2> QED
    BY <2>1, <2>2, <2>3, <2>4
<1>6. CASE NextEvent(t)    BY <1>6 DEF NextEvent
<1>7. CASE StreamEnds(t)   BY <1>7 DEF StreamEnds, ClientsWait
<1>8. CASE StopWorkers(t)
  <2>1. turn' = [turn EXCEPT ![t] = "exit"] /\ turn[t] = "stop" /\ owner = t
    BY <1>8 DEF StopWorkers
  <2>2. UNCHANGED <<owner, capable, ending, cancelled, failed, waiter, speak>>
    BY <1>8 DEF StopWorkers
  <2>3. OwnerInv'
    BY <2>1, <2>2
  <2>4. CASE t \in cancelled \cup failed
    <3>1. WorkerReset /\ late' = {}
      BY <1>8, <2>4 DEF StopWorkers
    <3>2. \A u \in Turns : turn'[u] \notin {"chat", "acking", "parked"}
      BY <2>1
    <3> QED
      BY <2>1, <2>2, <2>3, <3>1, <3>2 DEF WorkerReset
  <2>5. CASE t \notin cancelled \cup failed
    <3>1. UNCHANGED <<secret, desire, decode, streams, late>>
      BY <1>8, <2>5 DEF StopWorkers
    <3>2. t \notin streams
      BY <2>1, <2>5
    <3> QED
      BY <2>1, <2>2, <2>3, <3>1, <3>2
  <2> QED  BY <2>4, <2>5
<1>9. CASE GiveBack(t)     BY <1>9 DEF GiveBack
<1>10. CASE GrowContext(t) BY <1>10 DEF GrowContext, WorkerReset, turnVars
<1>11. CASE RepairChat(t)  BY <1>11 DEF RepairChat, ChatPost, turnVars
<1> QED
  BY <1>1, <1>2, <1>3, <1>4, <1>5, <1>6, <1>7, <1>8, <1>9, <1>10, <1>11

\* A step of yield_point keeps the hand-off invariants.
LEMMA SafeYield ==
    ASSUME IInv, ClientsWait, NEW t \in Turns, YieldStep(t)
    PROVE  OwnerInv' /\ StreamInv' /\ GateInv'
<1> USE ConstantsApart
    DEF IInv, TypeInv, TypeOK, GateTypeOK, OwnerInv, StreamInv, GateInv, Owning,
        TurnState, LockAway, Go, gateVars, speakVars, Acquire, Release, Held,
        SelfBlocked, AfterYield
<1>1. CASE PopWaiter(t)       BY <1>1 DEF PopWaiter
<1>2. CASE HoldRefused(t)     BY <1>2 DEF HoldRefused, HoldFailed
<1>3. CASE HoldLate(t)        BY <1>3 DEF HoldLate, ClientsWait
<1>4. CASE HoldServed(t)      BY <1>4 DEF HoldServed, ControlHold, HoldMustWait, InStep, Parked
<1>5. CASE HoldAcked(t)       BY <1>5 DEF HoldAcked, Parked
<1>6. CASE HoldTimesOut(t)    BY <1>6 DEF HoldTimesOut, HoldFailed, ControlHoldTimeout, Parked
<1>7. CASE HoldAnswerLost(t)  BY <1>7 DEF HoldAnswerLost, HoldFailed
<1>8. CASE GiveLock(t)        BY <1>8 DEF GiveLock
<1>9. CASE Grant(t)           BY <1>9 DEF Grant
<1>10. CASE SeeTaken(t)       BY <1>10 DEF SeeTaken
<1>11. CASE Retake(t)         BY <1>11 DEF Retake
<1>12. CASE Reacquire(t)      BY <1>12 DEF Reacquire
<1>13. CASE ReleaseGate(t)
  <2>1. owner = t /\ turn[t] = "unpark"
    BY <1>13 DEF ReleaseGate
  <2>2. \E to \in {"consume", "pop"} : turn' = [turn EXCEPT ![t] = to]
    BY <1>13 DEF ReleaseGate
  <2>3. UNCHANGED <<owner, secret, decode, streams, capable, ending, cancelled,
                    failed, waiter, speak, late>>
    BY <1>13 DEF ReleaseGate, ControlRelease, ClientsWait
  <2>4. secret # t => desire' = desire
    BY <1>13 DEF ReleaseGate, ControlRelease, ClientsWait
  <2>5. OwnerInv' /\ StreamInv'
    <3>1. \A u \in Turns : u # t => turn'[u] = turn[u]
      BY <2>2
    <3>2. t \in ending => turn'[t] = "pop"
      BY <1>13 DEF ReleaseGate
    <3>3. turn'[t] \in {"consume", "pop"}
      BY <2>2
    <3> QED
      BY <2>1, <2>3, <3>1, <3>2, <3>3
  <2>6. \A u \in Turns : SelfBlocked(u)' <=> SelfBlocked(u)
    BY <2>1, <2>2, <2>3
  <2> QED
    BY <2>1, <2>2, <2>3, <2>4, <2>5, <2>6
<1> QED
  BY <1>1, <1>2, <1>3, <1>4, <1>5, <1>6, <1>7, <1>8, <1>9, <1>10, <1>11,
     <1>12, <1>13 DEF YieldStep

\* A step of a speak request keeps the hand-off invariants.
LEMMA SafeSpeak ==
    ASSUME IInv, NEW s \in Speaks, EnterFast(s) \/ EnterBusy(s) \/ SpeakStep(s)
    PROVE  OwnerInv' /\ StreamInv' /\ GateInv'
<1> USE ConstantsApart
    DEF IInv, TypeInv, TypeOK, OwnerInv, StreamInv, GateInv, Owning, SpeakState,
        SpeakGo, gateVars, turnVars, Acquire, Release, Held, SelfBlocked
<1>1. CASE EnterFast(s)     BY <1>1 DEF EnterFast
<1>2. CASE EnterBusy(s)     BY <1>2 DEF EnterBusy
<1>3. CASE Enqueue(s)       BY <1>3 DEF Enqueue
<1>4. CASE GiveUp(s)        BY <1>4 DEF GiveUp
<1>5. CASE SeeGrant(s)      BY <1>5 DEF SeeGrant
<1>6. CASE LeaveQueue(s)    BY <1>6 DEF LeaveQueue
<1>7. CASE Take(s)          BY <1>7 DEF Take
<1>8. CASE TakeTimesOut(s)  BY <1>8 DEF TakeTimesOut
<1>9. CASE EndSynthesis(s)  BY <1>9 DEF EndSynthesis
<1> QED
  BY <1>1, <1>2, <1>3, <1>4, <1>5, <1>6, <1>7, <1>8, <1>9 DEF SpeakStep

\* A step of the decode thread keeps the hand-off invariants.
LEMMA SafeDecode ==
    ASSUME IInv, Decode
    PROVE  OwnerInv' /\ StreamInv' /\ GateInv'
<1> USE ConstantsApart
    DEF IInv, TypeInv, TypeOK, GateTypeOK, OwnerInv, StreamInv, GateInv, Owning,
        LockAway, turnVars, speakVars, Held, SelfBlocked
<1>1. UNCHANGED <<owner, turnVars, speakVars, late>>
  BY DEF Decode
<1>2. CASE BeforeStep  BY <1>1, <1>2 DEF BeforeStep
<1>3. CASE Unpark      BY <1>1, <1>3 DEF Unpark
<1>4. CASE \E finished \in SUBSET streams : AfterStep(finished)
  BY <1>1, <1>4 DEF AfterStep
<1>5. CASE CrashNet
  BY <1>1, <1>5 DEF CrashNet, HoldExpires, NoHandoffUnderWay, Handoff
<1> QED  BY <1>2, <1>3, <1>4, <1>5 DEF Decode

LEMMA SafeStep == ClientsWait /\ IInv /\ [Next]_vars => IInv'
<1> SUFFICES ASSUME ClientsWait, IInv, [Next]_vars
             PROVE  OwnerInv' /\ StreamInv' /\ GateInv'
  BY TypeStep DEF IInv
<1>1. CASE \E t \in Turns : Submit(t) \/ Cancel(t) \/ GrowContext(t) \/ RepairChat(t)
                                 \/ TurnStep(t)
  BY <1>1, SafeTurn, SafeYield DEF TurnStep
<1>2. CASE \E t \in Turns : LateServed(t)
  BY <1>2 DEF LateServed, IInv, GateInv
<1>3. CASE \E s \in Speaks : EnterFast(s) \/ EnterBusy(s) \/ SpeakStep(s)
  BY <1>3, SafeSpeak
<1>4. CASE \E o \in Ops : OpStarts(o) \/ OpStopsWorkers(o) \/ OpEnds(o)
  BY <1>4, ConstantsApart
  DEF OpStarts, OpStopsWorkers, OpEnds, WorkerReset, Acquire, Release, IInv,
      TypeInv, TypeOK, GateTypeOK, OwnerInv, StreamInv, GateInv, Owning, LockAway,
      TurnState, SelfBlocked, Held, gateVars, turnVars, speakVars
<1>5. CASE Decode
  BY <1>5, SafeDecode
<1>6. CASE UNCHANGED vars
  BY <1>6 DEF vars, gateVars, turnVars, speakVars, IInv, OwnerInv, StreamInv,
     GateInv, SelfBlocked, Held
<1> QED
  BY <1>1, <1>2, <1>3, <1>4, <1>5, <1>6 DEF Next

\* In a state of the invariant no decode step runs beside a synthesis.
LEMMA SafeImplies == IInv => NoOverlap /\ HeldWhileLockAway
<1> SUFFICES ASSUME IInv PROVE NoOverlap /\ HeldWhileLockAway
  OBVIOUS
<1>1. HeldWhileLockAway
  BY DEF IInv, GateInv, HeldWhileLockAway
<1>2. ASSUME NEW s \in Speaks, speak[s] = "synth", decode = "step"
      PROVE  FALSE
  <2>1. owner = s /\ \A t \in Turns : owner # t
    BY <1>2, ConstantsApart DEF IInv, OwnerInv
  <2>2. PICK t \in streams : TRUE
    BY <1>2 DEF IInv, StreamInv
  <2>3. t \in Turns /\ turn[t] \in LockAway
    BY <2>1, <2>2 DEF IInv, TypeInv, TypeOK, GateTypeOK, OwnerInv, StreamInv,
       Owning, TurnState
  <2> QED
    BY <1>2, <2>1, <2>2, <2>3 DEF IInv, GateInv, SelfBlocked, Held
<1> QED
  BY <1>1, <1>2 DEF NoOverlap

\* "No overlapping GPU generation and synthesis" (speech_yield.py): with any
\* number of turns, speaks and operations stealing the lock at any moment, no
\* decode step runs while a speak request synthesizes.
THEOREM NoOverlapAlways == ClientsWait => (Spec => []NoOverlap)
<1> SUFFICES ASSUME ClientsWait PROVE Spec => []NoOverlap
  OBVIOUS
<1>1. Init => IInv
  BY TypeInit, SafeInit DEF IInv
<1>2. IInv /\ [Next]_vars => IInv'
  BY SafeStep
<1>3. IInv => NoOverlap
  BY SafeImplies
<1> QED
  BY <1>1, <1>2, <1>3, PTL DEF Spec

\* While a turn's lock is away and its reply still in the worker's batch, the
\* gate stays held, unless some turn waits for its own lock.
THEOREM HeldAlways == ClientsWait => (Spec => []HeldWhileLockAway)
<1> SUFFICES ASSUME ClientsWait PROVE Spec => []HeldWhileLockAway
  OBVIOUS
<1>1. Init => IInv
  BY TypeInit, SafeInit DEF IInv
<1>2. IInv /\ [Next]_vars => IInv'
  BY SafeStep
<1>3. IInv => HeldWhileLockAway
  BY SafeImplies
<1> QED
  BY <1>1, <1>2, <1>3, PTL DEF Spec

\* The lock is always in the hands of somebody who still runs and will act on
\* it: a turn that has not given it away, or the speak that synthesizes.
THEOREM LockOwnerAlways == ClientsWait => (Spec => []LockHasLiveOwner)
<1> SUFFICES ASSUME ClientsWait PROVE Spec => []LockHasLiveOwner
  OBVIOUS
<1>1. Init => IInv
  BY TypeInit, SafeInit DEF IInv
<1>2. IInv /\ [Next]_vars => IInv'
  BY SafeStep
<1>3. IInv => LockHasLiveOwner
  BY DEF IInv, TypeInv, TypeOK, OwnerInv, LockHasLiveOwner, Active, Owning,
     TurnState, LockAway
<1> QED
  BY <1>1, <1>2, <1>3, PTL DEF Spec

----------------------------------------------------------------------------
(* Refinement of GpuUse. *)

LEMMA SafeImpliesNext == IInv' => NoOverlap'
  BY SafeImplies, PTL

absVars == <<decode = "step", {s \in Speaks : speak[s] = "synth"}>>

\* A step that leaves the speaks alone and starts no decode step: it ends one,
\* if it kills the worker, or changes nothing that GpuUse sees.
LEMMA QuietRefines ==
    ASSUME UNCHANGED speak, decode' \in {decode, "out"}
    PROVE  [Gpu!Next]_absVars
<1>1. CASE decode' = decode
  BY <1>1 DEF absVars
<1>2. CASE decode = "step" /\ decode' = "out"
  <2>1. Gpu!EndStep
    BY <1>2 DEF Gpu!EndStep
  <2> QED  BY <2>1 DEF Gpu!Next
<1>3. CASE decode # "step" /\ decode' = "out"
  BY <1>3 DEF absVars
<1> QED  BY <1>1, <1>2, <1>3

\* A decode step starts only while nothing is synthesized.
LEMMA DecodeRefines ==
    ASSUME IInv, IInv', Decode
    PROVE  [Gpu!Next]_absVars
<1>1. UNCHANGED speak
  BY DEF Decode, speakVars
<1>2. CASE decode' = "step" /\ decode # "step"
  <2>1. \A s \in Speaks : speak[s] # "synth"
    BY <1>1, <1>2, SafeImpliesNext DEF NoOverlap
  <2>2. Gpu!BeginStep
    BY <1>1, <1>2, <2>1 DEF Gpu!BeginStep
  <2> QED  BY <2>2 DEF Gpu!Next
<1>3. CASE ~(decode' = "step" /\ decode # "step")
  <2>1. CASE BeforeStep
    <3>1. decode' = "park"
      BY <1>3, <2>1 DEF BeforeStep
    <3> QED  BY <1>1, <2>1, <3>1 DEF BeforeStep, absVars
  <2>2. CASE Unpark \/ CrashNet
    BY <1>3, <2>2 DEF Unpark, CrashNet, HoldExpires
  <2>3. CASE \E finished \in SUBSET streams : AfterStep(finished)
    BY <1>1, <2>3, QuietRefines DEF AfterStep
  <2> QED  BY <2>1, <2>2, <2>3 DEF Decode
<1> QED  BY <1>2, <1>3

\* A synthesis starts only when no decode step and no other synthesis runs.
LEMMA SpeakRefines ==
    ASSUME IInv, IInv', NEW s \in Speaks, EnterFast(s) \/ EnterBusy(s) \/ SpeakStep(s)
    PROVE  [Gpu!Next]_absVars
<1> DEFINE synth == {x \in Speaks : speak[x] = "synth"}
<1>1. UNCHANGED decode /\ speak \in [Speaks -> SpeakState]
      /\ \E to \in SpeakState : speak' = [speak EXCEPT ![s] = to]
  BY DEF IInv, TypeInv, TypeOK, EnterFast, EnterBusy, SpeakStep, Enqueue, GiveUp,
     SeeGrant, LeaveQueue, Take, TakeTimesOut, EndSynthesis, SpeakGo, gateVars,
     SpeakState
<1>2. CASE EnterFast(s) \/ Take(s)
  <2>1. speak'[s] = "synth" /\ owner = NoOne
    BY <1>1, <1>2 DEF EnterFast, Take, SpeakGo, Acquire
  <2>2. \A x \in Speaks : speak[x] # "synth"
    BY <2>1, ConstantsApart DEF IInv, OwnerInv
  <2>3. decode # "step"
    BY <1>1, <2>1, SafeImpliesNext DEF NoOverlap
  <2>4. synth = {} /\ synth' = {s}
    BY <1>1, <2>1, <2>2
  <2>5. Gpu!BeginSpeech(s)
    BY <1>1, <2>3, <2>4 DEF Gpu!BeginSpeech
  <2> QED  BY <2>5 DEF Gpu!Next
<1>3. CASE EndSynthesis(s)
  <2>1. speak[s] = "synth" /\ speak'[s] = "done"
    BY <1>1, <1>3 DEF EndSynthesis, SpeakGo
  <2>2. synth = {s}
    BY <2>1 DEF IInv, OwnerInv
  <2>3. synth' = {}
    BY <1>1, <2>1, <2>2
  <2>4. Gpu!EndSpeech
    BY <1>1, <2>2, <2>3 DEF Gpu!EndSpeech
  <2> QED  BY <2>4 DEF Gpu!Next
<1>4. CASE ~(EnterFast(s) \/ Take(s) \/ EndSynthesis(s))
  <2>1. speak[s] # "synth" /\ speak'[s] # "synth"
    BY <1>1, <1>4 DEF EnterBusy, SpeakStep, Enqueue, GiveUp, SeeGrant, LeaveQueue,
       TakeTimesOut, SpeakGo
  <2>2. synth' = synth
    BY <1>1, <2>1
  <2> QED  BY <1>1, <2>2 DEF absVars
<1> QED  BY <1>2, <1>3, <1>4

\* A step of a turn, an operation or a late request is quiet.
LEMMA OthersAreQuiet ==
    ASSUME \/ \E t \in Turns :
                 \/ Submit(t) \/ Cancel(t) \/ GrowContext(t) \/ RepairChat(t)
                 \/ TurnStep(t) \/ LateServed(t)
           \/ \E o \in Ops : OpStarts(o) \/ OpStopsWorkers(o) \/ OpEnds(o)
    PROVE  UNCHANGED speak /\ decode' \in {decode, "out"}
<1>1. CASE \E t \in Turns : Submit(t) \/ Cancel(t) \/ GrowContext(t)
                               \/ RepairChat(t) \/ LateServed(t)
  BY <1>1 DEF Submit, Cancel, GrowContext, WorkerReset, RepairChat, ChatPost,
     turnVars, LateServed, ControlHold, ControlHoldTimeout,
     ControlRelease, gateVars, speakVars
<1>2. CASE \E t \in Turns : YieldStep(t)
  BY <1>2 DEF YieldStep, PopWaiter, HoldRefused, HoldLate, HoldFailed, HoldServed,
     ControlHold, HoldAcked, HoldTimesOut, ControlHoldTimeout, HoldAnswerLost,
     GiveLock, Grant, SeeTaken, Retake, Reacquire, ReleaseGate, ControlRelease,
     gateVars, speakVars
<1>3. CASE \E t \in Turns : OpenEnds(t) \/ Probe(t) \/ Chat(t) \/ NextEvent(t)
                               \/ StreamEnds(t) \/ StopWorkers(t) \/ GiveBack(t)
  BY <1>3 DEF OpenEnds, Probe, ControlProbe, Chat, ChatPost, NextEvent, StreamEnds,
     StopWorkers, WorkerReset, GiveBack, gateVars, speakVars
<1>4. CASE \E o \in Ops : OpStarts(o) \/ OpStopsWorkers(o) \/ OpEnds(o)
  BY <1>4 DEF OpStarts, OpStopsWorkers, WorkerReset, OpEnds, gateVars, speakVars
<1> QED  BY <1>1, <1>2, <1>3, <1>4 DEF TurnStep

\* The hand-off implements the abstract use of the GPU: seen from outside,
\* decode steps and syntheses take turns, whoever takes the lock when.
THEOREM Refinement == ClientsWait => (Spec => ImplementsGpuUse)
<1> SUFFICES ASSUME ClientsWait PROVE Spec => ImplementsGpuUse
  OBVIOUS
<1>1. Init => IInv
  BY TypeInit, SafeInit DEF IInv
<1>2. IInv /\ [Next]_vars => IInv'
  BY SafeStep
<1>3. Init => Gpu!Init
  BY DEF Init, GateInit, Gpu!Init
<1>4. IInv /\ IInv' /\ [Next]_vars => [Gpu!Next]_absVars
  <2> SUFFICES ASSUME IInv, IInv', [Next]_vars PROVE [Gpu!Next]_absVars
    OBVIOUS
  <2>1. CASE UNCHANGED vars
    BY <2>1, QuietRefines DEF vars, gateVars, speakVars
  <2>2. CASE Decode
    BY <2>2, DecodeRefines
  <2>3. CASE \E s \in Speaks : EnterFast(s) \/ EnterBusy(s) \/ SpeakStep(s)
    BY <2>3, SpeakRefines
  <2>4. CASE \/ \E t \in Turns :
                   \/ Submit(t) \/ Cancel(t) \/ GrowContext(t) \/ RepairChat(t)
                 \/ TurnStep(t) \/ LateServed(t)
             \/ \E o \in Ops : OpStarts(o) \/ OpStopsWorkers(o) \/ OpEnds(o)
    BY <2>4, OthersAreQuiet, QuietRefines
  <2> QED  BY <2>1, <2>2, <2>3, <2>4 DEF Next
<1> QED
  BY <1>1, <1>2, <1>3, <1>4, PTL DEF Spec, ImplementsGpuUse, Gpu!Spec, absVars

----------------------------------------------------------------------------
(* The queue of waiting speaks. *)

\* The entries are distinct speaks that still wait, and were not granted.
EntriesInv ==
    /\ \A i, j \in DOMAIN pending : pending[i] = pending[j] => i = j
    /\ Len(pending) <= MaxPending
    /\ \A s \in Queued : speak[s] \in {"queued", "quit"} /\ s \notin granted

\* A turn has an entry in hand only inside yield_point; it took it out of the
\* queue, and it does not let go of it before the grant or the refusal.
HandInv ==
    /\ \A t \in Turns : waiter[t] # NoOne =>
           /\ turn[t] \in {"hold", "acking", "parked", "grant", "wait_taken"}
           /\ waiter[t] \notin Queued
           /\ speak[waiter[t]] \notin {"idle", "enqueue"}
    /\ \A t \in Turns : turn[t] = "wait_taken" => waiter[t] \in granted
    /\ \A s \in granted : speak[s] \notin {"idle", "enqueue"}

QueueInv == TypeInv /\ EntriesInv /\ HandInv /\ PoppedIsAnswered

\* Distinct entries: the queue has as many speaks as places taken.
LEMMA DistinctEntries ==
    ASSUME pending \in Seq(Speaks),
           \A i, j \in DOMAIN pending : pending[i] = pending[j] => i = j
    PROVE  Cardinality(Queued) = Len(pending)
<1>1. Len(pending) \in Nat /\ DOMAIN pending = 1..Len(pending)
  OBVIOUS
<1>2. pending \in [1..Len(pending) -> Queued]
  BY <1>1 DEF Queued
<1>3. \A s \in Queued : \E i \in 1..Len(pending) : pending[i] = s
  BY <1>1 DEF Queued
<1>4. pending \in Bijection(1..Len(pending), Queued)
  <2>1. \A i, j \in 1..Len(pending) : pending[i] = pending[j] => i = j
    BY <1>1
  <2>2. pending \in Injection(1..Len(pending), Queued)
    BY <1>2, <2>1 DEF Injection, IsInjective
  <2>3. pending \in Surjection(1..Len(pending), Queued)
    BY <1>2, <1>3 DEF Surjection
  <2> QED  BY <2>2, <2>3 DEF Bijection
<1>5. ExistsBijection(1..Len(pending), Queued)
  BY <1>4 DEF ExistsBijection
<1> QED
  BY <1>1, <1>5, FS_CountingElements

\* Taking an entry out leaves the others, and their order.
LEMMA RemovedAtEntries ==
    ASSUME pending \in Seq(Speaks), NEW i \in DOMAIN pending, pending' = RemovedAt(i),
           \A j, k \in DOMAIN pending : pending[j] = pending[k] => j = k
    PROVE  /\ \A j, k \in DOMAIN pending' : pending'[j] = pending'[k] => j = k
           /\ Len(pending') = Len(pending) - 1
           /\ Queued' = Queued \ {pending[i]}
<1>1. Len(pending) \in Nat /\ DOMAIN pending = 1..Len(pending) /\ i \in 1..Len(pending)
  OBVIOUS
<1>2. Len(pending) - 1 \in Nat
  BY <1>1
<1>3. pending' \in Seq(Speaks)
  BY RemovedAtType
<1>4. DOMAIN pending' = 1..(Len(pending) - 1)
  BY DEF RemovedAt
<1>5. Len(pending') = Len(pending) - 1
  BY <1>2, <1>3, <1>4
<1>6. \A j \in DOMAIN pending' : pending'[j] = pending[IF j < i THEN j ELSE j + 1]
  BY <1>4 DEF RemovedAt
<1>7. ASSUME NEW j \in DOMAIN pending', NEW k \in DOMAIN pending', pending'[j] = pending'[k]
      PROVE  j = k
  BY <1>1, <1>4, <1>6, <1>7
<1>8. ASSUME NEW j \in DOMAIN pending'
      PROVE  pending'[j] \in Queued \ {pending[i]}
  BY <1>1, <1>4, <1>6, <1>8 DEF Queued
<1>9. ASSUME NEW j \in DOMAIN pending, j # i
      PROVE  pending[j] \in Queued'
  <2>1. CASE j < i
    <3>1. j \in DOMAIN pending' /\ pending'[j] = pending[j]
      BY <1>1, <1>4, <1>6, <2>1
    <3> QED  BY <3>1 DEF Queued
  <2>2. CASE j > i
    <3>1. j - 1 \in DOMAIN pending' /\ pending'[j - 1] = pending[j]
      BY <1>1, <1>4, <1>6, <2>2
    <3> QED  BY <3>1 DEF Queued
  <2> QED  BY <1>1, <1>9, <2>1, <2>2
<1>10. Queued' = Queued \ {pending[i]}
  BY <1>8, <1>9 DEF Queued
<1> QED
  BY <1>5, <1>7, <1>10

\* So does yield_point, which takes the first.
LEMMA TailEntries ==
    ASSUME pending \in Seq(Speaks), pending # <<>>, pending' = Tail(pending),
           \A j, k \in DOMAIN pending : pending[j] = pending[k] => j = k
    PROVE  /\ \A j, k \in DOMAIN pending' : pending'[j] = pending'[k] => j = k
           /\ Len(pending') = Len(pending) - 1
           /\ Queued' = Queued \ {Head(pending)} /\ Head(pending) \in Queued
<1>1. Len(pending) \in Nat \ {0} /\ DOMAIN pending = 1..Len(pending) /\ 1 \in DOMAIN pending
  OBVIOUS
<1>2. Head(pending) = pending[1]
  BY <1>1
<1>3. pending' \in Seq(Speaks) /\ Len(pending') = Len(pending) - 1
      /\ DOMAIN pending' = 1..(Len(pending) - 1)
  BY <1>1
<1>4. \A j \in DOMAIN pending' : pending'[j] = pending[j + 1]
  BY <1>1, <1>3
<1>5. \A j \in DOMAIN pending' : j + 1 \in DOMAIN pending /\ j + 1 # 1
  BY <1>1, <1>3
<1>6. ASSUME NEW j \in DOMAIN pending', NEW k \in DOMAIN pending', pending'[j] = pending'[k]
      PROVE  j = k
  BY <1>1, <1>3, <1>4, <1>5, <1>6
<1>7. ASSUME NEW j \in DOMAIN pending'
      PROVE  pending'[j] \in Queued \ {pending[1]}
  BY <1>1, <1>4, <1>5, <1>7 DEF Queued
<1>8. ASSUME NEW j \in DOMAIN pending, j # 1
      PROVE  pending[j] \in Queued'
  <2>1. j - 1 \in DOMAIN pending' /\ pending'[j - 1] = pending[j]
    BY <1>1, <1>3, <1>4, <1>8
  <2> QED  BY <2>1 DEF Queued
<1>9. Queued' = Queued \ {pending[1]}
  <2>1. Queued' \subseteq Queued \ {pending[1]}
    BY <1>7 DEF Queued
  <2>2. Queued \ {pending[1]} \subseteq Queued'
    BY <1>8 DEF Queued
  <2> QED  BY <2>1, <2>2
<1> QED
  BY <1>1, <1>2, <1>3, <1>6, <1>9 DEF Queued

\* A speak that begins to wait comes last.
LEMMA AppendEntries ==
    ASSUME pending \in Seq(Speaks), NEW s \in Speaks \ Queued, pending' = Append(pending, s),
           \A j, k \in DOMAIN pending : pending[j] = pending[k] => j = k
    PROVE  /\ \A j, k \in DOMAIN pending' : pending'[j] = pending'[k] => j = k
           /\ Len(pending') = Len(pending) + 1
           /\ Queued' = Queued \cup {s}
<1>1. Len(pending) \in Nat /\ DOMAIN pending = 1..Len(pending)
  OBVIOUS
<1>2. /\ Len(pending') = Len(pending) + 1 /\ DOMAIN pending' = 1..(Len(pending) + 1)
      /\ \A j \in DOMAIN pending : pending'[j] = pending[j]
      /\ pending'[Len(pending) + 1] = s
  BY <1>1
<1>3. \A j \in DOMAIN pending : pending[j] # s
  BY DEF Queued
<1>4. ASSUME NEW j \in DOMAIN pending', NEW k \in DOMAIN pending', pending'[j] = pending'[k]
      PROVE  j = k
  BY <1>1, <1>2, <1>3, <1>4
<1>5. Queued' = Queued \cup {s}
  <2>1. \A j \in DOMAIN pending' : pending'[j] \in Queued \cup {s}
    BY <1>1, <1>2 DEF Queued
  <2>2. \A j \in DOMAIN pending : pending[j] \in Queued'
    BY <1>1, <1>2 DEF Queued
  <2>3. s \in Queued'
    BY <1>1, <1>2 DEF Queued
  <2> QED  BY <2>1, <2>2, <2>3 DEF Queued
<1> QED
  BY <1>2, <1>4, <1>5

\* Where no entry is added or taken, and what is answered stays so.
LEMMA QueueStays ==
    ASSUME QueueInv, UNCHANGED <<speak, pending, waiter>>, granted' = granted,
           refused \subseteq refused',
           \A t \in Turns : waiter[t] # NoOne =>
               turn'[t] \in {"hold", "acking", "parked", "grant", "wait_taken"},
           \A t \in Turns : turn'[t] = "wait_taken" => turn[t] = "wait_taken"
    PROVE  EntriesInv' /\ HandInv' /\ PoppedIsAnswered'
<1>1. Queued' = Queued
  BY DEF Queued
<1>2. EntriesInv'
  BY <1>1 DEF QueueInv, EntriesInv
<1>3. HandInv'
  BY <1>1 DEF QueueInv, HandInv
<1>4. PoppedIsAnswered'
  BY <1>1 DEF QueueInv, PoppedIsAnswered
<1> QED
  BY <1>2, <1>3, <1>4

\* A turn that lets go of an entry has answered it.
LEMMA QueueAnswers ==
    ASSUME QueueInv, NEW t \in Turns, UNCHANGED <<speak, pending, granted>>,
           refused \subseteq refused',
           waiter' = [waiter EXCEPT ![t] = NoOne],
           waiter[t] \in granted \cup refused',
           \A u \in Turns \ {t} : turn'[u] = turn[u],
           turn'[t] # "wait_taken"
    PROVE  EntriesInv' /\ HandInv' /\ PoppedIsAnswered'
<1>1. Queued' = Queued
  BY DEF Queued
<1>2. EntriesInv'
  BY <1>1 DEF QueueInv, EntriesInv
<1>3. waiter'[t] = NoOne /\ \A u \in Turns \ {t} : waiter'[u] = waiter[u]
  BY DEF QueueInv, TypeInv, TypeOK
<1>4. HandInv'
  BY <1>1, <1>3 DEF QueueInv, HandInv
<1>5. PoppedIsAnswered'
  <2>1. SUFFICES ASSUME NEW s \in Speaks, speak[s] = "queued", s \notin Queued,
                        s \notin granted \cup refused'
                 PROVE  \E u \in Turns : waiter'[u] = s
    BY <1>1 DEF PoppedIsAnswered
  <2>2. PICK u \in Turns : waiter[u] = s
    BY <2>1 DEF QueueInv, PoppedIsAnswered
  <2>3. u # t
    BY <2>1, <2>2
  <2> QED  BY <1>3, <2>2, <2>3
<1> QED
  BY <1>2, <1>4, <1>5

LEMMA QueueTurn ==
    ASSUME QueueInv, NEW t \in Turns,
           \/ Submit(t) \/ Cancel(t) \/ OpenEnds(t) \/ Probe(t) \/ Chat(t)
           \/ NextEvent(t) \/ StreamEnds(t) \/ StopWorkers(t) \/ GiveBack(t)
           \/ GrowContext(t) \/ RepairChat(t) \/ LateServed(t)
    PROVE  EntriesInv' /\ HandInv' /\ PoppedIsAnswered'
<1>1. turn \in [Turns -> TurnState] /\ HandInv
  BY DEF QueueInv, TypeInv, TypeOK
<1>2. UNCHANGED <<speak, pending, waiter>> /\ granted' = granted /\ refused \subseteq refused'
  BY DEF Submit, Cancel, OpenEnds, Probe, Chat, NextEvent, StreamEnds, StopWorkers, GiveBack,
         GrowContext, RepairChat, LateServed, turnVars, speakVars
<1>3. ASSUME NEW from, NEW to, Go(t, from, to),
             from \notin {"hold", "acking", "parked", "grant", "wait_taken"}, to # "wait_taken"
      PROVE  /\ \A u \in Turns : waiter[u] # NoOne =>
                    turn'[u] \in {"hold", "acking", "parked", "grant", "wait_taken"}
             /\ \A u \in Turns : turn'[u] = "wait_taken" => turn[u] = "wait_taken"
  BY <1>1, <1>3 DEF Go, HandInv
<1>4. CASE turn' = turn
  BY <1>1, <1>2, <1>4, QueueStays DEF HandInv
<1>5. \/ turn' = turn
      \/ \E from, to \in TurnState :
            /\ Go(t, from, to) /\ to # "wait_taken"
            /\ from \notin {"hold", "acking", "parked", "grant", "wait_taken"}
  <2>1. CASE Cancel(t) \/ GrowContext(t) \/ RepairChat(t) \/ LateServed(t)
    BY <2>1 DEF Cancel, GrowContext, RepairChat, LateServed, turnVars
  <2>2. CASE Submit(t) \/ OpenEnds(t) \/ Probe(t) \/ Chat(t)
    BY <2>2 DEF Submit, OpenEnds, Probe, Chat, TurnState
  <2>3. CASE NextEvent(t) \/ StreamEnds(t) \/ StopWorkers(t) \/ GiveBack(t)
    BY <2>3 DEF NextEvent, StreamEnds, StopWorkers, GiveBack, TurnState
  <2> QED  BY <2>1, <2>2, <2>3
<1> QED
  BY <1>2, <1>3, <1>4, <1>5, QueueStays

LEMMA QueueYield ==
    ASSUME QueueInv, NEW t \in Turns, YieldStep(t)
    PROVE  EntriesInv' /\ HandInv' /\ PoppedIsAnswered'
<1>1. /\ turn \in [Turns -> TurnState] /\ waiter \in [Turns -> Speaks \cup {NoOne}]
      /\ pending \in Seq(Speaks) /\ HandInv /\ EntriesInv /\ PoppedIsAnswered
      /\ \A u \in Turns :
            turn[u] \in {"hold", "acking", "parked", "grant"} => waiter[u] \in Speaks
  BY DEF QueueInv, TypeInv, TypeOK, WaiterInv
<1>2. NoOne \notin Speaks
  BY ConstantsApart
<1>3. CASE PopWaiter(t)
  <2>1. turn[t] = "pop" /\ waiter[t] = NoOne /\ UNCHANGED <<speak, granted, refused>>
    BY <1>1, <1>3 DEF PopWaiter, HandInv
  <2>2. CASE pending = <<>>
    <3>1. Go(t, "pop", AfterYield(t)) /\ UNCHANGED <<waiter, pending>>
      BY <1>3, <2>2 DEF PopWaiter
    <3>2. AfterYield(t) \in {"stop", "consume"}
      BY DEF AfterYield
    <3> QED  BY <1>1, <2>1, <3>1, <3>2, QueueStays DEF Go, HandInv
  <2>3. CASE pending # <<>>
    <3>1. /\ turn' = [turn EXCEPT ![t] = "hold"]
          /\ waiter' = [waiter EXCEPT ![t] = Head(pending)]
          /\ pending' = Tail(pending)
      BY <1>3, <2>3 DEF PopWaiter, Go
    <3>2. /\ \A j, k \in DOMAIN pending' : pending'[j] = pending'[k] => j = k
          /\ Len(pending') = Len(pending) - 1
          /\ Queued' = Queued \ {Head(pending)} /\ Head(pending) \in Queued
      BY <1>1, <2>3, <3>1, TailEntries DEF EntriesInv
    <3>3. /\ waiter'[t] = Head(pending) /\ turn'[t] = "hold"
          /\ \A u \in Turns \ {t} : waiter'[u] = waiter[u] /\ turn'[u] = turn[u]
      BY <1>1, <3>1
    <3>4. Len(pending) \in Nat /\ MaxPending \in Nat
      BY <1>1, SpeechYieldAssumption
    <3>5. EntriesInv'
      BY <1>1, <2>1, <3>2, <3>4 DEF EntriesInv
    <3>6. HandInv'
      BY <1>1, <2>1, <3>2, <3>3 DEF HandInv, EntriesInv
    <3>7. PoppedIsAnswered'
      <4>1. SUFFICES ASSUME NEW s \in Speaks, speak[s] = "queued", s \notin Queued',
                            s \notin granted \cup refused
                     PROVE  \E u \in Turns : waiter'[u] = s
        BY <2>1 DEF PoppedIsAnswered
      <4>2. CASE s = Head(pending)
        BY <3>3, <4>2
      <4>3. CASE s # Head(pending)
        <5>1. PICK u \in Turns : waiter[u] = s
          BY <1>1, <3>2, <4>1, <4>3 DEF PoppedIsAnswered
        <5> QED  BY <1>2, <2>1, <3>3, <5>1
      <4> QED  BY <4>2, <4>3
    <3> QED  BY <3>5, <3>6, <3>7
  <2> QED  BY <2>2, <2>3
<1>4. ASSUME NEW from \in {"hold", "acking", "parked"}, HoldFailed(t, from)
      PROVE  EntriesInv' /\ HandInv' /\ PoppedIsAnswered'
  <2>1. /\ UNCHANGED <<speak, pending, granted>> /\ refused' = refused \cup {waiter[t]}
        /\ waiter' = [waiter EXCEPT ![t] = NoOne]
        /\ turn' = [turn EXCEPT ![t] = AfterYield(t)]
    BY <1>4 DEF HoldFailed, Go
  <2>2. AfterYield(t) \in {"stop", "consume"}
    BY DEF AfterYield
  <2> QED  BY <1>1, <2>1, <2>2, QueueAnswers
<1>5. CASE HoldRefused(t) \/ HoldLate(t) \/ HoldTimesOut(t) \/ HoldAnswerLost(t)
  BY <1>4, <1>5 DEF HoldRefused, HoldLate, HoldTimesOut, HoldAnswerLost
<1>6. CASE HoldServed(t) \/ HoldAcked(t) \/ GiveLock(t)
  <2>1. /\ UNCHANGED <<speak, pending, waiter, granted, refused>>
        /\ turn[t] \in {"hold", "acking", "parked"}
        /\ \E to \in {"acking", "parked", "grant"} : turn' = [turn EXCEPT ![t] = to]
    BY <1>6 DEF HoldServed, HoldAcked, GiveLock, Go, speakVars
  <2> QED  BY <1>1, <2>1, QueueStays DEF HandInv
<1>7. CASE Grant(t)
  <2>1. /\ UNCHANGED <<speak, pending, waiter, refused>> /\ granted' = granted \cup {waiter[t]}
        /\ turn[t] = "grant" /\ turn' = [turn EXCEPT ![t] = "wait_taken"]
    BY <1>7 DEF Grant, Go
  <2>2. Queued' = Queued
    BY <2>1 DEF Queued
  <2>3. waiter[t] \in Speaks /\ waiter[t] # NoOne
    BY <1>1, <1>2, <2>1
  <2>4. EntriesInv'
    BY <1>1, <2>1, <2>2, <2>3 DEF EntriesInv, HandInv
  <2>5. HandInv'
    BY <1>1, <2>1, <2>2, <2>3 DEF HandInv
  <2>6. PoppedIsAnswered'
    BY <1>1, <2>1, <2>2 DEF PoppedIsAnswered
  <2> QED  BY <2>4, <2>5, <2>6
<1>8. CASE SeeTaken(t)
  <2>1. /\ UNCHANGED <<speak, pending, granted, refused>>
        /\ waiter' = [waiter EXCEPT ![t] = NoOne] /\ turn[t] = "wait_taken"
        /\ \E to \in {"reacquire", "retake"} : turn' = [turn EXCEPT ![t] = to]
    BY <1>8 DEF SeeTaken, Go, speakVars
  <2> QED  BY <1>1, <2>1, QueueAnswers DEF HandInv
<1>9. CASE Retake(t) \/ Reacquire(t) \/ ReleaseGate(t)
  <2>1. /\ UNCHANGED <<speak, pending, waiter, granted, refused>>
        /\ turn[t] \in {"retake", "reacquire", "unpark"}
        /\ \E to \in {"reacquire", "unpark", "consume", "pop"} : turn' = [turn EXCEPT ![t] = to]
    BY <1>9 DEF Retake, Reacquire, ReleaseGate, Go, speakVars
  <2> QED  BY <1>1, <2>1, QueueStays DEF HandInv
<1> QED
  BY <1>3, <1>5, <1>6, <1>7, <1>8, <1>9 DEF YieldStep

LEMMA QueueSpeak ==
    ASSUME QueueInv, NEW s \in Speaks, EnterFast(s) \/ EnterBusy(s) \/ SpeakStep(s)
    PROVE  EntriesInv' /\ HandInv' /\ PoppedIsAnswered'
<1>1. /\ speak \in [Speaks -> SpeakState] /\ waiter \in [Turns -> Speaks \cup {NoOne}]
      /\ pending \in Seq(Speaks) /\ HandInv /\ EntriesInv /\ PoppedIsAnswered
  BY DEF QueueInv, TypeInv, TypeOK
<1>2. UNCHANGED <<turn, waiter, granted, refused>>
  BY DEF EnterFast, EnterBusy, SpeakStep, Enqueue, GiveUp, SeeGrant, LeaveQueue, Take,
         TakeTimesOut, EndSynthesis, turnVars
<1>3. ASSUME NEW from \in SpeakState, NEW to \in SpeakState, SpeakGo(s, from, to),
             UNCHANGED pending,
             s \in Queued => to = "quit",
             to = "queued" => from = "queued",
             to \in {"idle", "enqueue"} => from = "idle"
      PROVE  EntriesInv' /\ HandInv' /\ PoppedIsAnswered'
  <2>1. /\ Queued' = Queued /\ speak[s] = from /\ speak'[s] = to
        /\ \A u \in Speaks \ {s} : speak'[u] = speak[u]
    BY <1>1, <1>3 DEF Queued, SpeakGo
  <2>2. Queued \subseteq Speaks
    BY <1>1 DEF Queued
  <2>3. EntriesInv'
    <3>1. ASSUME NEW u \in Queued' PROVE speak'[u] \in {"queued", "quit"} /\ u \notin granted'
      BY <1>1, <1>2, <1>3, <2>1, <2>2, <3>1 DEF EntriesInv
    <3> QED  BY <1>1, <1>3, <3>1 DEF EntriesInv
  <2>4. HandInv'
    <3>1. \A u \in Speaks : speak[u] \notin {"idle", "enqueue"} =>
                            speak'[u] \notin {"idle", "enqueue"}
      BY <1>3, <2>1
    <3>2. granted \subseteq Speaks
      BY DEF QueueInv, TypeInv, TypeOK
    <3> QED  BY <1>1, <1>2, <2>1, <3>1, <3>2 DEF HandInv
  <2>5. PoppedIsAnswered'
    BY <1>1, <1>2, <1>3, <2>1 DEF PoppedIsAnswered
  <2> QED  BY <2>3, <2>4, <2>5
<1>4. speak[s] \notin {"queued", "quit"} => s \notin Queued
  BY <1>1 DEF EntriesInv
<1>5. CASE EnterFast(s)     BY <1>3, <1>4, <1>5 DEF EnterFast, SpeakGo, SpeakState
<1>6. CASE EnterBusy(s)     BY <1>3, <1>4, <1>6 DEF EnterBusy, SpeakGo, SpeakState
<1>7. CASE Enqueue(s)
  <2>1. CASE Len(pending) >= MaxPending
    BY <1>3, <1>4, <1>7, <2>1 DEF Enqueue, SpeakGo, SpeakState
  <2>2. CASE ~(Len(pending) >= MaxPending)
    <3>1. /\ speak[s] = "enqueue" /\ speak' = [speak EXCEPT ![s] = "queued"]
          /\ pending' = Append(pending, s)
      BY <1>7, <2>2 DEF Enqueue, SpeakGo
    <3>2. s \notin Queued /\ s \notin granted /\ \A t \in Turns : waiter[t] # s
      BY <1>1, <1>4, <3>1, ConstantsApart DEF HandInv
    <3>3. /\ \A j, k \in DOMAIN pending' : pending'[j] = pending'[k] => j = k
          /\ Len(pending') = Len(pending) + 1
          /\ Queued' = Queued \cup {s}
      BY <1>1, <3>1, <3>2, AppendEntries DEF EntriesInv
    <3>4. /\ speak'[s] = "queued" /\ \A u \in Speaks \ {s} : speak'[u] = speak[u]
          /\ Queued \subseteq Speaks /\ granted \subseteq Speaks
      BY <1>1, <3>1 DEF Queued, QueueInv, TypeInv, TypeOK
    <3>5. Len(pending) \in Nat /\ MaxPending \in Nat
      BY <1>1, SpeechYieldAssumption
    <3>6. EntriesInv'
      BY <1>1, <1>2, <2>2, <3>2, <3>3, <3>4, <3>5 DEF EntriesInv
    <3>7. HandInv'
      BY <1>1, <1>2, <3>2, <3>3, <3>4 DEF HandInv
    <3>8. PoppedIsAnswered'
      BY <1>1, <1>2, <3>3, <3>4 DEF PoppedIsAnswered
    <3> QED  BY <3>6, <3>7, <3>8
  <2> QED  BY <2>1, <2>2
<1>8. CASE GiveUp(s)        BY <1>3, <1>8 DEF GiveUp, SpeakState
<1>9. CASE SeeGrant(s)
  <2>1. s \notin Queued
    BY <1>1, <1>9 DEF SeeGrant, EntriesInv
  <2> QED  BY <1>3, <1>9, <2>1 DEF SeeGrant, SpeakState
<1>10. CASE LeaveQueue(s)
  <2>1. PICK from \in {"quit", "leave"}, to \in {"done", "take"} : SpeakGo(s, from, to)
    BY <1>10 DEF LeaveQueue
  <2>2. CASE s \notin Queued
    <3>1. UNCHANGED pending
      BY <1>10, <2>2 DEF LeaveQueue, Queued
    <3> QED  BY <1>3, <2>1, <2>2, <3>1 DEF SpeakState
  <2>3. CASE s \in Queued
    <3>1. PICK i \in DOMAIN pending : pending[i] = s /\ pending' = RemovedAt(i)
      BY <1>10, <2>3 DEF LeaveQueue
    <3>2. /\ \A j, k \in DOMAIN pending' : pending'[j] = pending'[k] => j = k
          /\ Len(pending') = Len(pending) - 1
          /\ Queued' = Queued \ {s}
      BY <1>1, <3>1, RemovedAtEntries DEF EntriesInv
    <3>3. /\ speak'[s] = to /\ \A u \in Speaks \ {s} : speak'[u] = speak[u]
          /\ Queued \subseteq Speaks /\ granted \subseteq Speaks
      BY <1>1, <2>1 DEF SpeakGo, Queued, QueueInv, TypeInv, TypeOK
    <3>4. Len(pending) \in Nat /\ MaxPending \in Nat
      BY <1>1, SpeechYieldAssumption
    <3>5. EntriesInv'
      BY <1>1, <1>2, <3>2, <3>3, <3>4 DEF EntriesInv
    <3>6. HandInv'
      BY <1>1, <1>2, <3>2, <3>3 DEF HandInv
    <3>7. PoppedIsAnswered'
      BY <1>1, <1>2, <3>2, <3>3 DEF PoppedIsAnswered
    <3> QED  BY <3>5, <3>6, <3>7
  <2> QED  BY <2>2, <2>3
<1>11. CASE Take(s)         BY <1>3, <1>4, <1>11 DEF Take, SpeakGo, SpeakState
<1>12. CASE TakeTimesOut(s) BY <1>3, <1>4, <1>12 DEF TakeTimesOut, SpeakGo, SpeakState
<1>13. CASE EndSynthesis(s) BY <1>3, <1>4, <1>13 DEF EndSynthesis, SpeakGo, SpeakState
<1> QED
  BY <1>5, <1>6, <1>7, <1>8, <1>9, <1>10, <1>11, <1>12, <1>13 DEF SpeakStep

\* The queue never holds an entry whose caller went away, nor more than its two
\* places, and no caller waits whose entry a turn popped and forgot: for any
\* number of turns and speaks, also with late control requests and overruns.
THEOREM QueueAlways == Spec => []QueueIsHonest
<1>1. Init => QueueInv
  <2> SUFFICES ASSUME Init PROVE QueueInv
    OBVIOUS
  <2>1. pending = <<>> /\ Len(pending) = 0 /\ DOMAIN pending = {} /\ Queued = {}
    BY DEF Init, Queued
  <2>2. EntriesInv
    BY <2>1, SpeechYieldAssumption DEF EntriesInv
  <2>3. HandInv /\ PoppedIsAnswered
    BY DEF Init, HandInv, PoppedIsAnswered
  <2> QED  BY <2>2, <2>3, TypeInit DEF QueueInv
<1>2. QueueInv /\ [Next]_vars => QueueInv'
  <2> SUFFICES ASSUME QueueInv, [Next]_vars
               PROVE  TypeInv' /\ EntriesInv' /\ HandInv' /\ PoppedIsAnswered'
    BY DEF QueueInv
  <2>1. TypeInv'
    BY TypeStep DEF QueueInv
  <2>2. CASE \E t \in Turns :
                \/ Submit(t) \/ Cancel(t) \/ GrowContext(t) \/ RepairChat(t)
                \/ TurnStep(t) \/ LateServed(t)
    BY <2>1, <2>2, QueueTurn, QueueYield DEF TurnStep
  <2>3. CASE \E s \in Speaks : EnterFast(s) \/ EnterBusy(s) \/ SpeakStep(s)
    BY <2>1, <2>3, QueueSpeak
  <2>4. CASE (\E o \in Ops : OpStarts(o) \/ OpStopsWorkers(o) \/ OpEnds(o)) \/ Decode
             \/ UNCHANGED vars
    <3>1. UNCHANGED <<turn, waiter, speak, pending, granted, refused>>
      BY <2>4 DEF OpStarts, OpStopsWorkers, OpEnds, Decode, vars, turnVars, speakVars
    <3>2. HandInv
      BY DEF QueueInv
    <3> QED  BY <2>1, <3>1, <3>2, QueueStays DEF HandInv
  <2> QED  BY <2>2, <2>3, <2>4 DEF Next
<1>3. QueueInv => QueueIsHonest
  <2> SUFFICES ASSUME QueueInv PROVE QueueIsHonest
    OBVIOUS
  <2>1. Cardinality(Queued) = Len(pending)
    BY DistinctEntries DEF QueueInv, TypeInv, TypeOK, EntriesInv
  <2> QED  BY <2>1 DEF QueueInv, EntriesInv, QueueIsHonest, NoGhostInQueue
<1> QED
  BY <1>1, <1>2, <1>3, PTL DEF Spec

-----------------------------------------------------------------------------
(***************************************************************************)
(* Voice                                                                   *)
(***************************************************************************)

\* Where a request has a worker of its own to itself; the first and the last of
\* each kind are where it does not hold _worker_lock, or has no watcher.
LockSteps == {"ensure", "send", "speak", "read", "poll", "yield", "cancel", "abandon", "unlock"}
TalkSteps == {"read", "poll", "yield", "cancel", "abandon"}
WatchSteps == {"boot", "write", "writing", "await", "join", "joinBad", "joinBroken"}
SpeakSteps == {"queue"} \cup LockSteps
HearSteps == {"worker", "stop"} \cup WatchSteps
GpuSteps == {"granted", "release"} \cup SpeakSteps \cup HearSteps

\* A request with the GPU is its holder, one past the queue holds _worker_lock too,
\* and setup has the GPU until it ends.
HolderInv ==
  /\ \A r \in Requests :
       /\ step[r] \in GpuSteps => gpu = r
       /\ step[r] \in LockSteps => wlock = r
       /\ step[r] \in SpeakSteps => r \in Speaking
       /\ step[r] \in HearSteps => r \in Hearing
       /\ step[r] \in {"send", "speak"} \cup TalkSteps => using[r] \in Engines
       /\ watch[r] # "none" => step[r] \in WatchSteps
  /\ op = "setup" /\ opstep # "ended" => gpu = Setup

\* A handler that is under way holds audio_lock, and past NewEvent the event there is
\* is its own.
EventInv ==
  \A r \in Requests :
    /\ step[r] \in {"event", "leave"} => r \notin Warm
    /\ r \notin Warm =>
         /\ step[r] \notin {"new", "over"} => audioLock = r
         /\ step[r] \notin {"new", "event", "over"} => event = r

\* Whose messages may be in a pipe: those of requests that were sent.
Sent(r) == step[r] \in TalkSteps \cup {"unlock", "release", "leave", "over"}

\* A read-aloud worker that has something to do has it from the request that waits
\* for it, and has not told that request that it is over.
PipeOf(e) ==
  /\ piped[e] # Nobody =>
       /\ proc[e] = "idle"
       /\ piped[e] \in Requests /\ step[piped[e]] \in TalkSteps /\ using[piped[e]] = e
       /\ \A i \in 1..Len(sent[e]) : sent[e][i][1] # piped[e]
  /\ proc[e] = "busy" =>
       /\ serving[e] \in Requests /\ step[serving[e]] \in TalkSteps /\ using[serving[e]] = e
       /\ \A i \in 1..Len(sent[e]) : sent[e][i][1] = serving[e] => sent[e][i][2] = "chunk"
  /\ \A i \in 1..Len(sent[e]) : sent[e][i][1] \in Requests /\ Sent(sent[e][i][1])

PipeInv == ~lost => \A e \in Engines : PipeOf(e)

\* The recognizer has nothing to do, and nothing is to be read from it.
Resting ==
  /\ rproc = "idle" /\ rin = <<>> /\ rout = <<>>
  /\ backend = "gpu" => booted

\* The worker still owes the answer to a cancel, or it can be read, or neither.
OwesAck(asked_) ==
  /\ Len(rin) + Len(rout) = IF asked_ THEN 1 ELSE 0
  /\ rproc = "idle" /\ (backend = "gpu" => booted)
  /\ rin # <<>> => rin[1] = <<Nobody, "cancel">>
  /\ rout # <<>> => rout[1][2] = "ack"

\* The same behind the transcription of r.
OwesAnswer(r, asked_) ==
  /\ Len(rin) + Len(rout) = IF asked_ THEN 2 ELSE 1
  /\ rproc \in {"idle", "busy"} /\ (backend = "gpu" => booted)
  /\ rproc = "busy" => rin # <<>> /\ rout = <<>>
  /\ rout = <<>> => rin[1] = <<r, "transcribe">> /\ (asked_ => rin[2] = <<Nobody, "cancel">>)
  /\ Len(rout) = 1 /\ asked_ => rin[1] = <<Nobody, "cancel">>
  /\ Len(rout) = 2 => rout[2][2] = "ack"

\* While it loads the model nobody writes to it.
Boots ==
  /\ backend = "gpu" /\ rin = <<>>
  /\ \/ rproc = "loading" /\ rout = <<>>
     \/ rproc = "idle" /\ rout = <<<<Nobody, "ready">>>>

\* What a request finds in the pipes, at each of its steps.
FrameOf(r) ==
  /\ step[r] \in {"boot", "write", "writing"} => watch[r] # "asked"
  /\ step[r] \in {"writing", "await"} /\ rout # <<>> =>
       rout[1] \in {r} \X {"text", "input", "unavailable"}
  /\ RecogAlive =>
       /\ step[r] = "boot" => Boots
       /\ step[r] = "write" => Resting
       /\ step[r] \in {"writing", "await"} => OwesAnswer(r, watch[r] = "asked")
       /\ step[r] \in {"join", "joinBad", "stop"} => OwesAck(watch[r] = "asked")
       /\ step[r] # "joinBroken"

\* Where a request has the recognizer.
UsesRecog(r) == step[r] \in {"stop"} \cup WatchSteps

FrameInv ==
  ~lost =>
    /\ rproc # "stuck"
    /\ RecogAlive => current
    /\ backend = "gpu" => ~raced /\ \A r \in Requests : watch[r] # "asked"
    /\ ~raced =>
         /\ RecogAlive /\ (\A r \in Requests : ~UsesRecog(r)) => Resting
         /\ \A r \in Requests : FrameOf(r)

\* During setup no worker is started, so those that were stopped stay so.
SetupInv ==
  op = "setup" =>
    /\ opstep \in {"speechStops", "listen", "working"} => \A e \in Engines : ~SynthAlive(e)
    /\ opstep = "working" => lost \/ ~RecogAlive

\* Once the server closes, a sentence past its event is missed or has that event set,
\* and starts no worker any more.
CloseInv ==
  op = "close" =>
    /\ \A r \in Speaking \ missed :
         step[r] \notin {"new", "event", "over"} \/ r \in Warm => r \in cancels
    /\ opstep \in {"speechStops", "closed"} /\ missed = {} =>
         \A e \in Engines : ~SynthAlive(e)

VoiceInv == HolderInv /\ EventInv /\ PipeInv /\ FrameInv /\ SetupInv /\ CloseInv

-----------------------------------------------------------------------------
\* The types

\* Frames and messages come off the front and go on at the end.
LEMMA QueueTypes ==
    ASSUME NEW S, NEW q \in Seq(S)
    PROVE  /\ q # <<>> => Tail(q) \in Seq(S) /\ Head(q) \in S
           /\ \A x \in S : Append(q, x) \in Seq(S)
OBVIOUS

LEMMA EmptyTypes == ASSUME NEW S PROVE <<>> \in Seq(S)
OBVIOUS

\* What goes into a pipe is a pair.
LEMMA PairTypes ==
    /\ \A n \in Requests \cup {Nobody} :
          /\ \A k \in {"chunk", "done", "error"} : <<n, k>> \in Message
          /\ \A k \in {"transcribe", "cancel"} : <<n, k>> \in Order
          /\ \A k \in {"ready", "unavailable", "ack", "text", "input"} : <<n, k>> \in Frame
    /\ <<>> \in Seq(Message) /\ <<>> \in Seq(Order) /\ <<>> \in Seq(Frame)
    /\ \A m \in Message : m[1] \in Requests \cup {Nobody} /\ m[2] \in {"chunk", "done", "error"}
    /\ \A m \in Message : m = <<m[1], m[2]>>
    /\ \A m \in Order : m[1] \in Requests \cup {Nobody} /\ m[2] \in {"transcribe", "cancel"}
    /\ \A m \in Order : m = <<m[1], m[2]>>
    /\ \A m \in Frame : m[1] \in Requests \cup {Nobody}
                        /\ m[2] \in {"ready", "unavailable", "ack", "text", "input"}
    /\ \A m \in Frame : m = <<m[1], m[2]>>
BY EmptyTypes DEF Message, Order, Frame

LEMMA VoiceTypeInit == VoiceInit => VoiceType
<1>1. VoiceInit => RequestType
  <2> SUFFICES ASSUME VoiceInit PROVE RequestType
        OBVIOUS
  <2>1. PICK scene \in Scenes : step = [r \in Requests |-> IF r \in scene THEN "new" ELSE "over"]
        BY DEF VoiceInit
  <2>2. step \in [Requests -> Steps]
        BY <2>1 DEF Steps
  <2>3. QED
        BY <2>2 DEF VoiceInit, RequestType
<1>2. VoiceInit => SynthType
      BY SynthesisAssumption, PairTypes DEF VoiceInit, SynthType
<1>3. VoiceInit => RecogType
  <2> SUFFICES ASSUME VoiceInit PROVE RecogType
        OBVIOUS
  <2>1. /\ rin \in Seq(Order) /\ rout \in Seq(Frame)
        /\ watch \in [Requests -> {"none", "waiting", "armed", "asked"}]
        /\ result \in [Requests -> {"none", "own", "other", "empty"}]
        BY PairTypes DEF VoiceInit
  <2>2. QED
        BY <2>1 DEF VoiceInit, RecogType
<1>4. VoiceInit => ServerType
  <2> SUFFICES ASSUME VoiceInit PROVE ServerType
        OBVIOUS
  <2>1. QED
        BY DEF VoiceInit, ServerType
<1>5. QED
      BY <1>1, <1>2, <1>3, <1>4 DEF VoiceType

LEMMA SynthesizeTypes ==
    ASSUME RequestType, SynthType, NEW r \in Requests, Synthesize(r)
    PROVE  RequestType' /\ SynthType'
<1> USE SynthesisAssumption DEF RequestType, SynthType, Goes, Unlocks, Steps, Engine
<1>1. CASE SynthBegins(r) \/ LookForCancel(r) \/ NothingToAbandon(r)
      BY <1>1 DEF SynthBegins, LookForCancel, NothingToAbandon, synthVars, pipeVars
<1>2. CASE LockWorker(r) \/ UnlockWorker(r)
      BY <1>2 DEF LockWorker, UnlockWorker, pipeVars
<1>3. CASE EnsureWorker(r)
  <2>1. step' \in [Requests -> Steps]
        BY <1>3 DEF EnsureWorker
  <2>2. using' \in [Requests -> Engines \cup {Nobody}]
    <3>1. using' = using \/ using' = [using EXCEPT ![r] = choice]
          BY <1>3 DEF EnsureWorker
    <3>2. using \in [Requests -> Engines \cup {Nobody}] /\ choice \in Engines
          OBVIOUS
    <3>3. QED
          BY <3>1, <3>2, Zenon
  <2>3. proc' \in [Engines -> {"none", "idle", "busy", "dead"}]
    <3>1. proc' = proc
          \/ proc' = [proc EXCEPT ![choice] = IF proc[choice] = "none" THEN "idle" ELSE proc[choice]]
          BY <1>3 DEF EnsureWorker
    <3>2. proc \in [Engines -> {"none", "idle", "busy", "dead"}] /\ choice \in Engines
          OBVIOUS
    <3>3. (IF proc[choice] = "none" THEN "idle" ELSE proc[choice]) \in {"none", "idle", "busy", "dead"}
          BY <3>2
    <3>4. QED
          BY <3>1, <3>2, <3>3, Zenon
  <2>4. UNCHANGED <<cancels, lost, choice, wlock, asked, piped, serving, made, sent, stopping>>
        BY <1>3 DEF EnsureWorker, pipeVars
  <2>5. QED
        BY <2>1, <2>2, <2>3, <2>4
<1>4. CASE ReadVoice(r)
  <2>1. step' \in [Requests -> Steps]
        BY <1>4 DEF ReadVoice
  <2>2. asked' = asked \/ asked' = [asked EXCEPT ![r] = choice]
        BY <1>4 DEF ReadVoice
  <2>3. asked' \in [Requests -> Engines \cup {Nobody}]
    <3>1. asked \in [Requests -> Engines \cup {Nobody}] /\ choice \in Engines
          OBVIOUS
    <3>2. QED
          BY <2>2, <3>1, Zenon
  <2>4. UNCHANGED <<cancels, lost, choice, wlock, using, proc, piped, serving, made, sent,
                    stopping>>
        BY <1>4 DEF ReadVoice, pipeVars
  <2>5. QED
        BY <2>1, <2>3, <2>4
<1>5. ASSUME NEW e, ResetWorker(e)
      PROVE  /\ proc' \in [Engines -> {"none", "idle", "busy", "dead"}]
             /\ piped' \in [Engines -> Requests \cup {Nobody}]
             /\ serving' \in [Engines -> Requests \cup {Nobody}]
             /\ made' \in [Engines -> Nat]
             /\ sent' \in [Engines -> Seq(Message)]
             /\ lost' \in BOOLEAN
      BY <1>5, PairTypes DEF ResetWorker, StopConfirmed, StopUnconfirmed
<1>6. CASE SendSpeak(r)
  <2>1. CASE ResetWorker(Engine(r))
        BY <1>5, <1>6, <2>1 DEF SendSpeak
  <2>2. CASE SynthAlive(Engine(r))
    <3>1. /\ piped' = [piped EXCEPT ![Engine(r)] = r] /\ step' = [step EXCEPT ![r] = "read"]
          /\ UNCHANGED <<lost, proc, sent, serving, made, cancels, choice, wlock, using, asked, stopping>>
          BY <1>6, <2>2 DEF SendSpeak
    <3>2. QED
          BY <3>1
  <2>3. QED
        BY <1>6, <2>1, <2>2 DEF SendSpeak
<1>7. CASE NoMessage(r) \/ SpeakTooLong(r)
      BY <1>5, <1>7 DEF NoMessage, SpeakTooLong
<1>8. CASE ReceiveMessage(r)
  <2>1. sent' \in [Engines -> Seq(Message)]
        BY <1>8, QueueTypes DEF ReceiveMessage
  <2>2. step' \in [Requests -> Steps]
        BY <1>8 DEF ReceiveMessage
  <2>3. QED
        BY <1>8, <2>1, <2>2 DEF ReceiveMessage
<1>9. CASE ConsumeChunk(r)
      BY <1>9 DEF ConsumeChunk, synthVars, pipeVars
<1>10. ASSUME NEW from \in {"cancel", "abandon"}, DrainMessage(r, from)
       PROVE  RequestType' /\ SynthType'
       BY <1>10, QueueTypes DEF DrainMessage, AfterCancel
<1>11. ASSUME NEW from \in {"cancel", "abandon"}, DrainEnds(r, from)
       PROVE  RequestType' /\ SynthType'
       BY <1>5, <1>11 DEF DrainEnds, AfterCancel
<1>12. QED
       BY <1>1, <1>2, <1>3, <1>4, <1>6, <1>7, <1>8, <1>9, <1>10, <1>11 DEF Synthesize

LEMMA SynthWorkerTypes ==
    ASSUME RequestType, SynthType, NEW e \in Engines, SynthWorker(e)
    PROVE  RequestType' /\ SynthType'
<1> USE SynthesisAssumption DEF RequestType, SynthType, requestVars
<1>1. CASE TakeSpeak(e)
      BY <1>1 DEF TakeSpeak
<1>5. CASE SynthDies(e)
      BY <1>5 DEF SynthDies
<1>2. CASE MakeChunk(e)
  <2>1. <<serving[e], "chunk">> \in Message
        BY PairTypes
  <2>2. Append(sent[e], <<serving[e], "chunk">>)
          \in Seq(Message)
        BY <2>1
  <2>3. QED
        BY <1>2, <2>2 DEF MakeChunk
<1>3. CASE EndSpeak(e)
  <2>1. PICK how \in {"done", "error"} :
               sent' = [sent EXCEPT ![e] = Append(@, <<serving[e], how>>)]
        BY <1>3 DEF EndSpeak
  <2>2. <<serving[e], how>> \in Message
        BY PairTypes
  <2>3. Append(sent[e], <<serving[e], how>>)
          \in Seq(Message)
        BY <2>2
  <2>4. QED
        BY <1>3, <2>1, <2>3 DEF EndSpeak
<1>4. QED
      BY <1>1, <1>2, <1>3, <1>5 DEF SynthWorker

LEMMA TranscribeTypes ==
    ASSUME RequestType, RecogType, NEW r \in Requests, Transcribe(r)
    PROVE  RequestType' /\ RecogType'
<1> USE DEF RequestType, RecogType, Goes, Steps, frameVars, recogVars, Breaks
<1>1. CASE RecogBegins(r) \/ SendEnds(r) \/ AnswerLost(r)
      BY <1>1 DEF RecogBegins, SendEnds, AnswerLost
<1>2. CASE EnsureRecognizer(r)
  <2>1. step' \in [Requests -> Steps]
        BY <1>2 DEF EnsureRecognizer, FirstStep
  <2>2. watch' \in [Requests -> {"none", "waiting", "armed", "asked"}]
        BY <1>2 DEF EnsureRecognizer
  <2>3. rin' \in Seq(Order) /\ rout' \in Seq(Frame)
        BY <1>2, PairTypes DEF EnsureRecognizer
  <2>4. /\ rproc' \in {"none", "loading", "idle", "busy", "stuck", "dead"}
        /\ current' \in BOOLEAN /\ booted' \in BOOLEAN /\ raced' \in BOOLEAN
        /\ UNCHANGED <<cancels, lost, backend, result>>
        BY <1>2 DEF EnsureRecognizer
  <2>5. QED
        BY <2>1, <2>2, <2>3, <2>4
<1>3. CASE AwaitBoot(r)
  <2>1. step' \in [Requests -> Steps] /\ booted' \in BOOLEAN
        BY <1>3 DEF AwaitBoot
  <2>2. rout' \in Seq(Frame)
        BY <1>3, QueueTypes DEF AwaitBoot
  <2>3. UNCHANGED <<cancels, lost, backend, current, rproc, rin, watch, result, raced>>
        BY <1>3 DEF AwaitBoot
  <2>4. QED
        BY <2>1, <2>2, <2>3
<1>4. CASE SendTranscribe(r)
  <2>1. <<r, "transcribe">> \in Order
        BY PairTypes
  <2>2. Append(rin, <<r, "transcribe">>) \in Seq(Order)
        BY <2>1
  <2>3. rin' \in Seq(Order)
        BY <1>4, <2>2 DEF SendTranscribe
  <2>4. step' \in [Requests -> Steps]
        BY <1>4 DEF SendTranscribe
  <2>5. UNCHANGED <<cancels, lost, backend, current, rproc, rout, booted, watch, result, raced>>
        BY <1>4 DEF SendTranscribe
  <2>6. QED
        BY <2>3, <2>4, <2>5
<1>5. CASE ReadAnswer(r)
      BY <1>5, QueueTypes DEF ReadAnswer, Heard
<1>6. CASE JoinWatcher(r)
      BY <1>6 DEF JoinWatcher
<1>7. CASE DropRecognizer(r)
      BY <1>7, PairTypes DEF DropRecognizer, ConfirmStopped, Kills, Sticks, StopConfirmed,
         StopUnconfirmed
<1>8. QED
      BY <1>1, <1>2, <1>3, <1>4, <1>5, <1>6, <1>7 DEF Transcribe

LEMMA WatchTypes ==
    ASSUME RequestType, RecogType, NEW r \in Requests, WatchCancel(r)
    PROVE  RequestType' /\ RecogType'
<1> USE DEF RequestType, RecogType, frameVars, requestVars
<1>1. CASE WatchWakes(r) \/ WatchAnswered(r)
      BY <1>1 DEF WatchWakes, WatchAnswered
<1>2. CASE WatchAsks(r)
  <2>1. <<Nobody, "cancel">> \in Order
        BY PairTypes
  <2>2. Append(rin, <<Nobody, "cancel">>) \in Seq(Order)
        BY <2>1
  <2>3. QED
        BY <1>2, <2>2 DEF WatchAsks
<1>3. CASE WatchKills(r)
      BY <1>3, PairTypes DEF WatchKills, ConfirmStopped, Kills, Sticks, StopConfirmed,
         StopUnconfirmed
<1>4. QED
      BY <1>1, <1>2, <1>3 DEF WatchCancel

\* A worker is busy with the frame at the head of its pipe.
BusyHasFrame == rproc = "busy" => rin # <<>>

LEMMA RecogWorkerTypes ==
    ASSUME RequestType, RecogType, BusyHasFrame, RecogWorker
    PROVE  RequestType' /\ RecogType'
<1> USE DEF RequestType, RecogType, requestVars
<1>1. \A n \in Requests \cup {Nobody},
         k \in {"ready", "unavailable", "ack", "text", "input"} :
            Append(rout, <<n, k>>) \in Seq(Frame)
      BY PairTypes, QueueTypes
<1>2. rin # <<>> => Tail(rin) \in Seq(Order)
      BY QueueTypes
<1>3. CASE LoadModel
      BY <1>1, <1>3 DEF LoadModel
<1>4. CASE TakeFrame
  <2>1. rin' \in Seq(Order)
        BY <1>2, <1>4 DEF TakeFrame
  <2>2. rout' \in Seq(Frame)
    <3>1. rout' = rout \/ rout' = Append(rout, <<Nobody, "ack">>)
          BY <1>4 DEF TakeFrame
    <3>2. QED
          BY <1>1, <3>1
  <2>3. /\ rproc' \in {"none", "loading", "idle", "busy", "stuck", "dead"}
        /\ UNCHANGED <<requestVars, backend, current, booted, watch, raced, result>>
        BY <1>4 DEF TakeFrame
  <2>4. QED
        BY <2>1, <2>2, <2>3
<1>5. CASE Answer
  <2>1. Head(rin)[1] \in Requests \cup {Nobody} /\ rin # <<>>
        BY <1>5, QueueTypes, PairTypes DEF Answer, BusyHasFrame
  <2>2. QED
        BY <1>1, <1>2, <1>5, <2>1 DEF Answer
<1>6. CASE RecogDies
      BY <1>6, PairTypes DEF RecogDies, Kills
<1>7. QED
      BY <1>3, <1>4, <1>5, <1>6 DEF RecogWorker

LEMMA HandlerTypes ==
    ASSUME VoiceType, NEW r \in Requests, Handler(r)
    PROVE  VoiceType' /\ UNCHANGED workerVars
<1> USE DEF VoiceType, RequestType, ServerType, Goes, Steps, workerVars
<1>1. UNCHANGED workerVars
      BY DEF Handler, TakeAudio, NewEvent, PrewarmLoop, TakeGpu, RefuseGpu, GiveGpu, LeaveAudio
<1>2. SynthType' /\ RecogType'
      BY <1>1 DEF SynthType, RecogType, synthVars, recogVars, pipeVars, frameVars
<1>3. RequestType'
      BY DEF Handler, TakeAudio, NewEvent, PrewarmLoop, TakeGpu, RefuseGpu, GiveGpu, LeaveAudio
<1>4. CASE TakeAudio(r) \/ PrewarmLoop(r) \/ RefuseGpu(r)
      BY <1>1, <1>2, <1>3, <1>4 DEF TakeAudio, PrewarmLoop, RefuseGpu, serverVars, handlerVars,
         opVars
<1>5. CASE NewEvent(r)
  <2>1. Kind[r] \in {"stt", "tts", "warm"}
        BY VoiceAssumption
  <2>2. QED
        BY <1>1, <1>2, <1>3, <1>5, <2>1 DEF NewEvent, opVars
<1>6. CASE TakeGpu(r) \/ GiveGpu(r) \/ LeaveAudio(r)
      BY <1>1, <1>2, <1>3, <1>6 DEF TakeGpu, GiveGpu, LeaveAudio, handlerVars, opVars
<1>7. QED
      BY <1>4, <1>5, <1>6 DEF Handler

LEMMA CollectTypes ==
    ASSUME SynthType, CollectWorkers
    PROVE  SynthType'
<1>1. proc' \in [Engines -> {"none", "idle", "busy", "dead"}]
      BY DEF CollectWorkers, SynthType
<1>2. piped' \in [Engines -> Requests \cup {Nobody}] /\ sent' \in [Engines -> Seq(Message)]
      BY PairTypes DEF CollectWorkers
<1>3. stopping' \subseteq Engines
      BY DEF CollectWorkers, Residents
<1>4. QED
      BY <1>1, <1>2, <1>3 DEF CollectWorkers, SynthType

LEMMA OperationTypes ==
    ASSUME VoiceType,
           CancelReads \/ CancelSets \/ SaveVoice \/ SetupBegins \/ CloseBegins \/ Operation
    PROVE  VoiceType'
<1> USE DEF VoiceType, requestVars, workerVars, handlerVars, opVars
<1>1. CASE CancelReads \/ CancelSets \/ SetupBegins \/ CloseBegins
  <2>1. SynthType' /\ RecogType'
        BY <1>1 DEF CancelReads, CancelSets, SetupBegins, CloseBegins, SynthType, RecogType,
           synthVars, recogVars, pipeVars, frameVars
  <2>2. RequestType'
        BY <1>1 DEF CancelReads, CancelSets, SetupBegins, CloseBegins, RequestType,
           Reached, WarmToCancel, Warm
  <2>3. ServerType'
        BY <1>1 DEF CancelReads, CancelSets, SetupBegins, CloseBegins, ServerType
  <2>4. QED
        BY <2>1, <2>2, <2>3
<1>2. CASE SaveVoice
  <2>1. RecogType' /\ RequestType' /\ ServerType'
        BY <1>2 DEF SaveVoice, SetVoice, RecogType, recogVars, frameVars, RequestType, ServerType
  <2>2. SynthType'
        BY <1>2 DEF SaveVoice, SetVoice, SynthType, pipeVars
  <2>3. QED
        BY <2>1, <2>2
<1>3. CASE CloseSpeech \/ SpeechClosed \/ SpeechNotClosed
  <2>1. RecogType' /\ RequestType'
    <3>1. UNCHANGED recogVars /\ step' = step /\ cancels' = cancels /\ lost' \in {lost, TRUE}
          BY <1>3 DEF CloseSpeech, SpeechClosed, SpeechNotClosed, CollectWorkers,
             WorkersStopped, WorkersNotStopped, StopUnconfirmed
    <3>2. QED
          BY <3>1 DEF RecogType, recogVars, frameVars, RequestType
  <2>2. ServerType'
        BY <1>3 DEF CloseSpeech, SpeechClosed, SpeechNotClosed, Op, ServerType
  <2>3. CASE CloseSpeech
        BY <2>1, <2>2, <2>3, CollectTypes DEF CloseSpeech
  <2>4. CASE SpeechClosed \/ SpeechNotClosed
    <3>1. SynthType'
          BY <2>4 DEF SpeechClosed, SpeechNotClosed, WorkersStopped, WorkersNotStopped,
             SynthType, pipeVars
    <3>2. QED
          BY <2>1, <2>2, <3>1
  <2>5. QED
        BY <1>3, <2>3, <2>4
<1>4. CASE ListenClosed \/ ListenNotClosed
  <2>1. SynthType' /\ RequestType'
        BY <1>4 DEF ListenClosed, ListenNotClosed, RecognizerStopped, RecognizerNotStopped,
           Sticks, StopUnconfirmed, SynthType, synthVars, pipeVars, RequestType
  <2>2. ServerType'
        BY <1>4 DEF ListenClosed, ListenNotClosed, Op, ServerType
  <2>3. RecogType'
        BY <1>4, PairTypes DEF ListenClosed, ListenNotClosed, RecognizerStopped,
           RecognizerNotStopped, Kills, Sticks, RecogType, frameVars
  <2>4. QED
        BY <2>1, <2>2, <2>3
<1>5. CASE SetupEnds
  <2>1. SynthType' /\ RecogType'
        BY <1>5 DEF SetupEnds, SynthType, RecogType, synthVars, recogVars, pipeVars, frameVars
  <2>2. RequestType' /\ ServerType'
        BY <1>5 DEF SetupEnds, Op, RequestType, ServerType
  <2>3. QED
        BY <2>1, <2>2
<1>6. QED
      BY <1>1, <1>2, <1>3, <1>4, <1>5 DEF Operation

LEMMA VoiceTypeNext ==
    ASSUME VoiceType, BusyHasFrame, [VoiceNext]_voiceVars
    PROVE  VoiceType'
<1> USE DEF VoiceType
<1>1. ASSUME UNCHANGED serverVars
      PROVE  ServerType'
      BY <1>1 DEF ServerType, serverVars, handlerVars, opVars
<1>2. ASSUME UNCHANGED recogVars
      PROVE  RecogType'
      BY <1>2 DEF RecogType, recogVars, frameVars
<1>3. ASSUME UNCHANGED synthVars
      PROVE  SynthType'
      BY <1>3 DEF SynthType, synthVars, pipeVars
<1>4. ASSUME NEW r \in Requests, Work(r) \/ Watch(r)
      PROVE  VoiceType'
      BY <1>1, <1>2, <1>3, <1>4, SynthesizeTypes, TranscribeTypes, WatchTypes DEF Work, Watch
<1>5. CASE Workers
      BY <1>1, <1>2, <1>3, <1>5, SynthWorkerTypes, RecogWorkerTypes DEF Workers
<1>6. CASE UNCHANGED voiceVars
  <2>1. RequestType'
        BY <1>6 DEF RequestType, voiceVars, requestVars
  <2>2. QED
        BY <1>1, <1>2, <1>3, <1>6, <2>1 DEF voiceVars, workerVars
<1>7. QED
      BY <1>4, <1>5, <1>6, HandlerTypes, OperationTypes DEF VoiceNext

-----------------------------------------------------------------------------
\* Who has the GPU, the worker's lock, and a watcher

LEMMA HolderInit == VoiceInit => HolderInv
<1> SUFFICES ASSUME VoiceInit PROVE HolderInv
    OBVIOUS
<1>1. \A r \in Requests : step[r] \in {"new", "over"} /\ watch[r] = "none"
      BY DEF VoiceInit
<1>2. op = "none"
      BY DEF VoiceInit
<1>3. QED
      BY <1>1, <1>2 DEF HolderInv, GpuSteps, SpeakSteps, HearSteps, LockSteps, TalkSteps, WatchSteps

\* A step of one request's thread that keeps the GPU and the watchers.
LEMMA HolderMoves ==
    ASSUME VoiceType, HolderInv, NEW r \in Requests, Synthesize(r),
           UNCHANGED <<gpu, watch, op, opstep>>
    PROVE  HolderInv'
<1> USE DEF RequestType, SynthType, VoiceType, Goes, Unlocks,
        GpuSteps, SpeakSteps, HearSteps, LockSteps, TalkSteps, WatchSteps
<1>1. \A q \in Requests \ {r} : step'[q] = step[q] /\ using'[q] = using[q]
      BY DEF Synthesize, SynthBegins, LockWorker, EnsureWorker, ReadVoice, SendSpeak, LookForCancel,
         ReceiveMessage, NoMessage, ConsumeChunk, SpeakTooLong, DrainMessage, DrainEnds,
         NothingToAbandon, UnlockWorker, synthVars, pipeVars
<1>2. /\ step[r] \in {"granted"} \cup SpeakSteps
      /\ step'[r] \in {"release"} \cup SpeakSteps
      /\ step'[r] \in SpeakSteps => r \in Speaking
      BY DEF HolderInv, Synthesize, SynthBegins, LockWorker, EnsureWorker, ReadVoice, SendSpeak,
         LookForCancel,
         ReceiveMessage, NoMessage, ConsumeChunk, SpeakTooLong, DrainMessage, DrainEnds,
         NothingToAbandon, UnlockWorker, synthVars, pipeVars, AfterCancel
<1>3. step'[r] \in LockSteps => wlock' = r
      BY DEF HolderInv, Synthesize, SynthBegins, LockWorker, EnsureWorker, ReadVoice, SendSpeak,
         LookForCancel,
         ReceiveMessage, NoMessage, ConsumeChunk, SpeakTooLong, DrainMessage, DrainEnds,
         NothingToAbandon, UnlockWorker, synthVars, pipeVars, AfterCancel
<1>4. step'[r] \in {"send", "speak"} \cup TalkSteps => using'[r] \in Engines
  <2>1. CASE EnsureWorker(r)
        BY <2>1 DEF EnsureWorker
  <2>2. CASE ~EnsureWorker(r)
    <3>1. step'[r] \in {"send", "speak"} \cup TalkSteps =>
            using' = using /\ step[r] \in {"send", "speak"} \cup TalkSteps
          BY <2>2 DEF Synthesize, SynthBegins, LockWorker, ReadVoice, SendSpeak, LookForCancel,
             ReceiveMessage, NoMessage, ConsumeChunk, SpeakTooLong, DrainMessage, DrainEnds,
             NothingToAbandon, UnlockWorker, synthVars, pipeVars, AfterCancel
    <3>2. QED
          BY <3>1 DEF HolderInv
  <2>3. QED
        BY <2>1, <2>2
<1>5. gpu = r /\ watch[r] = "none" /\ \A q \in Requests \ {r} : step[q] \notin GpuSteps
      BY <1>2 DEF HolderInv
<1>6. QED
      BY <1>1, <1>2, <1>3, <1>4, <1>5 DEF HolderInv

LEMMA HolderHears ==
    ASSUME VoiceType, HolderInv, NEW r \in Requests, Transcribe(r),
           UNCHANGED <<gpu, wlock, using, op, opstep>>
    PROVE  HolderInv'
<1> USE DEF RequestType, RecogType, VoiceType, Goes, Breaks,
        GpuSteps, SpeakSteps, HearSteps, LockSteps, TalkSteps, WatchSteps
<1>1. \A q \in Requests \ {r} : step'[q] = step[q] /\ watch'[q] = watch[q]
      BY DEF Transcribe, RecogBegins, EnsureRecognizer, AwaitBoot, SendTranscribe, SendEnds,
         ReadAnswer, AnswerLost, JoinWatcher, DropRecognizer, recogVars
<1>2. /\ step[r] \in {"granted"} \cup HearSteps
      /\ step'[r] \in {"release"} \cup HearSteps
      /\ step'[r] \in HearSteps => r \in Hearing
      BY DEF HolderInv, Transcribe, RecogBegins, EnsureRecognizer, AwaitBoot, SendTranscribe,
         SendEnds,
         ReadAnswer, AnswerLost, JoinWatcher, DropRecognizer, recogVars, FirstStep
<1>3. gpu = r /\ \A q \in Requests \ {r} : step[q] \notin GpuSteps
      BY <1>2 DEF HolderInv
<1>4. watch'[r] # "none" => step'[r] \in WatchSteps
      BY DEF HolderInv, Transcribe, RecogBegins, EnsureRecognizer, AwaitBoot, SendTranscribe,
         SendEnds,
         ReadAnswer, AnswerLost, JoinWatcher, DropRecognizer, recogVars, FirstStep
<1>5. QED
      BY <1>1, <1>2, <1>3, <1>4 DEF HolderInv

LEMMA HolderHandles ==
    ASSUME VoiceType, HolderInv, NEW r \in Requests, Handler(r)
    PROVE  HolderInv'
<1> USE DEF RequestType, VoiceType, Goes,
        GpuSteps, SpeakSteps, HearSteps, LockSteps, TalkSteps, WatchSteps
<1>1. \A q \in Requests \ {r} : step'[q] = step[q]
      BY DEF Handler, TakeAudio, NewEvent, PrewarmLoop, TakeGpu, RefuseGpu, GiveGpu, LeaveAudio
<1>2. wlock' = wlock /\ using' = using /\ watch' = watch /\ op' = op /\ opstep' = opstep
      BY HandlerTypes DEF workerVars, synthVars, recogVars, Handler, TakeAudio, NewEvent,
         PrewarmLoop,
         TakeGpu, RefuseGpu, GiveGpu, LeaveAudio, serverVars, opVars
<1>3. /\ step[r] \in {"new", "event", "enter", "release", "leave"}
      /\ step'[r] \in {"event", "enter", "granted", "new", "leave", "over"}
      /\ step'[r] = "granted" => gpu = Nobody /\ gpu' = r
      /\ step[r] = "release" => gpu' = Nobody
      /\ step[r] # "release" /\ step'[r] # "granted" => gpu' = gpu
      BY DEF Handler, TakeAudio, NewEvent, PrewarmLoop, TakeGpu, RefuseGpu, GiveGpu, LeaveAudio,
         serverVars
<1>4. watch[r] = "none"
      BY <1>3 DEF HolderInv
<1>5. \A q \in Requests : q # Nobody /\ q # Setup
      BY VoiceAssumption, SetupAssumption
<1>6. Setup # Nobody
      BY SetupAssumption
<1>7. QED
      BY <1>1, <1>2, <1>3, <1>4, <1>5, <1>6 DEF HolderInv

LEMMA HolderNext ==
    ASSUME VoiceType, HolderInv, [VoiceNext]_voiceVars
    PROVE  HolderInv'
<1>1. ASSUME NEW r \in Requests, Work(r)
      PROVE  HolderInv'
      BY <1>1, HolderMoves, HolderHears DEF Work, synthVars, recogVars, serverVars, opVars
<1>2. ASSUME NEW r \in Requests, Watch(r)
      PROVE  HolderInv'
  <2>1. \A q \in Requests : watch'[q] # "none" => watch[q] # "none"
        BY <1>2 DEF Watch, WatchCancel, WatchWakes, WatchAsks, WatchAnswered, WatchKills,
           VoiceType, RecogType
  <2>2. step' = step /\ gpu' = gpu /\ wlock' = wlock /\ using' = using /\ op' = op /\ opstep' = opstep
        BY <1>2 DEF Watch, WatchCancel, WatchWakes, WatchAsks, WatchAnswered, WatchKills,
           requestVars, synthVars, serverVars, opVars
  <2>3. QED
        BY <2>1, <2>2 DEF HolderInv
<1>3. CASE Workers \/ SaveVoice \/ CancelReads \/ CancelSets \/ UNCHANGED voiceVars
  <2>1. /\ step' = step /\ gpu' = gpu /\ wlock' = wlock /\ using' = using /\ op' = op
        /\ opstep' = opstep
        /\ watch' = watch
        BY <1>3 DEF Workers, SynthWorker, TakeSpeak, MakeChunk, EndSpeak, SynthDies, RecogWorker,
           LoadModel, TakeFrame, Answer, RecogDies, SaveVoice, SetVoice, CancelReads, CancelSets,
           voiceVars, workerVars, serverVars, opVars, synthVars, recogVars, requestVars
  <2>2. QED
        BY <2>1 DEF HolderInv
<1>4. CASE SetupBegins \/ CloseBegins \/ Operation
  <2>1. step' = step /\ wlock' = wlock /\ using' = using /\ watch' = watch
        BY <1>4 DEF SetupBegins, CloseBegins, Operation, CloseSpeech, SpeechClosed, SpeechNotClosed,
           ListenClosed, ListenNotClosed, SetupEnds, CollectWorkers, WorkersStopped,
           WorkersNotStopped, RecognizerStopped, RecognizerNotStopped, workerVars, synthVars,
           recogVars, requestVars
  <2>2. \/ gpu = Nobody /\ op' = "setup" /\ gpu' = Setup
        \/ gpu' = gpu /\ op' = "close"
        \/ gpu' = gpu /\ op' = op /\ (op = "setup" => opstep # "ended")
        \/ op = "setup" /\ opstep # "ended" /\ opstep' = "ended" /\ gpu' = Nobody
        BY <1>4 DEF SetupBegins, CloseBegins, Operation, CloseSpeech, SpeechClosed, SpeechNotClosed,
           ListenClosed, ListenNotClosed, SetupEnds, Op
  <2>3. \A q \in Requests : q # Nobody /\ q # Setup
        BY VoiceAssumption, SetupAssumption
  <2>4. QED
        BY <2>1, <2>2, <2>3 DEF HolderInv
<1>5. QED
      BY <1>1, <1>2, <1>3, <1>4, HolderHandles DEF VoiceNext

-----------------------------------------------------------------------------
\* Whose event there is, and what setup and close may rely on

LEMMA EventInit == VoiceInit => EventInv
<1> SUFFICES ASSUME VoiceInit PROVE EventInv
    OBVIOUS
<1>1. \A r \in Requests : step[r] \in {"new", "over"}
      BY DEF VoiceInit
<1>2. QED
      BY <1>1 DEF EventInv

\* What the work of a request leaves alone.
LEMMA WorkFacts ==
    ASSUME VoiceType, NEW r \in Requests, Work(r)
    PROVE  /\ UNCHANGED serverVars
           /\ \A q \in Requests \ {r} : step'[q] = step[q]
           /\ step[r] \in {"granted"} \cup SpeakSteps \cup HearSteps
           /\ step'[r] \in {"release"} \cup SpeakSteps \cup HearSteps
           /\ cancels \subseteq cancels'
<1> USE DEF VoiceType, RequestType, Goes, Unlocks, Breaks, SpeakSteps, HearSteps, LockSteps,
   WatchSteps
<1>1. CASE Synthesize(r) /\ UNCHANGED <<recogVars, serverVars>>
      BY <1>1 DEF Synthesize, SynthBegins, LockWorker, EnsureWorker, ReadVoice, SendSpeak,
         LookForCancel,
         ReceiveMessage, NoMessage, ConsumeChunk, SpeakTooLong, DrainMessage, DrainEnds,
         NothingToAbandon, UnlockWorker, AfterCancel
<1>2. CASE Transcribe(r) /\ UNCHANGED <<synthVars, serverVars>>
      BY <1>2 DEF Transcribe, RecogBegins, EnsureRecognizer, AwaitBoot, SendTranscribe, SendEnds,
         ReadAnswer, AnswerLost, JoinWatcher, DropRecognizer, FirstStep
<1>3. QED
      BY <1>1, <1>2 DEF Work

LEMMA EventNext ==
    ASSUME VoiceType, EventInv, [VoiceNext]_voiceVars
    PROVE  EventInv'
<1> USE DEF VoiceType, RequestType
<1>1. ASSUME NEW r \in Requests, Work(r)
      PROVE  EventInv'
      BY <1>1, WorkFacts DEF EventInv, serverVars, handlerVars, SpeakSteps, HearSteps, LockSteps,
         WatchSteps
<1>2. ASSUME NEW r \in Requests, Handler(r)
      PROVE  EventInv'
  <2>1. \A q \in Requests \ {r} : step'[q] = step[q]
        BY <1>2 DEF Goes, Handler, TakeAudio, NewEvent, PrewarmLoop, TakeGpu, RefuseGpu, GiveGpu,
           LeaveAudio
  <2>2. CASE TakeAudio(r)
        BY <2>1, <2>2, VoiceAssumption DEF TakeAudio, Goes, EventInv
  <2>3. CASE NewEvent(r) \/ LeaveAudio(r)
        BY <2>1, <2>3 DEF NewEvent, LeaveAudio, Goes, EventInv
  <2>4. CASE PrewarmLoop(r) \/ TakeGpu(r) \/ RefuseGpu(r) \/ GiveGpu(r)
        BY <2>1, <2>4 DEF PrewarmLoop, TakeGpu, RefuseGpu, GiveGpu, Goes, EventInv, serverVars,
           handlerVars, Warm
  <2>5. QED
        BY <1>2, <2>2, <2>3, <2>4 DEF Handler
<1>3. ASSUME step' = step, audioLock' = audioLock, event' = event
      PROVE  EventInv'
      BY <1>3 DEF EventInv
<1>4. CASE \/ \E r \in Requests : Watch(r)
           \/ Workers \/ SaveVoice \/ CancelReads \/ CancelSets \/ SetupBegins
           \/ CloseBegins \/ Operation \/ UNCHANGED voiceVars
  <2>1. step' = step /\ audioLock' = audioLock /\ event' = event
        BY <1>4 DEF Watch, WatchCancel, WatchWakes, WatchAsks, WatchAnswered, WatchKills,
           Workers, SynthWorker, TakeSpeak, MakeChunk, EndSpeak, SynthDies, RecogWorker,
           LoadModel, TakeFrame, Answer, RecogDies, SaveVoice, SetVoice, CancelReads, CancelSets,
           SetupBegins, CloseBegins, Operation, CloseSpeech, SpeechClosed, SpeechNotClosed,
           ListenClosed, ListenNotClosed, SetupEnds, CollectWorkers, WorkersStopped,
           WorkersNotStopped, RecognizerStopped, RecognizerNotStopped,
           voiceVars, serverVars, handlerVars, requestVars
  <2>2. QED
        BY <1>3, <2>1
<1>5. QED
      BY <1>1, <1>2, <1>4 DEF VoiceNext

\* No worker is resident once close() has collected the handles.
LEMMA CollectFacts ==
    ASSUME VoiceType, CollectWorkers
    PROVE  \A e \in Engines : ~SynthAlive(e)'
<1> SUFFICES ASSUME NEW e \in Engines PROVE ~SynthAlive(e)'
    OBVIOUS
<1>1. proc'[e] = "none"
      BY DEF CollectWorkers, Residents
<1>2. QED
      BY <1>1 DEF SynthAlive

LEMMA SetupNext ==
    ASSUME VoiceType, HolderInv, FrameInv, SetupInv, [VoiceNext]_voiceVars
    PROVE  SetupInv'
<1> USE DEF VoiceType, RequestType, SynthType
<1>1. ASSUME NEW r \in Requests, Handler(r)
      PROVE  SetupInv'
  <2>1. op' = op /\ opstep' = opstep /\ lost' = lost /\ proc' = proc /\ rproc' = rproc
        BY <1>1, HandlerTypes DEF workerVars, synthVars, recogVars, Handler, TakeAudio, NewEvent,
           PrewarmLoop,
           TakeGpu, RefuseGpu, GiveGpu, LeaveAudio, serverVars, opVars
  <2>2. QED
        BY <2>1 DEF SetupInv, SynthAlive, RecogAlive
<1>2. ASSUME NEW r \in Requests, Work(r)
      PROVE  SetupInv'
  <2>1. gpu = r /\ op' = op /\ opstep' = opstep
        BY <1>2, WorkFacts DEF HolderInv, GpuSteps, serverVars, opVars
  <2>2. op = "setup" => opstep = "ended"
        BY <2>1, SetupAssumption DEF HolderInv
  <2>3. QED
        BY <2>1, <2>2 DEF SetupInv
<1>3. ASSUME NEW r \in Requests, Watch(r)
      PROVE  SetupInv'
  <2>1. /\ op' = op /\ opstep' = opstep /\ proc' = proc
        /\ lost => lost' 
        /\ RecogAlive' => RecogAlive
        BY <1>3 DEF Watch, WatchCancel, WatchWakes, WatchAsks, WatchAnswered, WatchKills,
           requestVars, ConfirmStopped, Kills, Sticks, StopConfirmed, StopUnconfirmed, RecogAlive,
           serverVars, opVars, synthVars
  <2>2. QED
        BY <2>1 DEF SetupInv, SynthAlive
<1>4. CASE Workers
  <2>1. /\ op' = op /\ opstep' = opstep /\ lost' = lost
        /\ \A e \in Engines : SynthAlive(e)' => SynthAlive(e)
        /\ RecogAlive' => RecogAlive
        BY <1>4 DEF Workers, SynthWorker, TakeSpeak, MakeChunk, EndSpeak, SynthDies, RecogWorker,
           LoadModel, TakeFrame, Answer, RecogDies, Kills, SynthAlive, RecogAlive, serverVars,
           opVars,
           synthVars, recogVars, requestVars
  <2>2. QED
        BY <2>1 DEF SetupInv
<1>5. CASE SaveVoice \/ CancelReads \/ CancelSets \/ UNCHANGED voiceVars
  <2>1. op' = op /\ opstep' = opstep /\ lost' = lost /\ proc' = proc /\ rproc' = rproc
        BY <1>5 DEF SaveVoice, SetVoice, CancelReads, CancelSets,
           voiceVars, workerVars, serverVars, opVars, synthVars, recogVars, requestVars
  <2>2. QED
        BY <2>1 DEF SetupInv, SynthAlive, RecogAlive
<1>6. CASE SetupBegins \/ CloseBegins \/ SetupEnds
      BY <1>6 DEF SetupBegins, CloseBegins, SetupEnds, Op, SetupInv
<1>7. CASE CloseSpeech \/ SpeechClosed \/ SpeechNotClosed
  <2>1. CASE CloseSpeech
        BY <2>1, CollectFacts DEF CloseSpeech, Op, SetupInv
  <2>2. CASE SpeechClosed \/ SpeechNotClosed
    <3>1. /\ op' = op /\ proc' = proc
          /\ op = "setup" => \/ opstep' = "failed"
                             \/ opstep = "speechStops" /\ opstep' = "listen"
          BY <2>2 DEF SpeechClosed, SpeechNotClosed, Op, WorkersStopped, WorkersNotStopped
    <3>2. QED
          BY <3>1 DEF SetupInv, SynthAlive
  <2>3. QED
        BY <1>7, <2>1, <2>2
<1>8. CASE ListenClosed \/ ListenNotClosed
  <2>1. /\ op' = op /\ proc' = proc
        /\ op = "setup" => \/ opstep' = "failed"
                           \/ opstep = "listen" /\ opstep' = "working"
        BY <1>8 DEF ListenClosed, ListenNotClosed, Op, synthVars
  <2>2. CASE ListenClosed
    <3>1. lost \/ ~RecogAlive'
          BY <2>2 DEF ListenClosed, RecognizerStopped, Kills, FrameInv, RecogAlive
    <3>2. lost' = lost
          BY <2>2 DEF ListenClosed, RecognizerStopped, requestVars
    <3>3. QED
          BY <2>1, <3>1, <3>2 DEF SetupInv, SynthAlive
  <2>3. CASE ListenNotClosed
        BY <2>1, <2>3 DEF ListenNotClosed, Op, SetupInv
  <2>4. QED
        BY <1>8, <2>2, <2>3
<1>9. QED
      BY <1>1, <1>2, <1>3, <1>4, <1>5, <1>6, <1>7, <1>8 DEF VoiceNext, Operation

LEMMA CloseNext ==
    ASSUME VoiceType, HolderInv, EventInv, CloseInv, [VoiceNext]_voiceVars
    PROVE  CloseInv'
<1> USE DEF VoiceType, RequestType, SynthType
<1>1. ASSUME NEW r \in Requests, Handler(r)
      PROVE  CloseInv'
  <2>1. /\ op' = op /\ opstep' = opstep /\ missed \subseteq missed' /\ proc' = proc
        /\ \A q \in Requests \ {r} : step'[q] = step[q] /\ (q \in cancels => q \in cancels')
        BY <1>1, HandlerTypes DEF workerVars, synthVars, Handler, TakeAudio, NewEvent, PrewarmLoop,
           TakeGpu, RefuseGpu, GiveGpu, LeaveAudio, serverVars, opVars, Goes
  <2>2. ASSUME op = "close", r \in Speaking \ missed',
               step'[r] \notin {"new", "event", "over"} \/ r \in Warm
        PROVE  r \in cancels'
        BY <1>1, <2>1, <2>2 DEF CloseInv, EventInv, Handler, TakeAudio, NewEvent, PrewarmLoop,
           TakeGpu, RefuseGpu, GiveGpu, LeaveAudio, Goes
  <2>3. QED
        BY <2>1, <2>2 DEF CloseInv, SynthAlive, Speaking
<1>2. ASSUME NEW r \in Requests, Work(r)
      PROVE  CloseInv'
  <2>1. /\ op' = op /\ opstep' = opstep /\ missed' = missed
        /\ \A q \in Requests \ {r} : step'[q] = step[q]
        /\ cancels \subseteq cancels'
        /\ step[r] \notin {"new", "event", "over"}
        BY <1>2, WorkFacts DEF serverVars, opVars, SpeakSteps, HearSteps, LockSteps, WatchSteps
  <2>2. op = "close" /\ r \in Speaking \ missed => r \in cancels
        BY <2>1 DEF CloseInv
  <2>3. Synthesize(r) => r \in Speaking
        BY DEF HolderInv, SpeakSteps, LockSteps, Synthesize, SynthBegins, LockWorker, EnsureWorker,
           ReadVoice, SendSpeak, LookForCancel,
           ReceiveMessage, NoMessage, ConsumeChunk, SpeakTooLong, DrainMessage, DrainEnds,
           NothingToAbandon, UnlockWorker, Goes, Unlocks
  <2>4. op = "close" /\ missed = {} =>
          \A e \in Engines : SynthAlive(e)' => SynthAlive(e)
        BY <1>2, <2>2, <2>3 DEF Work, Synthesize, SynthBegins, LockWorker, EnsureWorker, ReadVoice,
           SendSpeak, LookForCancel,
           ReceiveMessage, NoMessage, ConsumeChunk, SpeakTooLong, DrainMessage, DrainEnds,
           NothingToAbandon, UnlockWorker, synthVars, pipeVars, ResetWorker, SynthAlive
  <2>5. QED
        BY <2>1, <2>2, <2>4 DEF CloseInv, Speaking
<1>3. CASE \/ \E r \in Requests : Watch(r)
           \/ Workers \/ SaveVoice \/ CancelReads \/ CancelSets \/ UNCHANGED voiceVars
  <2>1. /\ op' = op /\ opstep' = opstep /\ missed' = missed /\ step' = step
        /\ cancels \subseteq cancels'
        BY <1>3 DEF Watch, WatchCancel, WatchWakes, WatchAsks, WatchAnswered, WatchKills,
           Workers, SynthWorker, TakeSpeak, MakeChunk, EndSpeak, SynthDies, RecogWorker,
           LoadModel, TakeFrame, Answer, RecogDies, SaveVoice, SetVoice, CancelReads, CancelSets,
           voiceVars, serverVars, opVars, requestVars
  <2>2. \A e \in Engines : SynthAlive(e)' => SynthAlive(e)
        BY <1>3 DEF Watch, WatchCancel, WatchWakes, WatchAsks, WatchAnswered, WatchKills,
           Workers, SynthWorker, TakeSpeak, MakeChunk, EndSpeak, SynthDies, RecogWorker,
           SaveVoice, SetVoice, CancelReads, CancelSets,
           voiceVars, workerVars, synthVars, SynthAlive
  <2>3. QED
        BY <2>1, <2>2 DEF CloseInv
<1>4. CASE SetupBegins
      BY <1>4 DEF SetupBegins, CloseInv
<1>5. CASE CloseBegins
  <2>1. /\ opstep' = "listen" /\ step' = step
        /\ missed' = missed
        /\ cancels' = cancels \cup {r \in Requests : r = event /\ step[r] # "over"} \cup Warm
        BY <1>5 DEF CloseBegins, Reached, WarmToCancel
  <2>2. ASSUME NEW r \in Speaking, step[r] \notin {"new", "event", "over"} \/ r \in Warm
        PROVE  r \in cancels'
        BY <2>1, <2>2 DEF EventInv, Speaking
  <2>3. QED
        BY <2>1, <2>2 DEF CloseInv
<1>6. CASE Operation
  <2>1. step' = step /\ cancels' = cancels /\ op' = op /\ missed' = missed
        BY <1>6 DEF Operation, CloseSpeech, SpeechClosed, SpeechNotClosed,
           ListenClosed, ListenNotClosed, SetupEnds, Op, CollectWorkers, WorkersStopped,
           WorkersNotStopped, RecognizerStopped, RecognizerNotStopped, requestVars
  <2>2. CASE CloseSpeech
        BY <2>1, <2>2, CollectFacts DEF CloseSpeech, CloseInv
  <2>3. CASE Operation /\ ~CloseSpeech
    <3>1. /\ proc' = proc
          /\ op = "close" /\ opstep' = "closed" => opstep = "speechStops"
          /\ opstep' # "speechStops"
          BY <2>3 DEF Operation, SpeechClosed, SpeechNotClosed,
             ListenClosed, ListenNotClosed, SetupEnds, Op, WorkersStopped,
             WorkersNotStopped, RecognizerStopped, RecognizerNotStopped, synthVars, workerVars
    <3>2. QED
          BY <2>1, <3>1 DEF CloseInv, SynthAlive
  <2>4. QED
        BY <1>6, <2>2, <2>3
<1>7. QED
      BY <1>1, <1>2, <1>3, <1>4, <1>5, <1>6 DEF VoiceNext

-----------------------------------------------------------------------------
\* What is in the pipes of the read-aloud workers

\* What is still queued was queued before, or was just added.
LEMMA TailBefore ==
    ASSUME NEW S, NEW q \in Seq(S), q # <<>>
    PROVE  /\ \A i \in 1..Len(Tail(q)) : \E j \in 1..Len(q) : Tail(q)[i] = q[j]
           /\ Head(q) = q[1] /\ 1 \in 1..Len(q) /\ q[1] \in S
<1>1. ASSUME NEW i \in 1..Len(Tail(q))
      PROVE  i + 1 \in 1..Len(q) /\ Tail(q)[i] = q[i + 1]
      BY <1>1
<1>2. QED
      BY <1>1

LEMMA AppendBefore ==
    ASSUME NEW S, NEW q \in Seq(S), NEW x \in S
    PROVE  \A i \in 1..Len(Append(q, x)) :
             Append(q, x)[i] = x \/ \E j \in 1..Len(q) : Append(q, x)[i] = q[j]
OBVIOUS

LEMMA PipeInit == VoiceInit => PipeInv
<1> SUFFICES ASSUME VoiceInit, NEW e \in Engines PROVE PipeOf(e)
    BY DEF PipeInv
<1>1. piped[e] = Nobody /\ proc[e] = "none" /\ sent[e] = <<>>
      BY DEF VoiceInit
<1>2. QED
      BY <1>1 DEF PipeOf

\* The pipes are as they were, or emptier, for requests that are no less far.
LEMMA PipeKept ==
    ASSUME VoiceType, NEW e \in Engines, PipeOf(e),
           piped'[e] = piped[e], proc'[e] = proc[e], serving'[e] = serving[e],
           \A i \in 1..Len(sent'[e]) : \E j \in 1..Len(sent[e]) : sent'[e][i] = sent[e][j],
           \A q \in Requests : Sent(q) => Sent(q)',
           \A q \in Requests : (piped[e] = q \/ (proc[e] = "busy" /\ serving[e] = q)) =>
             step'[q] \in TalkSteps /\ using'[q] = using[q]
    PROVE  PipeOf(e)'
BY DEF PipeOf

\* A worker that is reset leaves nothing.
LEMMA PipeReset ==
    ASSUME VoiceType, NEW e \in Engines, ResetWorker(e)
    PROVE  /\ PipeOf(e)'
           /\ \A f \in Engines \ {e} : /\ piped'[f] = piped[f] /\ proc'[f] = proc[f]
                                       /\ serving'[f] = serving[f] /\ sent'[f] = sent[f]
           /\ lost => lost'
<1> USE DEF VoiceType, SynthType, ResetWorker, StopConfirmed, StopUnconfirmed
<1>1. piped'[e] = Nobody /\ proc'[e] = "none" /\ sent'[e] = <<>>
      OBVIOUS
<1>2. PipeOf(e)'
      BY <1>1 DEF PipeOf
<1>3. QED
      BY <1>2

\* Nor does it change another one that has nothing to do.
LEMMA PipeIdle ==
    ASSUME VoiceType, NEW f \in Engines, ResetWorker(f), NEW e \in Engines, e # f,
           PipeOf(e), piped[e] = Nobody, proc[e] # "busy",
           \A q \in Requests : Sent(q) => Sent(q)'
    PROVE  PipeOf(e)'
<1>1. piped'[e] = piped[e] /\ proc'[e] = proc[e] /\ sent'[e] = sent[e]
      BY PipeReset
<1>2. QED
      BY <1>1 DEF PipeOf

\* Only the request that has the GPU has a worker's attention.
LEMMA PipeUser ==
    ASSUME VoiceType, HolderInv, NEW e \in Engines, PipeOf(e), NEW r \in Requests,
           step[r] \in GpuSteps
    PROVE  /\ piped[e] \in Requests => piped[e] = r /\ step[r] \in TalkSteps /\ using[r] = e
           /\ proc[e] = "busy" => serving[e] = r /\ step[r] \in TalkSteps /\ using[r] = e
BY VoiceAssumption DEF PipeOf, HolderInv, GpuSteps, SpeakSteps, LockSteps, TalkSteps

LEMMA SentStays ==
    ASSUME VoiceType, [VoiceNext]_voiceVars
    PROVE  \A q \in Requests : Sent(q) => Sent(q)'
<1> SUFFICES ASSUME NEW q \in Requests, Sent(q) PROVE Sent(q)'
    OBVIOUS
<1> USE DEF VoiceType, RequestType, Goes, Unlocks, Sent, TalkSteps
<1>1. ASSUME NEW r \in Requests, Handler(r)
      PROVE  Sent(q)'
      BY <1>1 DEF Handler, TakeAudio, NewEvent, PrewarmLoop, TakeGpu, RefuseGpu, GiveGpu, LeaveAudio
<1>2. ASSUME NEW r \in Requests, Synthesize(r)
      PROVE  Sent(q)'
      BY <1>2 DEF Synthesize, SynthBegins, LockWorker, EnsureWorker, ReadVoice, SendSpeak,
         LookForCancel,
         ReceiveMessage, NoMessage, ConsumeChunk, SpeakTooLong, DrainMessage, DrainEnds,
         NothingToAbandon, UnlockWorker, AfterCancel
<1>3. ASSUME NEW r \in Requests, Transcribe(r)
      PROVE  Sent(q)'
      BY <1>3 DEF Transcribe, RecogBegins, EnsureRecognizer, AwaitBoot, SendTranscribe, SendEnds,
         ReadAnswer, AnswerLost, JoinWatcher, DropRecognizer, FirstStep, Breaks
<1>4. ASSUME step' = step
      PROVE  Sent(q)'
      BY <1>4
<1>5. CASE \/ \E r \in Requests : Watch(r)
           \/ Workers \/ SaveVoice \/ CancelReads \/ CancelSets \/ SetupBegins
           \/ CloseBegins \/ Operation \/ UNCHANGED voiceVars
  <2>1. step' = step
        BY <1>5 DEF Watch, WatchCancel, WatchWakes, WatchAsks, WatchAnswered, WatchKills,
           Workers, SynthWorker, TakeSpeak, MakeChunk, EndSpeak, SynthDies, RecogWorker,
           LoadModel, TakeFrame, Answer, RecogDies, SaveVoice, SetVoice, CancelReads, CancelSets,
           SetupBegins, CloseBegins, Operation, CloseSpeech, SpeechClosed, SpeechNotClosed,
           ListenClosed, ListenNotClosed, SetupEnds, CollectWorkers, WorkersStopped,
           WorkersNotStopped, RecognizerStopped, RecognizerNotStopped,
           voiceVars, requestVars
  <2>2. QED
        BY <1>4, <2>1
<1>6. QED
      BY <1>1, <1>2, <1>3, <1>5 DEF VoiceNext, Work

\* The steps of synthesize_chunks, for each worker.
LEMMA PipeSynthesizes ==
    ASSUME VoiceType, HolderInv, NEW e \in Engines, PipeOf(e), NEW r \in Requests, Synthesize(r),
           \A q \in Requests : Sent(q) => Sent(q)', ~lost'
    PROVE  PipeOf(e)'
<1> USE DEF VoiceType, RequestType, SynthType, Goes, Unlocks, Engine
<1>1. step[r] \in GpuSteps
      BY DEF Synthesize, SynthBegins, LockWorker, EnsureWorker, ReadVoice, SendSpeak, LookForCancel,
         ReceiveMessage, NoMessage, ConsumeChunk, SpeakTooLong, DrainMessage, DrainEnds,
         NothingToAbandon, UnlockWorker, GpuSteps, SpeakSteps, LockSteps
<1>2. /\ piped[e] \in Requests => piped[e] = r /\ step[r] \in TalkSteps /\ using[r] = e
      /\ proc[e] = "busy" => serving[e] = r /\ step[r] \in TalkSteps /\ using[r] = e
      BY <1>1, PipeUser
<1>3. CASE \/ SynthBegins(r) \/ LockWorker(r) \/ ReadVoice(r) \/ LookForCancel(r)
           \/ ConsumeChunk(r) \/ NothingToAbandon(r) \/ UnlockWorker(r)
  <2>1. piped' = piped /\ proc' = proc /\ serving' = serving /\ sent' = sent
        BY <1>3 DEF SynthBegins, LockWorker, ReadVoice, LookForCancel, ConsumeChunk,
           NothingToAbandon, UnlockWorker, synthVars, pipeVars
  <2>2. piped[e] = r \/ (proc[e] = "busy" /\ serving[e] = r) =>
          step'[r] \in TalkSteps /\ using'[r] = using[r]
    <3>1. CASE NothingToAbandon(r)
          BY <1>2, <3>1, VoiceAssumption DEF NothingToAbandon, NoAbandon, SynthAlive, PipeOf
    <3>2. CASE ~NothingToAbandon(r)
          BY <1>2, <1>3, <3>2 DEF SynthBegins, LockWorker, ReadVoice, LookForCancel, ConsumeChunk,
             UnlockWorker, synthVars, pipeVars, TalkSteps
    <3>3. QED
          BY <3>1, <3>2
  <2>3. QED
        BY <1>2, <2>1, <2>2, PipeKept
<1>4. CASE EnsureWorker(r)
  <2>1. piped' = piped /\ serving' = serving /\ sent' = sent /\ step[r] = "ensure"
        BY <1>4 DEF EnsureWorker, pipeVars
  <2>2. piped[e] = Nobody /\ proc[e] # "busy"
        BY <1>2, <2>1 DEF TalkSteps
  <2>3. proc'[e] # "busy"
        BY <1>4, <2>2 DEF EnsureWorker
  <2>4. QED
        BY <2>1, <2>2, <2>3 DEF PipeOf
<1>5. CASE SendSpeak(r)
  <2>1. CASE SynthAlive(using[r])
    <3>1. /\ step[r] = "speak" /\ step' = [step EXCEPT ![r] = "read"]
          /\ piped' = [piped EXCEPT ![using[r]] = r]
          /\ proc' = proc /\ sent' = sent /\ serving' = serving /\ using' = using
          BY <1>5, <2>1 DEF SendSpeak
    <3>2. piped[e] = Nobody /\ proc[e] # "busy"
          BY <1>2, <3>1 DEF TalkSteps
    <3>3. \A i \in 1..Len(sent[e]) : sent[e][i][1] # r
          BY <3>1 DEF PipeOf, Sent, TalkSteps
    <3>4. CASE using[r] = e
          BY <2>1, <3>1, <3>2, <3>3, <3>4, VoiceAssumption DEF PipeOf, SynthAlive, TalkSteps
    <3>5. CASE using[r] # e
          BY <3>1, <3>2, <3>5 DEF PipeOf
    <3>6. QED
          BY <3>4, <3>5
  <2>2. CASE ~SynthAlive(using[r])
    <3>1. ResetWorker(using[r]) /\ using[r] \in Engines
          BY <1>5, <2>2 DEF SendSpeak, HolderInv
    <3>2. piped[e] = Nobody /\ proc[e] # "busy"
          BY <1>2, <1>5 DEF SendSpeak, TalkSteps
    <3>3. CASE e # using[r]
          BY <3>1, <3>2, <3>3, PipeIdle
    <3>4. QED
          BY <3>1, <3>3, PipeReset
  <2>3. QED
        BY <2>1, <2>2
<1>6. CASE NoMessage(r) \/ SpeakTooLong(r) \/ \E from \in {"cancel", "abandon"} : DrainEnds(r, from)
  <2>1. ResetWorker(using[r]) /\ using[r] \in Engines
        BY <1>6 DEF NoMessage, SpeakTooLong, DrainEnds, HolderInv, TalkSteps
  <2>2. CASE e # using[r]
    <3>1. piped[e] = Nobody /\ proc[e] # "busy"
          BY <1>2, <2>2
    <3>2. QED
          BY <2>1, <2>2, <3>1, PipeIdle
  <2>3. QED
        BY <2>1, <2>2, PipeReset
<1>7. CASE ReceiveMessage(r) \/ \E from \in {"cancel", "abandon"} : DrainMessage(r, from)
  <2>1. /\ sent[using[r]] # <<>> /\ sent' = [sent EXCEPT ![using[r]] = Tail(@)]
        /\ piped' = piped /\ proc' = proc /\ serving' = serving /\ using' = using
        /\ step[r] \in TalkSteps
        BY <1>7 DEF ReceiveMessage, DrainMessage, TalkSteps
  <2>2. using[r] \in Engines
        BY <2>1 DEF HolderInv
  <2>3. \A i \in 1..Len(sent'[e]) : \E j \in 1..Len(sent[e]) : sent'[e][i] = sent[e][j]
    <3>1. CASE e = using[r]
      <4>1. sent'[e] = Tail(sent[e]) /\ sent[e] \in Seq(Message) /\ sent[e] # <<>>
            BY <2>1, <3>1
      <4>2. \A i \in 1..Len(Tail(sent[e])) : \E j \in 1..Len(sent[e]) : Tail(sent[e])[i] = sent[e][j]
            BY <4>1, TailBefore
      <4>3. QED
            BY <4>1, <4>2
    <3>2. CASE e # using[r]
          BY <2>1, <2>2, <3>2
    <3>3. QED
          BY <3>1, <3>2
  <2>4. ASSUME piped[e] = r \/ (proc[e] = "busy" /\ serving[e] = r)
        PROVE  step'[r] \in TalkSteps
    <3>1. e = using[r]
          BY <1>2, <2>4
    <3>2. Head(sent[e]) = sent[e][1] /\ 1 \in 1..Len(sent[e]) /\ sent[e][1] \in Message
      <4>1. sent[e] \in Seq(Message) /\ sent[e] # <<>>
            BY <2>1, <3>1
      <4>2. QED
            BY <4>1, TailBefore
    <3>3. Head(sent[e])[1] # r \/ Head(sent[e])[2] = "chunk"
          BY <2>4, <3>2, VoiceAssumption DEF PipeOf
    <3>4. Head(sent[e]) \notin {<<r, "done">>, <<r, "error">>}
          BY <3>3
    <3>5. QED
          BY <1>7, <3>1, <3>2, <3>3, <3>4 DEF ReceiveMessage, DrainMessage, TalkSteps
  <2>5. QED
        BY <1>2, <2>1, <2>3, <2>4, PipeKept
<1>8. QED
      BY <1>3, <1>4, <1>5, <1>6, <1>7 DEF Synthesize

\* The steps of a read-aloud worker.
LEMMA PipeServes ==
    ASSUME VoiceType, NEW e \in Engines, PipeOf(e), NEW f \in Engines, SynthWorker(f)
    PROVE  PipeOf(e)'
<1> USE DEF VoiceType, RequestType, SynthType, requestVars, TalkSteps
<1>1. CASE e # f
  <2>1. /\ piped'[e] = piped[e] /\ proc'[e] = proc[e] /\ serving'[e] = serving[e]
        /\ sent'[e] = sent[e] /\ step' = step /\ using' = using
        BY <1>1 DEF SynthWorker, TakeSpeak, MakeChunk, EndSpeak, SynthDies
  <2>2. QED
        BY <2>1 DEF PipeOf, Sent
<1>2. CASE e = f /\ (TakeSpeak(e) \/ SynthDies(e))
      BY <1>2, VoiceAssumption DEF TakeSpeak, SynthDies, PipeOf, Sent
<1>3. CASE e = f /\ (MakeChunk(e) \/ EndSpeak(e))
  <2>1. PICK how \in {"chunk", "done", "error"} :
          sent' = [sent EXCEPT ![e] = Append(@, <<serving[e], how>>)] /\ (MakeChunk(e) <=> how = "chunk")
    <3>1. CASE MakeChunk(e)
          BY <3>1 DEF MakeChunk
    <3>2. CASE EndSpeak(e) /\ ~MakeChunk(e)
          BY <3>2 DEF EndSpeak
    <3>3. QED
          BY <1>3, <3>1, <3>2
  <2>2. serving[e] \in Requests /\ Sent(serving[e]) /\ piped[e] = Nobody
        BY <1>3, VoiceAssumption DEF MakeChunk, EndSpeak, PipeOf, Sent
  <2>3. <<serving[e], how>> \in Message
        BY <2>2, PairTypes
  <2>4. \A i \in 1..Len(sent'[e]) : sent'[e][i] = <<serving[e], how>>
                                     \/ \E j \in 1..Len(sent[e]) : sent'[e][i] = sent[e][j]
    <3>1. sent'[e] = Append(sent[e], <<serving[e], how>>) /\ sent[e] \in Seq(Message)
          BY <2>1
    <3>2. QED
          BY <2>3, <3>1, AppendBefore
  <2>5. piped' = piped /\ step' = step /\ using' = using
        BY <1>3 DEF MakeChunk, EndSpeak
  <2>6. \A i \in 1..Len(sent'[e]) : sent'[e][i][1] \in Requests /\ Sent(sent'[e][i][1])
    <3> SUFFICES ASSUME NEW i \in 1..Len(sent'[e])
                 PROVE  sent'[e][i][1] \in Requests /\ Sent(sent'[e][i][1])
        OBVIOUS
    <3>1. CASE sent'[e][i] = <<serving[e], how>>
          BY <2>2, <3>1
    <3>2. ASSUME NEW j \in 1..Len(sent[e]), sent'[e][i] = sent[e][j]
          PROVE  sent'[e][i][1] \in Requests /\ Sent(sent'[e][i][1])
          BY <3>2 DEF PipeOf
    <3>3. QED
          BY <2>4, <3>1, <3>2
  <2>7. CASE MakeChunk(e)
    <3>1. proc' = proc /\ serving' = serving /\ proc[e] = "busy" /\ how = "chunk"
          BY <1>3, <2>1, <2>7 DEF MakeChunk
    <3>2. \A i \in 1..Len(sent'[e]) :
            sent'[e][i][1] = serving[e] => sent'[e][i][2] = "chunk"
      <4> SUFFICES ASSUME NEW i \in 1..Len(sent'[e]), sent'[e][i][1] = serving[e]
                   PROVE  sent'[e][i][2] = "chunk"
          OBVIOUS
      <4>1. CASE sent'[e][i] = <<serving[e], how>>
            BY <3>1, <4>1
      <4>2. ASSUME NEW j \in 1..Len(sent[e]), sent'[e][i] = sent[e][j]
            PROVE  sent'[e][i][2] = "chunk"
            BY <3>1, <4>2 DEF PipeOf
      <4>3. QED
            BY <2>4, <4>1, <4>2
    <3>3. serving[e] \in Requests /\ step[serving[e]] \in TalkSteps /\ using[serving[e]] = e
          BY <3>1 DEF PipeOf
    <3>4. QED
          BY <1>3, <2>2, <2>5, <2>6, <3>1, <3>2, <3>3 DEF PipeOf, Sent
  <2>8. CASE EndSpeak(e)
    <3>1. proc'[e] = "idle"
          BY <2>8 DEF EndSpeak
    <3>2. QED
          BY <1>3, <2>2, <2>5, <2>6, <3>1 DEF PipeOf, Sent
  <2>9. QED
        BY <1>3, <2>7, <2>8
<1>4. QED
      BY <1>1, <1>2, <1>3 DEF SynthWorker

LEMMA LostStays ==
    ASSUME [VoiceNext]_voiceVars
    PROVE  lost => lost'
<1>1. \A r \in Requests : Handler(r) => lost' = lost
      BY DEF Handler, TakeAudio, NewEvent, PrewarmLoop, TakeGpu, RefuseGpu, GiveGpu, LeaveAudio
<1>2. ASSUME NEW r \in Requests, Synthesize(r)
      PROVE  lost' \in {lost, TRUE}
  <2>1. \A e : ResetWorker(e) => lost' \in {lost, TRUE}
        BY DEF ResetWorker, StopConfirmed, StopUnconfirmed
  <2>2. lost' = lost \/ \E e : ResetWorker(e)
        BY <1>2 DEF Synthesize, SynthBegins, LockWorker, EnsureWorker, ReadVoice, SendSpeak,
           LookForCancel, ReceiveMessage, NoMessage, ConsumeChunk, SpeakTooLong, DrainMessage,
           DrainEnds, NothingToAbandon, UnlockWorker
  <2>3. QED
        BY <2>1, <2>2
<1>3. \A r \in Requests : Transcribe(r) => lost' \in {lost, TRUE}
      BY DEF Transcribe, RecogBegins, EnsureRecognizer, AwaitBoot, SendTranscribe, SendEnds,
         ReadAnswer, AnswerLost, JoinWatcher, DropRecognizer, ConfirmStopped, Sticks,
         StopConfirmed, StopUnconfirmed
<1>4. (\E r \in Requests : Watch(r)) \/ Workers \/ UNCHANGED voiceVars => lost' \in {lost, TRUE}
      BY DEF Watch, WatchCancel, WatchWakes, WatchAsks, WatchAnswered, WatchKills,
         ConfirmStopped, Sticks, StopConfirmed, StopUnconfirmed,
         Workers, SynthWorker, TakeSpeak, MakeChunk, EndSpeak, SynthDies, RecogWorker,
         LoadModel, TakeFrame, Answer, RecogDies, requestVars, voiceVars
<1>5. SaveVoice \/ CancelReads \/ CancelSets \/ SetupBegins \/ CloseBegins \/ Operation
        => lost' \in {lost, TRUE}
      BY DEF SaveVoice, SetVoice, CancelReads, CancelSets,
         SetupBegins, CloseBegins, Operation, CloseSpeech, SpeechClosed, SpeechNotClosed,
         ListenClosed, ListenNotClosed, SetupEnds, CollectWorkers, WorkersStopped,
         WorkersNotStopped, RecognizerStopped, RecognizerNotStopped, Sticks, StopUnconfirmed,
         requestVars
<1>6. QED
      BY <1>1, <1>2, <1>3, <1>4, <1>5 DEF VoiceNext, Work

LEMMA PipeNext ==
    ASSUME VoiceType, HolderInv, PipeInv, [VoiceNext]_voiceVars
    PROVE  PipeInv'
<1>1. lost => lost'
      BY LostStays
<1> SUFFICES ASSUME ~lost', NEW e \in Engines, PipeOf(e), \A q \in Requests : Sent(q) => Sent(q)'
             PROVE  PipeOf(e)'
    BY <1>1, SentStays DEF PipeInv
<1> USE DEF VoiceType, RequestType
<1>2. ASSUME piped' = piped, proc' = proc, serving' = serving, sent' = sent, using' = using,
             \A q \in Requests : step[q] \in TalkSteps => step'[q] \in TalkSteps
      PROVE  PipeOf(e)'
      BY <1>2 DEF PipeOf
<1>3. ASSUME NEW r \in Requests, Handler(r)
      PROVE  PipeOf(e)'
  <2>1. \A q \in Requests : step[q] \in TalkSteps => step'[q] \in TalkSteps
        BY <1>3 DEF Handler, TakeAudio, NewEvent, PrewarmLoop, TakeGpu, RefuseGpu, GiveGpu,
           LeaveAudio,
           Goes, TalkSteps
  <2>2. QED
        BY <1>2, <1>3, <2>1, HandlerTypes DEF workerVars, synthVars, pipeVars
<1>4. ASSUME NEW r \in Requests, Work(r)
      PROVE  PipeOf(e)'
  <2>1. CASE Transcribe(r) /\ UNCHANGED <<synthVars, serverVars>>
    <3>1. \A q \in Requests : step[q] \in TalkSteps => step'[q] \in TalkSteps
          BY <2>1 DEF Transcribe, RecogBegins, EnsureRecognizer, AwaitBoot, SendTranscribe,
             SendEnds,
             ReadAnswer, AnswerLost, JoinWatcher, DropRecognizer, FirstStep, Breaks, Goes, TalkSteps
    <3>2. QED
          BY <1>2, <2>1, <3>1 DEF synthVars, pipeVars
  <2>2. QED
        BY <1>4, <2>1, PipeSynthesizes DEF Work
<1>5. CASE \/ \E r \in Requests : Watch(r)
           \/ (RecogWorker /\ UNCHANGED <<synthVars, serverVars>>)
           \/ SaveVoice \/ CancelReads \/ CancelSets \/ SetupBegins
           \/ CloseBegins \/ (Operation /\ ~CloseSpeech) \/ UNCHANGED voiceVars
  <2>1. step' = step /\ using' = using /\ piped' = piped /\ proc' = proc /\ serving' = serving /\ sent' = sent
        BY <1>5 DEF Watch, WatchCancel, WatchWakes, WatchAsks, WatchAnswered, WatchKills,
           RecogWorker,
           LoadModel, TakeFrame, Answer, RecogDies, SaveVoice, SetVoice, CancelReads, CancelSets,
           SetupBegins, CloseBegins, Operation, SpeechClosed, SpeechNotClosed,
           ListenClosed, ListenNotClosed, SetupEnds, WorkersStopped,
           WorkersNotStopped, RecognizerStopped, RecognizerNotStopped,
           voiceVars, requestVars, workerVars, synthVars, pipeVars
  <2>2. QED
        BY <1>2, <2>1
<1>6. CASE CloseSpeech
  <2>1. piped'[e] = Nobody /\ sent'[e] = <<>> /\ proc'[e] # "busy"
        BY <1>6, CollectFacts DEF CloseSpeech, CollectWorkers, SynthAlive
  <2>2. QED
        BY <2>1 DEF PipeOf
<1>7. QED
      BY <1>3, <1>4, <1>5, <1>6, PipeServes DEF VoiceNext, Workers

-----------------------------------------------------------------------------
\* What is in the pipes of the recognizer

\* What the operators on sequences do, in terms of lengths and places.
LEMMA PlaceFacts ==
    ASSUME NEW S, NEW q \in Seq(S)
    PROVE  /\ Len(q) \in Nat
           /\ q = <<>> <=> Len(q) = 0
           /\ q # <<>> => /\ Head(q) = q[1]
                          /\ Len(Tail(q)) = Len(q) - 1
                          /\ Len(q) >= 2 => Tail(q)[1] = q[2]
           /\ \A x \in S : /\ Len(Append(q, x)) = Len(q) + 1
                           /\ Append(q, x)[Len(q) + 1] = x
                           /\ Len(q) >= 1 => Append(q, x)[1] = q[1]
                           /\ Len(q) >= 2 => Append(q, x)[2] = q[2]
OBVIOUS

LEMMA BusyNext ==
    ASSUME VoiceType, BusyHasFrame, [VoiceNext]_voiceVars
    PROVE  BusyHasFrame'
<1> USE DEF BusyHasFrame
<1>1. ASSUME UNCHANGED recogVars
      PROVE  BusyHasFrame'
      BY <1>1 DEF recogVars, frameVars
<1>2. ASSUME NEW r \in Requests, SendTranscribe(r) \/ WatchAsks(r)
      PROVE  BusyHasFrame'
  <2>1. rin \in Seq(Order) /\ <<r, "transcribe">> \in Order /\ <<Nobody, "cancel">> \in Order
        BY PairTypes DEF VoiceType, RecogType
  <2>2. \A x \in Order : Append(rin, x) # <<>>
        BY <2>1, PlaceFacts
  <2>3. rproc' = rproc /\ rin' \in {rin, Append(rin, <<r, "transcribe">>), Append(rin, <<Nobody, "cancel">>)}
        BY <1>2 DEF SendTranscribe, WatchAsks
  <2>4. QED
        BY <2>1, <2>2, <2>3
<1>3. ASSUME NEW r \in Requests, Transcribe(r), ~SendTranscribe(r)
      PROVE  BusyHasFrame'
      BY <1>3 DEF Transcribe, RecogBegins, EnsureRecognizer, AwaitBoot, SendEnds,
         ReadAnswer, AnswerLost, JoinWatcher, DropRecognizer, ConfirmStopped, Kills, Sticks,
         recogVars, frameVars
<1>4. ASSUME NEW r \in Requests, Watch(r), ~WatchAsks(r)
      PROVE  BusyHasFrame'
      BY <1>4 DEF Watch, WatchCancel, WatchWakes, WatchAnswered, WatchKills,
         ConfirmStopped, Kills, Sticks, frameVars
<1>5. CASE RecogWorker
      BY <1>5 DEF RecogWorker, LoadModel, TakeFrame, Answer, RecogDies, Kills
<1>6. CASE ListenClosed \/ ListenNotClosed
      BY <1>6 DEF ListenClosed, ListenNotClosed, RecognizerStopped, RecognizerNotStopped,
         Kills, Sticks, frameVars
<1>7. ASSUME NEW r \in Requests, Handler(r)
      PROVE  BusyHasFrame'
      BY <1>1, <1>7, HandlerTypes DEF workerVars
<1>8. CASE \/ (\E e \in Engines : SynthWorker(e)) /\ UNCHANGED <<recogVars, serverVars>>
           \/ SaveVoice \/ CancelReads \/ CancelSets \/ SetupBegins \/ CloseBegins
           \/ CloseSpeech \/ SpeechClosed \/ SpeechNotClosed \/ SetupEnds \/ UNCHANGED voiceVars
  <2>1. UNCHANGED recogVars
        BY <1>8 DEF SaveVoice, CancelReads, CancelSets, SetupBegins, CloseBegins,
           CloseSpeech, SpeechClosed, SpeechNotClosed, SetupEnds, workerVars, voiceVars
  <2>2. QED
        BY <1>1, <2>1
<1>9. QED
      BY <1>1, <1>2, <1>3, <1>4, <1>5, <1>6, <1>7, <1>8 DEF VoiceNext, Work, Watch, Workers,
         Operation

\* FrameInv as the one request sees it that has the GPU.
FrameHere(r) ==
  ~lost =>
    /\ rproc # "stuck"
    /\ RecogAlive => current
    /\ backend = "gpu" => ~raced /\ watch[r] # "asked"
    /\ ~raced => (RecogAlive /\ ~UsesRecog(r) => Resting) /\ FrameOf(r)

LEMMA FrameTo ==
    ASSUME HolderInv, FrameInv, NEW r \in Requests, step[r] \in GpuSteps
    PROVE  /\ FrameHere(r)
           /\ \A q \in Requests \ {r} : ~UsesRecog(q) /\ watch[q] = "none"
<1>1. \A q \in Requests \ {r} : ~UsesRecog(q) /\ watch[q] = "none"
      BY DEF HolderInv, UsesRecog, GpuSteps, HearSteps, WatchSteps
<1>2. QED
      BY <1>1 DEF FrameInv, FrameHere

LEMMA FrameFrom ==
    ASSUME NEW r \in Requests, FrameHere(r)',
           \A q \in Requests \ {r} : ~UsesRecog(q)' /\ watch'[q] = "none"
    PROVE  FrameInv'
<1>1. \A q \in Requests \ {r} : FrameOf(q)'
      BY DEF UsesRecog, WatchSteps, FrameOf
<1>2. QED
      BY <1>1 DEF FrameInv, FrameHere

LEMMA FrameDead ==
    ASSUME NEW r \in Requests, ~RecogAlive', rproc' # "stuck",
           backend' = "gpu" => ~raced' /\ watch'[r] # "asked",
           ~raced' =>
             /\ step'[r] \in {"boot", "write", "writing"} => watch'[r] # "asked"
             /\ step'[r] \in {"writing", "await"} /\ rout' # <<>> =>
                  rout'[1] \in {r} \X {"text", "input", "unavailable"}
    PROVE  FrameHere(r)'
BY DEF FrameHere, FrameOf

LEMMA FrameTranscribes ==
    ASSUME VoiceType, NEW r \in Requests, FrameHere(r), Transcribe(r), lost => lost'
    PROVE  FrameHere(r)'
<1> SUFFICES ASSUME ~lost', ~lost PROVE FrameHere(r)'
    BY DEF FrameHere
<1> USE DEF VoiceType, RequestType, RecogType, Goes, Breaks, frameVars, recogVars
<1>0. /\ r # Nobody /\ <<r, "transcribe">> \in Order
      /\ rin \in Seq(Order) /\ rout \in Seq(Frame)
      BY VoiceAssumption, PairTypes
<1>1. CASE RecogBegins(r)
  <2>1. UNCHANGED recogVars /\ lost' = lost /\ ~UsesRecog(r) /\ ~UsesRecog(r)'
        BY <1>1 DEF RecogBegins, UsesRecog, WatchSteps
  <2>2. FrameOf(r)'
        BY <2>1 DEF FrameOf, UsesRecog, WatchSteps
  <2>3. QED
        BY <2>1, <2>2 DEF FrameHere, RecogAlive, Resting
<1>2. CASE EnsureRecognizer(r)
  <2>1. step[r] = "worker" /\ ~UsesRecog(r)
        BY <1>2 DEF EnsureRecognizer, UsesRecog, WatchSteps
  <2>2. CASE step'[r] = "release"
    <3>1. /\ UNCHANGED <<watch, current, rproc, rin, rout, booted, raced, backend>>
          /\ ~RecogAlive
          BY <1>2, <2>1, <2>2 DEF EnsureRecognizer, FirstStep, FrameHere
    <3>2. QED
          BY <2>2, <3>1, FrameDead DEF FrameHere, RecogAlive
  <2>3. CASE step'[r] # "release"
    <3>1. /\ step'[r] = FirstStep /\ watch'[r] = "waiting" /\ current' = TRUE /\ backend' = backend
          BY <1>2, <2>3 DEF EnsureRecognizer
    <3>2. CASE RecogAlive
      <4>1. current /\ UNCHANGED <<rproc, rin, rout, booted, raced>>
            BY <1>2, <2>3, <3>2 DEF EnsureRecognizer, FrameHere
      <4>2. ~raced => Resting /\ step'[r] = "write"
            BY <2>1, <3>1, <3>2, <4>1 DEF FrameHere, Resting, FirstStep
      <4>3. ~raced => FrameOf(r)' /\ UsesRecog(r)'
            BY <3>1, <4>1, <4>2 DEF FrameOf, Resting, UsesRecog, WatchSteps
      <4>4. QED
            BY <3>1, <4>1, <4>3 DEF FrameHere
    <3>3. CASE ~RecogAlive
      <4>1. /\ rproc' = IF backend = "gpu" THEN "loading" ELSE "idle"
            /\ rin' = <<>> /\ rout' = <<>> /\ booted' = FALSE /\ raced' = FALSE
            BY <1>2, <2>3, <3>3 DEF EnsureRecognizer
      <4>2. step'[r] = IF backend = "gpu" THEN "boot" ELSE "write"
            BY <3>1, <3>3 DEF FirstStep
      <4>3. FrameOf(r)' /\ UsesRecog(r)'
            BY <3>1, <4>1, <4>2 DEF FrameOf, Resting, Boots, UsesRecog, WatchSteps
      <4>4. QED
            BY <3>1, <4>1, <4>3 DEF FrameHere
    <3>4. QED
          BY <3>2, <3>3
  <2>4. QED
        BY <2>2, <2>3
<1>3. CASE AwaitBoot(r)
  <2>1. /\ step[r] = "boot" /\ rout # <<>> /\ rout' = Tail(rout)
        /\ UNCHANGED <<backend, current, rproc, rin, watch, raced>>
        /\ step'[r] \in {"write", "join", "joinBroken"}
        BY <1>3 DEF AwaitBoot
  <2>2. CASE ~RecogAlive
        BY <2>1, <2>2, FrameDead DEF FrameHere, FrameOf, RecogAlive
  <2>3. CASE RecogAlive /\ ~raced
    <3>1. Boots /\ rout = <<<<Nobody, "ready">>>>
          BY <2>1, <2>3 DEF FrameHere, FrameOf, Boots
    <3>2. Head(rout) = <<Nobody, "ready">> /\ Tail(rout) = <<>>
          BY <3>1
    <3>3. step'[r] = "write" /\ booted' = TRUE /\ rout' = <<>>
          BY <1>3, <3>2 DEF AwaitBoot
    <3>4. FrameOf(r)' /\ UsesRecog(r)'
          BY <2>1, <2>3, <3>1, <3>3 DEF FrameHere, FrameOf, Resting, Boots, UsesRecog, WatchSteps
    <3>5. QED
          BY <2>1, <2>3, <3>4 DEF FrameHere, RecogAlive
  <2>4. CASE RecogAlive /\ raced
        BY <2>1, <2>4 DEF FrameHere, RecogAlive
  <2>5. QED
        BY <2>2, <2>3, <2>4
<1>4. CASE SendTranscribe(r)
  <2>1. step[r] = "write" /\ UNCHANGED <<backend, current, rproc, rout, booted, watch, raced>>
        BY <1>4 DEF SendTranscribe
  <2>2. CASE ~RecogAlive
    <3>1. step'[r] \in {"join", "joinBroken"}
          BY <1>4, <2>2 DEF SendTranscribe
    <3>2. QED
          BY <2>1, <2>2, <3>1, FrameDead DEF FrameHere, RecogAlive
  <2>3. CASE RecogAlive /\ ~raced
    <3>1. Resting /\ watch[r] # "asked"
          BY <2>1, <2>3 DEF FrameHere, FrameOf
    <3>2. step'[r] \in {"writing", "await"} /\ rin' = Append(rin, <<r, "transcribe">>)
          BY <1>4, <2>3 DEF SendTranscribe
    <3>3. rin' = <<<<r, "transcribe">>>>
          BY <3>1, <3>2 DEF Resting
    <3>4. OwesAnswer(r, FALSE)'
          BY <2>1, <3>1, <3>3 DEF OwesAnswer, Resting
    <3>5. FrameOf(r)' /\ UsesRecog(r)'
          BY <2>1, <3>1, <3>2, <3>4 DEF FrameOf, UsesRecog, WatchSteps, Resting
    <3>6. QED
          BY <2>1, <2>3, <3>5 DEF FrameHere, RecogAlive
  <2>4. CASE RecogAlive /\ raced
        BY <2>1, <2>4 DEF FrameHere, RecogAlive
  <2>5. QED
        BY <2>2, <2>3, <2>4
<1>5. CASE SendEnds(r)
  <2>1. step[r] = "writing" /\ UNCHANGED recogVars
        BY <1>5 DEF SendEnds
  <2>2. CASE ~RecogAlive
    <3>1. step'[r] \in {"join", "joinBroken"}
          BY <1>5, <2>2 DEF SendEnds
    <3>2. QED
          BY <2>1, <2>2, <3>1, FrameDead DEF FrameHere, RecogAlive
  <2>3. CASE RecogAlive
    <3>1. step'[r] = "await"
          BY <1>5, <2>3 DEF SendEnds
    <3>2. ~raced => FrameOf(r)' /\ UsesRecog(r)'
          BY <2>1, <2>3, <3>1 DEF FrameHere, FrameOf, OwesAnswer, UsesRecog, WatchSteps
    <3>3. QED
          BY <2>1, <2>3, <3>2 DEF FrameHere, RecogAlive
  <2>4. QED
        BY <2>2, <2>3
<1>6. CASE ReadAnswer(r)
  <2>1. /\ step[r] = "await" /\ rout # <<>> /\ rout' = Tail(rout) /\ step'[r] \in {"join", "joinBad"}
        /\ UNCHANGED <<backend, current, rproc, rin, booted, watch, raced>>
        BY <1>6 DEF ReadAnswer
  <2>2. CASE ~RecogAlive
        BY <2>1, <2>2, FrameDead DEF FrameHere, RecogAlive
  <2>3. CASE RecogAlive /\ ~raced
    <3>1. OwesAnswer(r, watch[r] = "asked")
          BY <2>1, <2>3 DEF FrameHere, FrameOf
    <3>2. /\ Len(rin) \in Nat /\ Len(rout) \in Nat /\ Len(rout') = Len(rout) - 1
          /\ rin = <<>> <=> Len(rin) = 0
          /\ Len(rout) >= 2 => rout'[1] = rout[2]
          /\ rout' \in Seq(Frame)
          BY <1>0, <2>1, PlaceFacts, QueueTypes
    <3>3. rout' = <<>> <=> Len(rout') = 0
          BY <3>2, PlaceFacts
    <3>4. OwesAck(watch[r] = "asked")'
          BY <2>1, <3>1, <3>2, <3>3 DEF OwesAnswer, OwesAck
    <3>5. FrameOf(r)' /\ UsesRecog(r)'
          BY <2>1, <3>4 DEF FrameOf, UsesRecog, WatchSteps
    <3>6. QED
          BY <2>1, <2>3, <3>5 DEF FrameHere, RecogAlive
  <2>4. CASE RecogAlive /\ raced
        BY <2>1, <2>4 DEF FrameHere, RecogAlive
  <2>5. QED
        BY <2>2, <2>3, <2>4
<1>7. CASE AnswerLost(r)
  <2>1. UNCHANGED recogVars /\ ~RecogAlive /\ step'[r] \in {"join", "joinBroken"}
        BY <1>7 DEF AnswerLost
  <2>2. QED
        BY <2>1, FrameDead DEF FrameHere, RecogAlive
<1>8. CASE JoinWatcher(r)
  <2>1. /\ watch[r] # "asked" /\ watch'[r] = "none"
        /\ UNCHANGED <<backend, current, rproc, rin, rout, booted, raced>>
        /\ \/ step[r] \in {"join", "joinBad"} /\ step'[r] \in {"release", "stop"}
           \/ step[r] = "joinBroken" /\ step'[r] = "stop"
        BY <1>8 DEF JoinWatcher
  <2>2. CASE ~RecogAlive
        BY <2>1, <2>2, FrameDead DEF FrameHere, RecogAlive
  <2>3. CASE RecogAlive /\ ~raced
    <3>1. OwesAck(FALSE) /\ step[r] # "joinBroken"
          BY <2>1, <2>3 DEF FrameHere, FrameOf
    <3>2. /\ Len(rin) \in Nat /\ Len(rout) \in Nat
          /\ rin = <<>> <=> Len(rin) = 0
          /\ rout = <<>> <=> Len(rout) = 0
          BY <1>0, PlaceFacts
    <3>3. Resting
          BY <3>1, <3>2 DEF OwesAck, Resting
    <3>4. Resting' /\ FrameOf(r)'
          BY <2>1, <3>1, <3>3 DEF Resting, FrameOf, OwesAck
    <3>5. QED
          BY <2>1, <2>3, <3>4 DEF FrameHere, RecogAlive
  <2>4. CASE RecogAlive /\ raced
        BY <2>1, <2>4 DEF FrameHere, RecogAlive
  <2>5. QED
        BY <2>2, <2>3, <2>4
<1>9. CASE DropRecognizer(r)
  <2>1. /\ rproc' = "dead" /\ raced' = FALSE /\ step'[r] = "release" /\ UNCHANGED <<backend, watch>>
        BY <1>9 DEF DropRecognizer, ConfirmStopped, Kills, Sticks, StopUnconfirmed
  <2>2. QED
        BY <2>1, FrameDead DEF FrameHere, RecogAlive
<1>10. QED
       BY <1>1, <1>2, <1>3, <1>4, <1>5, <1>6, <1>7, <1>8, <1>9 DEF Transcribe

LEMMA FrameWatches ==
    ASSUME VoiceType, HolderInv, NEW r \in Requests, FrameHere(r), WatchCancel(r), lost => lost'
    PROVE  FrameHere(r)'
<1> SUFFICES ASSUME ~lost', ~lost PROVE FrameHere(r)'
    BY DEF FrameHere
<1> USE DEF VoiceType, RequestType, RecogType, frameVars, requestVars
<1>0. /\ <<Nobody, "cancel">> \in Order /\ rin \in Seq(Order) /\ rout \in Seq(Frame)
      /\ UsesRecog(r) /\ step' = step /\ UsesRecog(r)'
      BY PairTypes DEF WatchCancel, WatchWakes, WatchAsks, WatchAnswered, WatchKills, HolderInv,
         UsesRecog
<1>1. CASE WatchWakes(r)
  <2>1. UNCHANGED <<backend, current, rproc, rin, rout, booted, raced>> /\ watch[r] # "asked" /\ watch'[r] # "asked"
        BY <1>1 DEF WatchWakes
  <2>2. QED
        BY <1>0, <2>1 DEF FrameHere, FrameOf, RecogAlive, Boots, Resting, OwesAck, OwesAnswer
<1>2. CASE WatchAsks(r)
  <2>1. /\ watch[r] = "armed" /\ backend = "ane" /\ step[r] # "writing"
        /\ UNCHANGED <<backend, current, rproc, rout, booted>>
        BY <1>2 DEF WatchAsks
  <2>2. CASE ~RecogAlive
    <3>1. watch'[r] = "none" /\ UNCHANGED <<rin, raced>>
          BY <1>2, <2>2 DEF WatchAsks
    <3>2. QED
          BY <1>0, <2>1, <2>2, <3>1, FrameDead DEF FrameHere, FrameOf, RecogAlive
  <2>3. CASE RecogAlive
    <3>1. rin' = Append(rin, <<Nobody, "cancel">>) /\ watch'[r] = "asked" /\ raced' = (raced \/ step[r] = "write")
          BY <1>2, <2>3 DEF WatchAsks
    <3>2. CASE raced'
          BY <2>1, <2>3, <3>1, <3>2 DEF FrameHere, RecogAlive
    <3>3. CASE ~raced'
      <4>1. ~raced /\ step[r] # "write" /\ FrameOf(r)
            BY <3>1, <3>3 DEF FrameHere
      <4>2. step[r] # "boot" /\ step[r] # "joinBroken"
            BY <2>1, <2>3, <4>1 DEF FrameOf, Boots
      <4>3. /\ Len(rin) \in Nat /\ Len(rout) \in Nat /\ Len(rin') = Len(rin) + 1
            /\ rin'[Len(rin) + 1] = <<Nobody, "cancel">>
            /\ Len(rin) >= 1 => rin'[1] = rin[1]
            /\ rin = <<>> <=> Len(rin) = 0
            /\ rout = <<>> <=> Len(rout) = 0
            BY <1>0, <3>1, PlaceFacts
      <4>4. rin' # <<>>
            BY <4>3
      <4>5. CASE step[r] = "await"
        <5>1. OwesAnswer(r, FALSE)
              BY <2>1, <2>3, <4>1, <4>5 DEF FrameOf
        <5>2. OwesAnswer(r, TRUE)'
              BY <2>1, <4>3, <4>4, <5>1 DEF OwesAnswer
        <5>3. QED
              BY <1>0, <2>1, <2>3, <3>1, <4>1, <4>5, <5>2 DEF FrameHere, FrameOf, RecogAlive
      <4>6. CASE step[r] \in {"join", "joinBad", "stop"}
        <5>1. OwesAck(FALSE)
              BY <2>1, <2>3, <4>1, <4>6 DEF FrameOf
        <5>2. OwesAck(TRUE)'
              BY <2>1, <4>3, <4>4, <5>1 DEF OwesAck
        <5>3. QED
              BY <1>0, <2>1, <2>3, <3>1, <4>1, <4>6, <5>2 DEF FrameHere, FrameOf, RecogAlive
      <4>7. QED
            BY <1>0, <2>1, <4>1, <4>2, <4>5, <4>6 DEF UsesRecog, WatchSteps
    <3>4. QED
          BY <3>2, <3>3
  <2>4. QED
        BY <2>2, <2>3
<1>3. CASE WatchAnswered(r)
  <2>1. /\ watch[r] = "asked" /\ watch'[r] = "none" /\ raced' = (raced \/ RecogAlive)
        /\ UNCHANGED <<backend, current, rproc, rin, rout, booted>>
        BY <1>3 DEF WatchAnswered
  <2>2. backend # "gpu"
        BY <2>1 DEF FrameHere
  <2>3. CASE ~RecogAlive
        BY <1>0, <2>1, <2>2, <2>3, FrameDead DEF FrameHere, FrameOf, RecogAlive
  <2>4. CASE RecogAlive
        BY <2>1, <2>2, <2>4 DEF FrameHere, RecogAlive
  <2>5. QED
        BY <2>3, <2>4
<1>4. CASE WatchKills(r)
  <2>1. watch'[r] = "none" /\ rproc' = "dead" /\ UNCHANGED <<backend, rout, raced>>
        BY <1>4 DEF WatchKills, ConfirmStopped, Kills, Sticks, StopUnconfirmed
  <2>2. QED
        BY <1>0, <2>1, FrameDead DEF FrameHere, FrameOf, RecogAlive
<1>5. QED
      BY <1>1, <1>2, <1>3, <1>4 DEF WatchCancel

LEMMA FrameWorks ==
    ASSUME VoiceType, NEW r \in Requests, FrameHere(r), RecogWorker
    PROVE  FrameHere(r)'
<1> SUFFICES ASSUME ~lost', ~lost PROVE FrameHere(r)'
    BY DEF FrameHere, RecogWorker, LoadModel, TakeFrame, Answer, RecogDies, requestVars
<1> USE DEF VoiceType, RequestType, RecogType
<1>0. /\ rin \in Seq(Order) /\ rout \in Seq(Frame)
      /\ UNCHANGED <<step, backend, current, watch, raced, booted>> /\ RecogAlive /\ current
      BY DEF RecogWorker, LoadModel, TakeFrame, Answer, RecogDies, requestVars, RecogAlive,
         FrameHere
<1>1. \A x \in Frame :
        /\ Len(Append(rout, x)) = Len(rout) + 1
        /\ Append(rout, x)[Len(rout) + 1] = x
        /\ Len(rout) >= 1 => Append(rout, x)[1] = rout[1]
        /\ Append(rout, x) # <<>>
      BY <1>0, PlaceFacts
<1>2. /\ Len(rin) \in Nat /\ Len(rout) \in Nat
      /\ rin = <<>> <=> Len(rin) = 0
      /\ rout = <<>> <=> Len(rout) = 0
      /\ rin # <<>> => /\ Head(rin) = rin[1]
                       /\ Len(Tail(rin)) = Len(rin) - 1
                       /\ Len(rin) >= 2 => Tail(rin)[1] = rin[2]
                       /\ Tail(rin) = <<>> <=> Len(rin) = 1
  <2>1. /\ Len(rin) \in Nat /\ Len(rout) \in Nat
        /\ rin = <<>> <=> Len(rin) = 0
        /\ rout = <<>> <=> Len(rout) = 0
        /\ rin # <<>> => /\ Head(rin) = rin[1]
                         /\ Len(Tail(rin)) = Len(rin) - 1
                         /\ Len(rin) >= 2 => Tail(rin)[1] = rin[2]
                         /\ Tail(rin) \in Seq(Order)
        BY <1>0, PlaceFacts, QueueTypes
  <2>2. rin # <<>> => (Tail(rin) = <<>> <=> Len(Tail(rin)) = 0)
        BY <2>1, PlaceFacts
  <2>3. QED
        BY <2>1, <2>2
<1>3. CASE RecogDies
  <2>1. rproc' = "dead" /\ rout' = rout
        BY <1>3 DEF RecogDies, Kills
  <2>2. QED
        BY <1>0, <2>1, FrameDead DEF FrameHere, FrameOf, RecogAlive
<1>4. CASE raced
  <2>1. rproc' # "stuck"
        BY DEF RecogWorker, LoadModel, TakeFrame, Answer, RecogDies, Kills
  <2>2. QED
        BY <1>0, <1>4, <2>1 DEF FrameHere
<1>5. CASE LoadModel /\ ~raced
  <2>1. rproc = "loading" /\ rin' = rin
        BY <1>5 DEF LoadModel
  <2>2. UsesRecog(r) /\ step[r] = "boot" /\ Boots /\ rout = <<>>
        BY <1>0, <1>5, <2>1 DEF FrameHere, FrameOf, Resting, OwesAnswer, OwesAck, Boots,
           UsesRecog, WatchSteps
  <2>3. CASE rproc' = "dead"
        BY <1>0, <2>2, <2>3, FrameDead DEF FrameHere, FrameOf, RecogAlive
  <2>4. CASE rproc' # "dead"
    <3>1. rproc' = "idle" /\ rout' = <<<<Nobody, "ready">>>>
          BY <1>5, <2>2, <2>4 DEF LoadModel
    <3>2. Boots'
          BY <1>0, <2>1, <2>2, <3>1 DEF Boots
    <3>3. QED
          BY <1>0, <1>5, <2>2, <3>1, <3>2 DEF FrameHere, FrameOf, UsesRecog
  <2>5. QED
        BY <2>3, <2>4
<1>6. CASE (TakeFrame \/ Answer) /\ ~raced
  <2>1. UsesRecog(r) /\ step[r] \in {"writing", "await", "join", "joinBad", "stop"} /\ FrameOf(r)
    <3>1. CASE TakeFrame
          BY <1>0, <1>6, <3>1 DEF FrameHere, FrameOf, Resting, Boots, TakeFrame, UsesRecog,
             WatchSteps
    <3>2. CASE Answer
          BY <1>0, <1>6, <3>2 DEF FrameHere, FrameOf, Resting, Boots, Answer, UsesRecog, WatchSteps
    <3>3. QED
          BY <1>6, <3>1, <3>2
  <2>2. UsesRecog(r)'
        BY <1>0, <2>1 DEF UsesRecog
  <2>3. CASE step[r] \in {"writing", "await"}
    <3>1. OwesAnswer(r, watch[r] = "asked")
          BY <1>0, <2>1, <2>3 DEF FrameOf
    <3>2. /\ <<Nobody, "ack">> \in Frame
          /\ \A how \in {"text", "input", "unavailable"} : <<r, how>> \in Frame
          BY PairTypes
    <3>3. CASE TakeFrame
      <4>1. rproc = "idle" /\ rin # <<>>
            BY <3>3 DEF TakeFrame
      <4>2. CASE rin[1][2] = "cancel"
        <5>1. rin' = Tail(rin) /\ rout' = Append(rout, <<Nobody, "ack">>) /\ rproc' = rproc
              BY <1>2, <3>3, <4>1, <4>2 DEF TakeFrame
        <5>2. Len(rout) = 1 /\ watch[r] = "asked" /\ Len(rin) = 1
              BY <1>2, <3>1, <4>1, <4>2 DEF OwesAnswer
        <5>3. rin' = <<>> /\ Len(rout') = 2 /\ rout'[2] = <<Nobody, "ack">> /\ rout'[1] = rout[1] /\ rout' # <<>>
              BY <1>1, <1>2, <3>2, <4>1, <5>1, <5>2
        <5>4. OwesAnswer(r, TRUE)'
              BY <1>0, <3>1, <4>1, <5>1, <5>3 DEF OwesAnswer
        <5>5. QED
              BY <1>0, <1>2, <2>1, <2>2, <2>3, <4>1, <5>1, <5>2, <5>3, <5>4 DEF FrameHere, FrameOf
      <4>3. CASE rin[1][2] # "cancel"
        <5>1. rin' = rin /\ rout' = rout /\ rproc' = "busy"
              BY <1>2, <3>3, <4>1, <4>3 DEF TakeFrame
        <5>2. rout = <<>>
              BY <1>2, <3>1, <4>1, <4>3 DEF OwesAnswer
        <5>3. OwesAnswer(r, watch[r] = "asked")'
              BY <1>0, <3>1, <4>1, <5>1, <5>2 DEF OwesAnswer
        <5>4. QED
              BY <1>0, <2>1, <2>2, <2>3, <5>1, <5>2, <5>3 DEF FrameHere, FrameOf
      <4>4. QED
            BY <4>2, <4>3
    <3>4. CASE Answer
      <4>1. rproc = "busy" /\ rproc' = "idle" /\ rin' = Tail(rin)
            BY <3>4 DEF Answer
      <4>2. rin # <<>> /\ rout = <<>> /\ rin[1] = <<r, "transcribe">>
            BY <3>1, <4>1 DEF OwesAnswer
      <4>3. PICK how \in {"text", "input", "unavailable"} : rout' = Append(rout, <<r, how>>)
            BY <1>2, <3>4, <4>2 DEF Answer
      <4>4. Len(rout') = 1 /\ rout'[1] = <<r, how>> /\ rout' # <<>>
            BY <1>1, <1>2, <3>2, <4>2, <4>3
      <4>5. OwesAnswer(r, watch[r] = "asked")'
            BY <1>0, <1>2, <3>1, <4>1, <4>2, <4>4 DEF OwesAnswer
      <4>6. QED
            BY <1>0, <2>1, <2>2, <2>3, <4>1, <4>4, <4>5 DEF FrameHere, FrameOf
    <3>5. QED
          BY <1>6, <3>3, <3>4
  <2>4. CASE step[r] \in {"join", "joinBad", "stop"}
    <3>1. OwesAck(watch[r] = "asked")
          BY <1>0, <2>1, <2>4 DEF FrameOf
    <3>2. <<Nobody, "ack">> \in Frame
          BY PairTypes
    <3>3. TakeFrame /\ rin # <<>> /\ rin[1] = <<Nobody, "cancel">>
          BY <1>6, <3>1 DEF OwesAck, TakeFrame, Answer
    <3>4. rin' = Tail(rin) /\ rout' = Append(rout, <<Nobody, "ack">>) /\ rproc' = rproc
          BY <1>2, <3>3 DEF TakeFrame
    <3>5. Len(rin) = 1 /\ Len(rout) = 0 /\ watch[r] = "asked"
          BY <1>2, <3>1, <3>3 DEF OwesAck
    <3>6. /\ rin' = <<>> /\ Len(rin') = 0
          /\ Len(rout') = 1 /\ rout'[1][2] = "ack" /\ rout' # <<>>
          BY <1>1, <1>2, <3>2, <3>3, <3>4, <3>5
    <3>7. OwesAck(TRUE)'
      <4>1. rproc' = "idle" /\ (backend' = "gpu" => booted')
            BY <1>0, <3>1, <3>4 DEF OwesAck
      <4>2. QED
            BY <3>6, <4>1 DEF OwesAck
    <3>8. QED
          BY <1>0, <2>1, <2>2, <2>4, <3>1, <3>4, <3>5, <3>7 DEF FrameHere, FrameOf, OwesAck
  <2>5. QED
        BY <2>1, <2>3, <2>4
<1>7. QED
      BY <1>3, <1>4, <1>5, <1>6 DEF RecogWorker

LEMMA FrameInit == VoiceInit => FrameInv
<1> SUFFICES ASSUME VoiceInit PROVE FrameInv
    OBVIOUS
<1>1. /\ rproc = "none" /\ raced = FALSE
      /\ \A r \in Requests : watch[r] = "none" /\ step[r] \in {"new", "over"}
      BY DEF VoiceInit
<1>2. QED
      BY <1>1 DEF FrameInv, FrameOf, RecogAlive

LEMMA FrameNext ==
    ASSUME VoiceType, HolderInv, FrameInv, [VoiceNext]_voiceVars
    PROVE  FrameInv'
<1> USE DEF VoiceType, RequestType, RecogType
<1>0. lost => lost'
      BY LostStays
<1>1. ASSUME NEW r \in Requests, Transcribe(r)
      PROVE  FrameInv'
  <2>1. /\ step[r] \in GpuSteps
        /\ \A q \in Requests \ {r} : step'[q] = step[q] /\ watch'[q] = watch[q]
        BY <1>1 DEF Transcribe, RecogBegins, EnsureRecognizer, AwaitBoot, SendTranscribe, SendEnds,
           ReadAnswer, AnswerLost, JoinWatcher, DropRecognizer, recogVars, Goes, Breaks,
           GpuSteps, HearSteps, WatchSteps
  <2>2. FrameHere(r)'
        BY <1>0, <1>1, <2>1, FrameTo, FrameTranscribes
  <2>3. QED
        BY <2>1, <2>2, FrameTo, FrameFrom DEF UsesRecog
<1>2. ASSUME NEW r \in Requests, WatchCancel(r)
      PROVE  FrameInv'
  <2>1. /\ watch[r] # "none" /\ step' = step
        /\ \A q \in Requests \ {r} : watch'[q] = watch[q]
        BY <1>2 DEF WatchCancel, WatchWakes, WatchAsks, WatchAnswered, WatchKills,
           requestVars, InRequest
  <2>2. step[r] \in GpuSteps
        BY <2>1 DEF HolderInv, GpuSteps, HearSteps
  <2>3. FrameHere(r)'
        BY <1>0, <1>2, <2>2, FrameTo, FrameWatches
  <2>4. QED
        BY <2>1, <2>2, <2>3, FrameTo, FrameFrom DEF UsesRecog
<1>3. CASE RecogWorker
  <2>1. UNCHANGED <<step, watch, lost, raced, current, backend>> /\ RecogAlive
        BY <1>3 DEF RecogWorker, LoadModel, TakeFrame, Answer, RecogDies, requestVars, RecogAlive
  <2>2. CASE \E r \in Requests : UsesRecog(r)
    <3>1. PICK r \in Requests : UsesRecog(r)
          BY <2>2
    <3>2. step[r] \in GpuSteps
          BY <3>1 DEF UsesRecog, GpuSteps, HearSteps
    <3>3. FrameHere(r)'
          BY <1>3, <3>2, FrameTo, FrameWorks
    <3>4. QED
          BY <2>1, <3>2, <3>3, FrameTo, FrameFrom DEF UsesRecog
  <2>3. CASE \A r \in Requests : ~UsesRecog(r)
    <3>1. rproc' # "stuck"
          BY <1>3 DEF RecogWorker, LoadModel, TakeFrame, Answer, RecogDies, Kills, FrameInv
    <3>2. ~lost /\ ~raced => ~RecogAlive'
          BY <1>3, <2>1, <2>3 DEF FrameInv, Resting, RecogWorker, LoadModel, TakeFrame, Answer,
             RecogDies, Kills, RecogAlive
    <3>3. \A r \in Requests : step[r] \notin {"boot", "write", "writing", "await"}
          BY <2>3 DEF UsesRecog, WatchSteps
    <3>4. QED
          BY <2>1, <3>1, <3>2, <3>3 DEF FrameInv, FrameOf
  <2>4. QED
        BY <2>2, <2>3
<1>4. CASE ListenClosed \/ ListenNotClosed
  <2>1. CASE ListenNotClosed
        BY <2>1 DEF ListenNotClosed, RecognizerNotStopped, Sticks, StopUnconfirmed, FrameInv
  <2>2. CASE ListenClosed
    <3>1. UNCHANGED <<step, lost, backend, rout, watch, raced>>
          BY <2>2 DEF ListenClosed, RecognizerStopped, requestVars
    <3>2. ~lost => ~RecogAlive' /\ rproc' # "stuck"
          BY <2>2 DEF ListenClosed, RecognizerStopped, Kills, FrameInv, RecogAlive
    <3>3. QED
          BY <3>1, <3>2 DEF FrameInv, FrameOf
  <2>3. QED
        BY <1>4, <2>1, <2>2
<1>5. ASSUME UNCHANGED recogVars, \A r \in Requests : step[r] \in HearSteps \/ step'[r] \in HearSteps
                                                       => step'[r] = step[r]
      PROVE  FrameInv'
  <2>1. UNCHANGED <<backend, current, rproc, rin, rout, booted, watch, raced>>
        BY <1>5 DEF recogVars, frameVars
  <2>2. /\ RecogAlive' = RecogAlive /\ Resting' = Resting
        /\ \A r \in Requests : UsesRecog(r)' <=> UsesRecog(r)
        BY <1>5, <2>1 DEF RecogAlive, Resting, UsesRecog, HearSteps, WatchSteps
  <2>3. \A r \in Requests : FrameOf(r) => FrameOf(r)'
    <3> SUFFICES ASSUME NEW r \in Requests, FrameOf(r) PROVE FrameOf(r)'
        OBVIOUS
    <3>1. CASE step'[r] = step[r]
          BY <2>1, <3>1 DEF FrameOf, RecogAlive, Resting, Boots, OwesAnswer, OwesAck
    <3>2. CASE step'[r] # step[r]
          BY <1>5, <3>2 DEF FrameOf, HearSteps, WatchSteps
    <3>3. QED
          BY <3>1, <3>2
  <2>4. QED
        BY <1>0, <2>1, <2>2, <2>3 DEF FrameInv
<1>6. ASSUME NEW r \in Requests, Handler(r) \/ (Synthesize(r) /\ UNCHANGED <<recogVars, serverVars>>)
      PROVE  FrameInv'
  <2>1. UNCHANGED recogVars
        BY <1>6, HandlerTypes DEF workerVars
  <2>2. \A q \in Requests : step[q] \in HearSteps \/ step'[q] \in HearSteps => step'[q] = step[q]
    <3>1. CASE Handler(r)
          BY <3>1 DEF Handler, TakeAudio, NewEvent, PrewarmLoop, TakeGpu, RefuseGpu, GiveGpu,
             LeaveAudio,
             Goes, HearSteps, WatchSteps
    <3>2. CASE Synthesize(r)
          BY <3>2 DEF Synthesize, SynthBegins, LockWorker, EnsureWorker, ReadVoice, SendSpeak,
             LookForCancel,
             ReceiveMessage, NoMessage, ConsumeChunk, SpeakTooLong, DrainMessage, DrainEnds,
             NothingToAbandon, UnlockWorker, AfterCancel, Goes, Unlocks, HearSteps, WatchSteps
    <3>3. QED
          BY <1>6, <3>1, <3>2
  <2>3. QED
        BY <1>5, <2>1, <2>2
<1>7. CASE \/ (\E e \in Engines : SynthWorker(e)) /\ UNCHANGED <<recogVars, serverVars>>
           \/ SaveVoice \/ CancelReads \/ CancelSets \/ SetupBegins \/ CloseBegins
           \/ CloseSpeech \/ SpeechClosed \/ SpeechNotClosed \/ SetupEnds \/ UNCHANGED voiceVars
  <2>1. UNCHANGED recogVars /\ step' = step
        BY <1>7 DEF SaveVoice, SetVoice, CancelReads, CancelSets, SetupBegins, CloseBegins,
           CloseSpeech, SpeechClosed, SpeechNotClosed, SetupEnds, workerVars, voiceVars,
           SynthWorker, TakeSpeak, MakeChunk, EndSpeak, SynthDies, CollectWorkers, WorkersStopped,
           WorkersNotStopped, requestVars
  <2>2. QED
        BY <1>5, <2>1
<1>8. QED
      BY <1>1, <1>2, <1>3, <1>4, <1>6, <1>7 DEF VoiceNext, Work, Watch, Workers, Operation

-----------------------------------------------------------------------------
\* The theorems

LEMMA SetupInit == VoiceInit => SetupInv
BY DEF VoiceInit, SetupInv

LEMMA CloseInit == VoiceInit => CloseInv
BY DEF VoiceInit, CloseInv

LEMMA BusyInit == VoiceInit => BusyHasFrame
BY DEF VoiceInit, BusyHasFrame

\* All of it, for every run of the server.
LEMMA VoiceAlways == VoiceSpec => [](VoiceType /\ BusyHasFrame /\ VoiceInv)
<1>1. VoiceInit => VoiceType /\ BusyHasFrame /\ VoiceInv
      BY VoiceTypeInit, BusyInit, HolderInit, EventInit, PipeInit, FrameInit, SetupInit, CloseInit
         DEF VoiceInv
<1>2. VoiceType /\ BusyHasFrame /\ VoiceInv /\ [VoiceNext]_voiceVars
        => (VoiceType /\ BusyHasFrame /\ VoiceInv)'
      BY VoiceTypeNext, BusyNext, HolderNext, EventNext, PipeNext, FrameNext, SetupNext, CloseNext
         DEF VoiceInv
<1>3. QED
      BY <1>1, <1>2, PTL DEF VoiceSpec

\* The state of the two voice workers, of the requests' threads and of the server's
\* locks keeps its shape (server.py, synthesis.py, recognition.py).
THEOREM VoiceTyped == VoiceSpec => []VoiceType
BY VoiceAlways, PTL

\* Whoever is granted the GPU gets all of it: no voice worker generates or transcribes
\* for a request that is not at work with the GPU in its hands (_synthesize_locked and
\* its finally clauses, Recognition.transcribe), unless a worker survived SIGKILL or
\* answers a cancel that came too late.
THEOREM VoiceIsQuiet == VoiceSpec => []QuietVoice
<1>1. ASSUME VoiceType, VoiceInv
      PROVE  QuietVoice
  <2> USE <1>1 DEF VoiceInv, VoiceType
  <2>1. ASSUME NEW e \in Engines, proc[e] = "busy" \/ piped[e] # Nobody, ~lost
        PROVE  gpu \in Speaking /\ InFlight(gpu)
    <3>1. PICK r \in Requests : step[r] \in TalkSteps
          BY <2>1 DEF PipeInv, PipeOf
    <3>2. gpu = r /\ r \in Speaking /\ InFlight(r)
          BY <3>1 DEF HolderInv, GpuSteps, SpeakSteps, LockSteps, TalkSteps, InFlight
    <3>3. QED
          BY <3>2
  <2>2. ASSUME rproc = "busy", ~lost, ~raced
        PROVE  gpu \in Hearing /\ InFlight(gpu)
    <3>1. PICK r \in Requests : UsesRecog(r)
          BY <2>2 DEF FrameInv, Resting, RecogAlive
    <3>2. gpu = r /\ r \in Hearing /\ InFlight(r)
          BY <3>1 DEF HolderInv, GpuSteps, HearSteps, WatchSteps, UsesRecog, InFlight
    <3>3. QED
          BY <3>2
  <2>3. QED
        BY <2>1, <2>2 DEF QuietVoice
<1>2. QED
      BY <1>1, VoiceAlways, PTL

\* Setup replaces the models with no voice worker resident, unless one survived
\* SIGKILL (VoiceService.setup closes synthesis and recognition first).
THEOREM SetupIsAlone == VoiceSpec => []SetupAlone
<1>1. SetupInv => SetupAlone
      BY DEF SetupInv, SetupAlone
<1>2. QED
      BY <1>1, VoiceAlways, PTL DEF VoiceInv

\* A closed server leaves no read-aloud worker behind (server_close), unless a worker
\* survived SIGKILL or a sentence made its cancel event after server_close had set the
\* one before it: its handler thread is a daemon that nothing joins.
THEOREM ClosingIsFinal == VoiceSpec => []ClosedForGood
<1>1. CloseInv => ClosedForGood
      BY DEF CloseInv, ClosedForGood
<1>2. QED
      BY <1>1, VoiceAlways, PTL DEF VoiceInv

\* A request returns no transcript but that of its own recording (Recognition.request,
\* _read_response), unless the recognizer answers a cancel too late or survived SIGKILL.
THEOREM TranscriptsAreOwn == VoiceSpec => OwnTranscript
<1>1. ASSUME VoiceType, VoiceInv, [VoiceNext]_voiceVars, NEW r \in Hearing,
             result'[r] # result[r], result'[r] \in {"other", "empty"}
      PROVE  raced \/ lost
  <2> USE DEF VoiceType, RecogType
  <2>1. r \in Requests
        BY DEF Hearing
  <2>2. PICK q \in Requests : Transcribe(q)
        BY <1>1, HandlerTypes DEF VoiceNext, workerVars, recogVars, Work, Watch, WatchCancel,
           WatchWakes,
           WatchAsks, WatchAnswered, WatchKills, Workers, RecogWorker, LoadModel, TakeFrame, Answer,
           RecogDies, SaveVoice, CancelReads, CancelSets, SetupBegins, CloseBegins, Operation,
           CloseSpeech, SpeechClosed, SpeechNotClosed, ListenClosed, ListenNotClosed, SetupEnds,
           RecognizerStopped, RecognizerNotStopped, voiceVars
  <2>3. ReadAnswer(q) /\ q = r
        BY <1>1, <2>1, <2>2 DEF Transcribe, RecogBegins, EnsureRecognizer, AwaitBoot,
           SendTranscribe,
           SendEnds, ReadAnswer, AnswerLost, JoinWatcher, DropRecognizer, recogVars
  <2>4. step[r] = "await" /\ rout # <<>> /\ result'[r] = Heard(r, Head(rout))
        BY <1>1, <2>1, <2>3 DEF ReadAnswer, Goes
  <2>5. Head(rout) = rout[1]
        BY <1>1, <2>4, PlaceFacts
  <2>6. rout[1] \in {r} \X {"text", "input", "unavailable"} => Heard(r, rout[1]) \in {"own", "none"}
        BY DEF Heard
  <2>7. QED
        BY <1>1, <2>1, <2>4, <2>5, <2>6 DEF VoiceInv, FrameInv, FrameOf
<1>2. VoiceType /\ VoiceInv /\ [VoiceNext]_voiceVars
        => [\A r \in Hearing :
              result'[r] # result[r] /\ result'[r] \in {"other", "empty"} => raced \/ lost]_voiceVars
      BY <1>1
<1>3. QED
      BY <1>2, VoiceAlways, PTL DEF VoiceSpec, OwnTranscript
=============================================================================
