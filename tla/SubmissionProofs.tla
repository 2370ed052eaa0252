-------------------------- MODULE SubmissionProofs --------------------------
(***************************************************************************)
(* The submissions of the Vulkan backend keep their order, for any number  *)
(* of streams, buffers, ring slots and submissions; and freed memory is    *)
(* recycled only when the queue is done with it, provided no two open      *)
(* batches record the same buffer (~Shared).  One inductive invariant per  *)
(* concern (the timeline, the order, the ring, the events, the buffers,    *)
(* the byte count), each with one lemma per group of actions.              *)
(***************************************************************************)
EXTENDS Submission, FiniteSetTheorems, TLAPS

----------------------------------------------------------------------------
(* The inductive invariant.                                                *)

\* The completion timeline: what it has passed is cleaned up after, what it has
\* reached is over.
Timeline ==
  /\ \A v \in 1..counter : Ended(v)
  /\ \A v \in Values : v < counter => stage[v] \in {"clean", "refused"}

\* Nothing names a value that was not reserved yet.
Reserved == \A s \in Streams : last[s] <= Len(sub) /\ open[s].floor <= Len(sub)

TypeInv == TypeOK /\ Timeline /\ Reserved

Accepted(v) == stage[v] # "refused"
Started(v) == stage[v] \notin {"queued", "refused"}

\* A buffer of an open batch, or of a submission that is not over, bears a stamp
\* that keeps it out of everybody else's hands; no two batches share one.
BufferInv ==
  /\ \A s \in Streams : \A b \in open[s].bufs : stamp[b] = Pending /\ place[b] # "free"
  /\ \A v \in Values : stage[v] \notin {"clean", "refused"} =>
       \A b \in sub[v].bufs : stamp[b] >= v /\ place[b] # "free"
  /\ \A s, t \in Streams : s # t => open[s].bufs \cap open[t].bufs = {}

\* last_completion_ names the newest accepted submission until it has drained,
\* and what started had its timeline waits satisfied.
OrderInv ==
  /\ \A v \in Values : Accepted(v) => v <= last[sub[v].stream] \/ v <= drained
  /\ \A u, v \in Values : u < v /\ sub[u].stream = sub[v].stream /\ Accepted(u) =>
       u <= sub[v].after \/ Ended(u)
  /\ \A v \in Values : Started(v) => sub[v].after <= counter /\ sub[v].floor <= counter

\* The ring remembers the newest accepted submission of each slot.
RingInv ==
  \A v \in Values : Accepted(v) /\ sub[v].slot # 0 =>
    LET s == sub[v].stream
    IN  /\ v <= inFlight[s][sub[v].slot] \/ v <= drained
        /\ open[s].slot = sub[v].slot => v <= drained

\* An event's value is behind its producer's work: the submission that signals
\* it is the one that was marked, and a value that is reached was worked off.
Behind(p, k) == \A u \in 1..mark[p][k] : sub[u].stream = p => Ended(u)

MarkInv ==
  /\ mark \in [Streams -> Seq(Nat)]
  /\ \A p \in Streams :
       /\ Len(mark[p]) = asked[p]
       /\ \A k \in 1..asked[p] : mark[p][k] <= Len(sub)
       /\ \A j, k \in 1..asked[p] : j <= k => mark[p][j] <= mark[p][k]

EventInv ==
  /\ MarkInv
  /\ \A p \in Streams : sem[p] <= asked[p]
  /\ \A v \in Values : sub[v].signal # 0 =>
       /\ sub[v].signal <= asked[sub[v].stream]
       /\ mark[sub[v].stream][sub[v].signal] = v
  /\ \A p \in Streams : \A k \in 1..asked[p] : k <= sem[p] => Behind(p, k)
  /\ \A s \in Streams : \A e \in open[s].events : e[2] <= asked[e[1]]
  /\ \A v \in Values : \A e \in sub[v].events :
       e[2] <= asked[e[1]] /\ (Started(v) => Behind(e[1], e[2]))

\* What holds whatever the batches record.
OrderedInv == TypeInv /\ OrderInv /\ RingInv /\ EventInv /\ OwedIsExact

IInv == OrderedInv /\ BufferInv

----------------------------------------------------------------------------
(* Sequences.                                                              *)

\* What handing a batch to the queue does to the two sequences.
LEMMA HandedOver ==
  ASSUME TypeOK, Reserved, NEW s \in Streams, NEW k \in 0..MaxSignals, NEW r \in Stages,
         Len(sub) < MaxSubmits,
         sub' = Append(sub, Batch(s, k)), stage' = Append(stage, r)
  PROVE  /\ Batch(s, k) \in Submissions
         /\ sub' \in Seq(Submissions) /\ stage' \in Seq(Stages)
         /\ Len(sub) \in Nat
         /\ Len(sub') = Len(sub) + 1 /\ Len(stage') = Len(sub) + 1
         /\ Values = 1..Len(sub) /\ Values' = 1..(Len(sub) + 1)
         /\ sub'[Len(sub) + 1] = Batch(s, k) /\ stage'[Len(sub) + 1] = r
         /\ \A v \in 1..Len(sub) : sub'[v] = sub[v] /\ stage'[v] = stage[v]
<1>1. open[s] \in OpenBatches /\ last[s] \in 0..MaxSubmits
  BY DEF TypeOK
<1>2. Batch(s, k) \in Submissions
  BY <1>1 DEF Batch, Submissions, OpenBatches
<1>3. sub \in Seq(Submissions) /\ stage \in Seq(Stages) /\ Len(sub) = Len(stage)
  BY DEF TypeOK
<1> QED
  BY <1>2, <1>3 DEF Values

----------------------------------------------------------------------------
(* Types and the timeline.                                                 *)

\* The types, and the timeline, hold before the first operation.
LEMMA TypeInit == Init => TypeInv
<1> SUFFICES ASSUME Init PROVE TypeInv
  OBVIOUS
<1>1. EmptyBatch \in OpenBatches
  BY BoundsAssumption DEF EmptyBatch, OpenBatches
<1>2. sub = <<>> /\ stage = <<>> /\ Len(sub) = 0 /\ Values = {}
  BY DEF Init, Values
<1>3. TypeOK
  BY <1>1, <1>2, BoundsAssumption DEF Init, TypeOK, Pending
<1> QED
  BY <1>2, <1>3 DEF Init, TypeInv, Timeline, Reserved, EmptyBatch

\* A stream's submission, accepted or refused, keeps the types.
LEMMA TypeSubmit ==
  ASSUME TypeInv, NEW s \in Streams, NEW k \in 0..MaxSignals,
         Submit(s, k) \/ Refuse(s, k),
         asked' \in [Streams -> 0..MaxSignals], queued' \in [Streams -> BOOLEAN],
         UNCHANGED sem
  PROVE  TypeInv'
<1> USE BoundsAssumption DEF TypeInv
<1>a. PICK r \in Stages : /\ Len(sub) < MaxSubmits
                          /\ sub' = Append(sub, Batch(s, k))
                          /\ stage' = Append(stage, r)
  BY DEF Submit, Refuse, Stages
<1>b. /\ sub' \in Seq(Submissions) /\ stage' \in Seq(Stages)
      /\ Len(sub) \in Nat
      /\ Len(sub') = Len(sub) + 1 /\ Len(stage') = Len(sub) + 1
      /\ Values = 1..Len(sub) /\ Values' = 1..(Len(sub) + 1)
      /\ sub'[Len(sub) + 1] = Batch(s, k)
      /\ \A v \in 1..Len(sub) : sub'[v] = sub[v] /\ stage'[v] = stage[v]
  BY <1>a, HandedOver
<1>c. Len(sub) + 1 \in 1..MaxSubmits
  BY <1>a, <1>b
<1>d. EmptyBatch \in OpenBatches /\ EmptyBatch.floor = 0
  BY DEF EmptyBatch, OpenBatches
<1>n. Len(sub) \in Nat /\ Len(sub') = Len(sub) + 1 /\ Len(sub) + 1 \in 0..MaxSubmits
  BY <1>b, <1>c
<1>1. open' \in [Streams -> OpenBatches] /\ \A t \in Streams : open'[t].floor <= Len(sub')
  <2>1. open' = [open EXCEPT ![s] = EmptyBatch]
    BY DEF Submit, Refuse
  <2>2. open \in [Streams -> OpenBatches] /\ \A t \in Streams : open[t].floor <= Len(sub)
    BY DEF TypeOK, Reserved
  <2>3. \A t \in Streams : open[t].floor \in Nat
    BY <2>2 DEF OpenBatches
  <2>4. \A t \in Streams : open'[t] = IF t = s THEN EmptyBatch ELSE open[t]
    BY <2>1, <2>2
  <2>5. open' \in [Streams -> OpenBatches]
    BY <2>1, <2>2, <1>d
  <2>6. \A t \in Streams : open'[t].floor <= Len(sub')
    <3> SUFFICES ASSUME NEW t \in Streams PROVE open'[t].floor <= Len(sub')
      OBVIOUS
    <3>1. open[t].floor \in Nat /\ open[t].floor <= Len(sub)
      BY <2>2, <2>3
    <3> QED  BY <3>1, <2>4, <1>n, <1>d
  <2> QED  BY <2>5, <2>6
<1>2. last' \in [Streams -> 0..MaxSubmits] /\ \A t \in Streams : last'[t] <= Len(sub')
  <2>1. last \in [Streams -> 0..MaxSubmits] /\ \A t \in Streams : last[t] <= Len(sub)
    BY DEF TypeOK, Reserved
  <2>2. last' = last \/ last' = [last EXCEPT ![s] = Len(sub) + 1]
    BY DEF Submit, Refuse
  <2>3. CASE last' = last
    BY <2>1, <2>3, <1>n
  <2>4. CASE last' = [last EXCEPT ![s] = Len(sub) + 1]
    BY <2>1, <2>4, <1>n
  <2> QED  BY <2>2, <2>3, <2>4
<1>3. inFlight' \in [Streams -> [1..Ring -> 0..MaxSubmits]]
  <2>1. inFlight \in [Streams -> [1..Ring -> 0..MaxSubmits]]
    BY DEF TypeOK
  <2>2. inFlight' = inFlight \/ inFlight' = [inFlight EXCEPT ![s][open[s].slot] = Len(sub) + 1]
    BY DEF Submit, Refuse
  <2>3. CASE inFlight' = inFlight
    BY <2>1, <2>3
  <2>4. CASE inFlight' = [inFlight EXCEPT ![s][open[s].slot] = Len(sub) + 1]
    <3>1. inFlight' = [inFlight EXCEPT ![s] = [inFlight[s] EXCEPT ![open[s].slot] = Len(sub) + 1]]
      BY <2>4
    <3>2. [inFlight[s] EXCEPT ![open[s].slot] = Len(sub) + 1] \in [1..Ring -> 0..MaxSubmits]
      BY <2>1, <1>n
    <3> QED  BY <2>1, <3>1, <3>2
  <2> QED  BY <2>2, <2>3, <2>4
<1>4. \A v \in Values' : sub'[v].after < v /\ sub'[v].floor < v
  <2> SUFFICES ASSUME NEW v \in Values' PROVE sub'[v].after < v /\ sub'[v].floor < v
    OBVIOUS
  <2>1. CASE v \in Values
    BY <2>1, <1>b DEF TypeOK
  <2>2. CASE v = Len(sub) + 1
    <3>1. last[s] <= Len(sub) /\ open[s].floor <= Len(sub)
      BY DEF Reserved
    <3>2. last[s] \in Nat /\ open[s].floor \in Nat
      BY DEF TypeOK, OpenBatches
    <3> QED  BY <2>2, <3>1, <3>2, <1>b DEF Batch
  <2> QED  BY <2>1, <2>2, <1>b
<1>5. stamp' \in [Buffers -> 0..Pending]
  <2>1. stamp \in [Buffers -> 0..Pending]
    BY DEF TypeOK
  <2>2. stamp' = [b \in Buffers |-> IF b \in open[s].bufs THEN Len(sub) + 1 ELSE stamp[b]]
    BY DEF Submit, Refuse, StampBatch
  <2>3. Len(sub) + 1 \in 0..Pending
    BY <1>n DEF Pending
  <2> QED  BY <2>1, <2>2, <2>3
<1>u. UNCHANGED <<place, handled, drained, counter>>
  BY DEF Submit, Refuse, StampBatch, drainVars
<1>6. TypeOK'
  <2>1. /\ sub' \in Seq(Submissions) /\ stage' \in Seq(Stages)
        /\ Len(sub') = Len(stage') /\ Len(sub') <= MaxSubmits
    BY <1>b, <1>n
  <2>2. /\ handled \in Nat /\ drained \in Nat /\ counter \in Nat
        /\ drained <= handled /\ handled <= counter /\ counter <= Len(sub')
    BY <1>n DEF TypeOK
  <2>3. place \in [Buffers -> {"free", "held", "quarantine"}] /\ sem \in [Streams -> 0..MaxSignals]
    BY DEF TypeOK
  <2> QED
    BY <1>1, <1>2, <1>3, <1>4, <1>5, <1>u, <2>1, <2>2, <2>3 DEF TypeOK
<1>7. Timeline'
  <2>1. counter \in Nat /\ counter <= Len(sub)
    BY DEF TypeOK
  <2>2. \A v \in 1..Len(sub) : Ended(v)' <=> Ended(v)
    BY <1>b DEF Ended
  <2>3. \A v \in 1..counter : v \in 1..Len(sub)
    BY <2>1, <1>n
  <2>4. \A v \in 1..counter : Ended(v)'
    BY <2>2, <2>3 DEF Timeline
  <2>5. \A v \in Values' : v < counter => v \in Values /\ stage'[v] = stage[v]
    BY <2>1, <1>b, <1>n
  <2> QED  BY <1>u, <2>4, <2>5 DEF Timeline
<1> QED
  BY <1>1, <1>2, <1>6, <1>7 DEF Reserved

\* What recording an operation does to the open batches and to the ring.
LEMMA Recording ==
  ASSUME TypeOK, NEW s \in Streams, NEW b \in Buffers, Record(s, b)
  PROVE  /\ open' \in [Streams -> OpenBatches]
         /\ \A t \in Streams \ {s} : open'[t] = open[t]
         /\ open'[s].bufs = open[s].bufs \union {b}
         /\ open'[s].events = open[s].events /\ open'[s].floor = open[s].floor
         /\ \/ open[s].slot # 0 /\ open'[s].slot = open[s].slot /\ inFlight' = inFlight
            \/ /\ open[s].slot = 0 /\ open'[s].slot \in 1..Ring
               /\ SlotFree(s, open'[s].slot)
               /\ inFlight' = [inFlight EXCEPT ![s][open'[s].slot] = 0]
<1>0. open \in [Streams -> OpenBatches] /\ open[s] \in OpenBatches
  BY DEF TypeOK
<1>1. PICK i \in 0..Ring :
        /\ open' = [open EXCEPT ![s] = Recorded(open[s], i, b)]
        /\ \/ open[s].slot # 0 /\ i = open[s].slot /\ inFlight' = inFlight
           \/ /\ open[s].slot = 0 /\ i \in 1..Ring /\ SlotFree(s, i)
              /\ inFlight' = [inFlight EXCEPT ![s][i] = 0]
  <2>1. open[s].slot \in 0..Ring /\ 1..Ring \subseteq 0..Ring
    BY <1>0, BoundsAssumption DEF OpenBatches
  <2> QED  BY <2>1 DEF Record
<1>2. Recorded(open[s], i, b) \in OpenBatches
  BY <1>0 DEF Recorded, OpenBatches
<1>3. open' \in [Streams -> OpenBatches] /\ \A t \in Streams \ {s} : open'[t] = open[t]
  BY <1>0, <1>1, <1>2
<1>4. open'[s] = Recorded(open[s], i, b)
  BY <1>0, <1>1
<1>5. /\ open'[s].slot = i /\ open'[s].bufs = open[s].bufs \union {b}
      /\ open'[s].events = open[s].events /\ open'[s].floor = open[s].floor
  BY <1>4 DEF Recorded
<1> QED  BY <1>1, <1>3, <1>5

\* What a wait for an event does to the open batches.
LEMMA Waiting ==
  ASSUME TypeOK, NEW s \in Streams, NEW p \in Streams, WaitEvent(s, p)
  PROVE  /\ open' \in [Streams -> OpenBatches]
         /\ \A t \in Streams \ {s} : open'[t] = open[t]
         /\ open'[s].events = open[s].events \union {<<p, asked[p]>>}
         /\ open'[s].slot = open[s].slot /\ open'[s].bufs = open[s].bufs
         /\ open'[s].floor = open[s].floor
<1> DEFINE q == open'[s]
<1>0. open \in [Streams -> OpenBatches] /\ open[s] \in OpenBatches
  BY DEF TypeOK
<1>1. <<p, asked[p]>> \in Streams \X (1..MaxSignals)
  BY BoundsAssumption DEF WaitEvent, TypeOK
<1>2. open' = [open EXCEPT ![s] = [open[s] EXCEPT !.events = @ \union {<<p, asked[p]>>}]]
  BY DEF WaitEvent
<1>3. q = [open[s] EXCEPT !.events = @ \union {<<p, asked[p]>>}]
  BY <1>0, <1>2
<1>4. /\ q \in OpenBatches /\ q.slot = open[s].slot /\ q.bufs = open[s].bufs
      /\ q.events = open[s].events \union {<<p, asked[p]>>} /\ q.floor = open[s].floor
  BY <1>0, <1>1, <1>3 DEF OpenBatches
<1>5. open' \in [Streams -> OpenBatches] /\ \A t \in Streams \ {s} : open'[t] = open[t]
  BY <1>0, <1>2, <1>3, <1>4
<1> QED  BY <1>4, <1>5

\* What a wait for everything does to the open batches.
LEMMA WaitingAll ==
  ASSUME TypeOK, NEW s \in Streams, WaitOutstanding(s)
  PROVE  /\ open' \in [Streams -> OpenBatches]
         /\ \A t \in Streams \ {s} : open'[t] = open[t]
         /\ open'[s].floor = Len(sub)
         /\ open'[s].slot = open[s].slot /\ open'[s].bufs = open[s].bufs
         /\ open'[s].events = open[s].events
<1> DEFINE q == open'[s]
<1>0. open \in [Streams -> OpenBatches] /\ open[s] \in OpenBatches /\ Len(sub) \in 0..MaxSubmits
  BY BoundsAssumption DEF TypeOK
<1>1. open' = [open EXCEPT ![s] = [open[s] EXCEPT !.floor = Len(sub)]]
  BY DEF WaitOutstanding
<1>2. q = [open[s] EXCEPT !.floor = Len(sub)]
  BY <1>0, <1>1
<1>3. /\ q \in OpenBatches /\ q.slot = open[s].slot /\ q.bufs = open[s].bufs
      /\ q.events = open[s].events /\ q.floor = Len(sub)
  BY <1>0, <1>2 DEF OpenBatches
<1>4. open' \in [Streams -> OpenBatches] /\ \A t \in Streams \ {s} : open'[t] = open[t]
  BY <1>0, <1>1, <1>2, <1>3
<1> QED  BY <1>3, <1>4

\* What a stream does beside submitting keeps the types.
LEMMA TypeEncoder ==
  ASSUME TypeInv, NEW s \in Streams,
         \/ \E b \in Buffers : Record(s, b)
         \/ \E p \in Streams : WaitEvent(s, p)
         \/ WaitOutstanding(s) \/ SignalFromHost(s) \/ Join(s)
  PROVE  TypeInv'
<1> USE BoundsAssumption DEF TypeInv
<1>1. ASSUME NEW b \in Buffers, Record(s, b) PROVE TypeInv'
  <2>1. /\ open' \in [Streams -> OpenBatches]
        /\ \A t \in Streams : open'[t].floor = open[t].floor
    BY <1>1, Recording
  <2>2. inFlight' \in [Streams -> [1..Ring -> 0..MaxSubmits]]
    <3>1. inFlight \in [Streams -> [1..Ring -> 0..MaxSubmits]]
      BY DEF TypeOK
    <3>2. CASE inFlight' = inFlight
      BY <3>1, <3>2
    <3>3. ASSUME NEW i \in 1..Ring, inFlight' = [inFlight EXCEPT ![s][i] = 0]
          PROVE  inFlight' \in [Streams -> [1..Ring -> 0..MaxSubmits]]
      <4>1. [inFlight[s] EXCEPT ![i] = 0] \in [1..Ring -> 0..MaxSubmits]
        BY <3>1
      <4> QED  BY <3>1, <3>3, <4>1
    <3> QED  BY <1>1, <3>2, <3>3, Recording
  <2>3. stamp' \in [Buffers -> 0..Pending]
    <3>1. stamp \in [Buffers -> 0..Pending] /\ Pending \in 0..Pending
      BY DEF TypeOK, Pending
    <3>2. stamp' = [stamp EXCEPT ![b] = Pending]
      BY <1>1 DEF Record
    <3> QED  BY <3>1, <3>2
  <2>4. UNCHANGED <<last, queueVars, drainVars, place, eventVars>>
    BY <1>1 DEF Record
  <2> QED
    BY <2>1, <2>2, <2>3, <2>4 DEF TypeOK, Timeline, Reserved, Ended, Values,
         queueVars, drainVars, eventVars
<1>2. ASSUME NEW p \in Streams, WaitEvent(s, p) PROVE TypeInv'
  <2>1. /\ open' \in [Streams -> OpenBatches]
        /\ \A t \in Streams : open'[t].floor = open[t].floor
    BY <1>2, Waiting
  <2>2. UNCHANGED <<last, inFlight, queueVars, drainVars, bufferVars, eventVars>>
    BY <1>2 DEF WaitEvent
  <2> QED
    BY <2>1, <2>2 DEF TypeOK, Timeline, Reserved, Ended, Values,
         queueVars, drainVars, bufferVars, eventVars
<1>3. CASE WaitOutstanding(s)
  <2>1. /\ open' \in [Streams -> OpenBatches]
        /\ \A t \in Streams : open'[t].floor <= Len(sub)
    <3>1. /\ open' \in [Streams -> OpenBatches] /\ open'[s].floor = Len(sub)
          /\ \A t \in Streams \ {s} : open'[t] = open[t]
      BY <1>3, WaitingAll
    <3>2. Len(sub) \in Nat /\ \A t \in Streams : open[t].floor <= Len(sub)
      BY DEF Reserved, TypeOK
    <3> QED  BY <3>1, <3>2
  <2>2. UNCHANGED <<last, inFlight, queueVars, drainVars, bufferVars, eventVars>>
    BY <1>3 DEF WaitOutstanding
  <2> QED
    BY <2>1, <2>2 DEF TypeOK, Timeline, Reserved, Ended, Values,
         queueVars, drainVars, bufferVars, eventVars
<1>4. CASE SignalFromHost(s)
  <2>1. asked' \in [Streams -> 0..MaxSignals] /\ sem' \in [Streams -> 0..MaxSignals]
    BY <1>4 DEF SignalFromHost, Ask, TypeOK
  <2> QED
    BY <1>4, <2>1 DEF SignalFromHost, TypeOK, Timeline, Reserved, Ended, Values,
         batchVars, queueVars, drainVars, bufferVars
<1>5. CASE Join(s)
  <2>1. last' \in [Streams -> 0..MaxSubmits] /\ \A t \in Streams : last'[t] <= Len(sub)
    BY <1>5 DEF Join, TypeOK, Reserved
  <2> QED
    BY <1>5, <2>1 DEF Join, TypeOK, Timeline, Reserved, Ended, Values,
         queueVars, drainVars, bufferVars, eventVars
<1> QED
  BY <1>1, <1>2, <1>3, <1>4, <1>5

\* A step of the queue keeps the types and the timeline.
LEMMA TypeGPU ==
  ASSUME TypeInv, NEW v \in Values, GPU(v)
  PROVE  TypeInv'
<1> USE BoundsAssumption DEF TypeInv
<1>0. /\ v \in 1..Len(sub) /\ Values = 1..Len(stage) /\ Len(stage) \in Nat
      /\ stage \in Seq(Stages) /\ sub[v] \in Submissions
  BY DEF TypeOK, Values
<1>1. \A r \in Stages : stage' = [stage EXCEPT ![v] = r] =>
        stage' \in Seq(Stages) /\ Len(stage') = Len(stage) /\ stage'[v] = r
          /\ \A u \in Values \ {v} : stage'[u] = stage[u]
  BY <1>0
<1>2. CASE Start(v)
  <2>1. /\ stage' \in Seq(Stages) /\ Len(stage') = Len(stage)
        /\ \A u \in Values \ {v} : stage'[u] = stage[u]
    BY <1>1, <1>2 DEF Start, Stages
  <2>2. ~(v <= counter)
    BY <1>0, <1>2 DEF Start, Timeline, Ended
  <2> QED
    BY <1>0, <1>2, <2>1, <2>2 DEF Start, TypeOK, Timeline, Reserved, Ended, Values,
         batchVars, drainVars, bufferVars, eventVars
<1>3. CASE Signal(v)
  <2>1. /\ stage' \in Seq(Stages) /\ Len(stage') = Len(stage) /\ stage'[v] = "signaled"
        /\ \A u \in Values \ {v} : stage'[u] = stage[u]
    BY <1>1, <1>3 DEF Signal, Stages
  <2>2. counter < v /\ counter' = v
    <3>1. counter \in Nat /\ v \in Nat /\ (v <= counter => v \in 1..counter)
      BY <1>0 DEF TypeOK
    <3>2. v \notin 1..counter
      BY <1>3 DEF Signal, Timeline, Ended
    <3> QED  BY <1>3, <3>1, <3>2 DEF Signal
  <2>3. sem' \in [Streams -> 0..MaxSignals]
    BY <1>0, <1>3 DEF Signal, TypeOK, Submissions
  <2>4. Timeline'
    BY <1>0, <1>3, <2>1, <2>2 DEF Signal, Timeline, Ended, Values
  <2> QED
    <3>1. UNCHANGED <<open, last, inFlight, sub, handled, drained, place, stamp, asked, queued>>
      BY <1>3 DEF Signal, batchVars, drainVars, bufferVars
    <3>2. /\ drained \in Nat /\ handled \in Nat /\ counter' \in Nat
          /\ drained <= handled /\ handled <= counter' /\ counter' <= Len(sub)
      BY <1>0, <2>2 DEF TypeOK
    <3>3. TypeOK'
      BY <2>1, <2>3, <3>1, <3>2 DEF TypeOK, Values
    <3> QED  BY <2>4, <3>1, <3>3 DEF Reserved
<1>4. CASE Clean(v)
  <2>1. /\ stage' \in Seq(Stages) /\ Len(stage') = Len(stage) /\ stage'[v] = "clean"
        /\ \A u \in Values \ {v} : stage'[u] = stage[u]
    BY <1>1, <1>4 DEF Clean, Stages
  <2> QED
    BY <1>0, <1>4, <2>1, SMTT(30) DEF Clean, TypeOK, Timeline, Reserved, Ended, Values,
         batchVars, drainVars, bufferVars, eventVars
<1> QED  BY <1>2, <1>3, <1>4 DEF GPU

\* The dispatcher and the allocator keep the types.
LEMMA TypeHost ==
  ASSUME TypeInv, Dispatcher \/ \E b \in Buffers : Malloc(b) \/ Free(b)
  PROVE  TypeInv'
<1> USE BoundsAssumption DEF TypeInv
<1>1. CASE Drain
  <2>1. PICK v \in handled + 1 .. counter :
          /\ handled' = v
          /\ place' = [b \in Buffers |->
                         IF b \in Releasable(v - 1) THEN "free" ELSE place[b]]
          /\ stamp' = [b \in Buffers |-> IF b \in Releasable(v - 1) THEN 0 ELSE stamp[b]]
    BY <1>1 DEF Drain
  <2>2. /\ place' \in [Buffers -> {"free", "held", "quarantine"}]
        /\ stamp' \in [Buffers -> 0..Pending]
    BY <2>1 DEF TypeOK, Pending
  <2> QED
    BY <1>1, <2>1, <2>2, SMTT(30) DEF Drain, TypeOK, Timeline, Reserved, Ended, Values,
         batchVars, queueVars, eventVars
<1>2. CASE Publish
  BY <1>2, SMTT(30) DEF Publish, TypeOK, Timeline, Reserved, Ended, Values,
       batchVars, queueVars, bufferVars, eventVars
<1>3. ASSUME NEW b \in Buffers, Malloc(b) PROVE TypeInv'
  BY <1>3 DEF Malloc, TypeOK, Timeline, Reserved, Ended, Values,
       batchVars, queueVars, drainVars, eventVars
<1>4. ASSUME NEW b \in Buffers, Free(b) PROVE TypeInv'
  <2>1. /\ place' \in [Buffers -> {"free", "held", "quarantine"}]
        /\ stamp' \in [Buffers -> 0..Pending]
    <3>1. /\ place \in [Buffers -> {"free", "held", "quarantine"}]
          /\ stamp \in [Buffers -> 0..Pending] /\ 0 \in 0..Pending
      BY DEF TypeOK, Pending
    <3>2. /\ place' \in {[place EXCEPT ![b] = "quarantine"], [place EXCEPT ![b] = "free"]}
          /\ stamp' \in {stamp, [stamp EXCEPT ![b] = 0]}
      BY <1>4 DEF Free
    <3> QED  BY <3>1, <3>2
  <2> QED
    BY <1>4, <2>1 DEF Free, TypeOK, Timeline, Reserved, Ended, Values,
         batchVars, queueVars, drainVars, eventVars
<1> QED  BY <1>1, <1>2, <1>3, <1>4 DEF Dispatcher

\* Both ways in which a stream hands its batch to the queue.
Hands(s, k) ==
  /\ Submit(s, k) \/ Refuse(s, k)
  /\ UNCHANGED sem
  /\ IF k = 0 THEN UNCHANGED <<asked, queued, mark>>
     ELSE /\ k = asked[s] + 1 /\ Ask(s, Len(sub) + 1)
          /\ queued' = [queued EXCEPT ![s] = TRUE]

\* Commit and SignalQueued, and nothing else, hand over a batch.
LEMMA HandingSteps ==
  ASSUME TypeInv, NEW s \in Streams, Commit(s) \/ SignalQueued(s)
  PROVE  \E k \in 0..MaxSignals : Hands(s, k)
<1>1. CASE Commit(s)
  <2>1. Hands(s, 0)
    BY <1>1 DEF Commit, Hands, eventVars
  <2> QED  BY <2>1, BoundsAssumption
<1>2. CASE SignalQueued(s)
  <2>1. asked[s] \in 0..MaxSignals /\ asked[s] < MaxSignals
    BY <1>2 DEF SignalQueued, Ask, TypeInv, TypeOK
  <2>2. asked[s] + 1 \in 0..MaxSignals /\ asked[s] + 1 # 0
    BY <2>1, BoundsAssumption
  <2>3. Hands(s, asked[s] + 1)
    BY <1>2, <2>2 DEF SignalQueued, Hands
  <2> QED  BY <2>2, <2>3
<1> QED  BY <1>1, <1>2

\* What handing a batch over does, seen from the values.
LEMMA Handing ==
  ASSUME TypeInv, NEW s \in Streams, NEW k \in 0..MaxSignals, Hands(s, k)
  PROVE  /\ Len(sub) + 1 \in 1..MaxSubmits /\ Len(sub) \in Nat
         /\ Values = 1..Len(sub) /\ Values' = Values \union {Len(sub) + 1}
         /\ Len(sub') = Len(sub) + 1 /\ Len(sub) + 1 \notin Values
         /\ \A v \in Values : v \in Nat /\ v < Len(sub) + 1
         /\ \A v \in Values : sub'[v] = sub[v] /\ stage'[v] = stage[v]
         /\ sub'[Len(sub) + 1] = Batch(s, k)
         /\ open' = [open EXCEPT ![s] = EmptyBatch]
         /\ stamp' = [b \in Buffers |-> IF b \in open[s].bufs THEN Len(sub) + 1 ELSE stamp[b]]
         /\ UNCHANGED <<counter, handled, drained, place>>
         /\ \/ /\ stage'[Len(sub) + 1] = "queued"
               /\ last' = [last EXCEPT ![s] = Len(sub) + 1]
               /\ inFlight' = IF open[s].slot = 0 THEN inFlight
                              ELSE [inFlight EXCEPT ![s][open[s].slot] = Len(sub) + 1]
            \/ stage'[Len(sub) + 1] = "refused" /\ UNCHANGED <<last, inFlight>>
<1>1. PICK r \in {"queued", "refused"} :
        /\ Len(sub) < MaxSubmits
        /\ sub' = Append(sub, Batch(s, k)) /\ stage' = Append(stage, r)
        /\ r = "queued" =>
             /\ last' = [last EXCEPT ![s] = Len(sub) + 1]
             /\ inFlight' = IF open[s].slot = 0 THEN inFlight
                            ELSE [inFlight EXCEPT ![s][open[s].slot] = Len(sub) + 1]
        /\ r = "refused" => UNCHANGED <<last, inFlight>>
  <2>1. CASE Submit(s, k)
    BY <2>1 DEF Submit
  <2>2. CASE Refuse(s, k)
    BY <2>2 DEF Refuse
  <2> QED  BY <2>1, <2>2 DEF Hands
<1>2. /\ Len(sub) \in Nat /\ Len(sub') = Len(sub) + 1
      /\ Values = 1..Len(sub) /\ Values' = 1..(Len(sub) + 1)
      /\ sub'[Len(sub) + 1] = Batch(s, k) /\ stage'[Len(sub) + 1] = r
      /\ \A v \in 1..Len(sub) : sub'[v] = sub[v] /\ stage'[v] = stage[v]
  BY <1>1, HandedOver DEF TypeInv, Stages
<1>3. /\ open' = [open EXCEPT ![s] = EmptyBatch]
      /\ stamp' = [b \in Buffers |-> IF b \in open[s].bufs THEN Len(sub) + 1 ELSE stamp[b]]
      /\ UNCHANGED <<counter, handled, drained, place>>
  BY DEF Hands, Submit, Refuse, StampBatch, drainVars
<1>4. Len(sub) + 1 \in 1..MaxSubmits
  BY <1>1, <1>2, BoundsAssumption
<1>5. /\ Values' = Values \union {Len(sub) + 1} /\ Len(sub) + 1 \notin Values
      /\ \A v \in Values : v \in Nat /\ v < Len(sub) + 1
  BY <1>2
<1>6. CASE r = "queued"
  <2>1. stage'[Len(sub) + 1] = "queued"
    BY <1>2, <1>6
  <2> QED  BY <1>1, <1>2, <1>3, <1>4, <1>5, <1>6, <2>1
<1>7. CASE r = "refused"
  <2>1. stage'[Len(sub) + 1] = "refused"
    BY <1>2, <1>7
  <2> QED  BY <1>1, <1>2, <1>3, <1>4, <1>5, <1>7, <2>1
<1> QED  BY <1>6, <1>7

\* A step of the queue moves one submission forward.
LEMMA Advancing ==
  ASSUME TypeInv, NEW v \in Values, GPU(v)
  PROVE  /\ UNCHANGED <<sub, open, last, inFlight, handled, drained, place, stamp, owed>>
         /\ UNCHANGED <<asked, queued, mark>>
         /\ counter \in Nat /\ counter' \in Nat /\ counter <= counter'
         /\ \A u \in Values :
              /\ Accepted(u)' <=> Accepted(u)
              /\ Ended(u) => Ended(u)'
              /\ stage'[u] \notin {"clean", "refused"} => stage[u] \notin {"clean", "refused"}
              /\ Started(u)' /\ ~Started(u) => u = v /\ Start(v)
<1>0. v \in DOMAIN stage
  BY DEF TypeInv, TypeOK, Values
<1>1. CASE Start(v)
  <2>1. UNCHANGED <<sub, open, last, inFlight, handled, drained, place, stamp, owed, asked, queued, mark, counter>>
    BY <1>1 DEF Start, batchVars, drainVars, bufferVars, eventVars
  <2>2. stage' = [stage EXCEPT ![v] = "running"] /\ stage[v] = "queued"
    BY <1>1 DEF Start
  <2>3. \A u \in Values : stage'[u] = IF u = v THEN "running" ELSE stage[u]
    BY <1>0, <2>2 DEF TypeInv, TypeOK, Values
  <2>4. counter \in Nat
    BY DEF TypeInv, TypeOK
  <2> QED  BY <1>1, <2>1, <2>2, <2>3, <2>4 DEF Accepted, Ended, Started
<1>2. CASE Signal(v)
  <2>1. UNCHANGED <<sub, open, last, inFlight, handled, drained, place, stamp, owed, asked, queued, mark>>
    BY <1>2 DEF Signal, batchVars, drainVars, bufferVars
  <2>2. stage' = [stage EXCEPT ![v] = "signaled"] /\ stage[v] = "running"
    BY <1>2 DEF Signal
  <2>3. \A u \in Values : stage'[u] = IF u = v THEN "signaled" ELSE stage[u]
    BY <1>0, <2>2 DEF TypeInv, TypeOK, Values
  <2>4. counter \in Nat /\ v \in Nat /\ (v <= counter => v \in 1..counter)
    BY DEF TypeInv, TypeOK, Values
  <2>5. v \notin 1..counter
    BY <2>2 DEF TypeInv, Timeline, Ended
  <2>6. counter' = v
    BY <1>2 DEF Signal
  <2>7. counter' \in Nat /\ counter <= counter'
    BY <2>4, <2>5, <2>6
  <2> QED  BY <2>1, <2>2, <2>3, <2>4, <2>7 DEF Accepted, Ended, Started
<1>3. CASE Clean(v)
  <2>1. UNCHANGED <<sub, open, last, inFlight, handled, drained, place, stamp, owed, asked, queued, mark, counter>>
    BY <1>3 DEF Clean, batchVars, drainVars, bufferVars, eventVars
  <2>2. stage' = [stage EXCEPT ![v] = "clean"] /\ stage[v] = "signaled"
    BY <1>3 DEF Clean
  <2>3. \A u \in Values : stage'[u] = IF u = v THEN "clean" ELSE stage[u]
    BY <1>0, <2>2 DEF TypeInv, TypeOK, Values
  <2>4. counter \in Nat
    BY DEF TypeInv, TypeOK
  <2> QED  BY <2>1, <2>2, <2>3, <2>4 DEF Accepted, Ended, Started
<1> QED  BY <1>1, <1>2, <1>3 DEF GPU

----------------------------------------------------------------------------
(* Streams run in order; the ring waits.                                   *)

\* The parts of a submission and of an open batch.
LEMMA Parts ==
  ASSUME TypeInv
  PROVE  /\ \A v \in Values : /\ v \in Nat /\ v >= 1
                             /\ sub[v].stream \in Streams /\ sub[v].slot \in 0..Ring
                             /\ sub[v].bufs \subseteq Buffers
                             /\ sub[v].events \subseteq Streams \X (1..MaxSignals)
                             /\ sub[v].floor \in Nat /\ sub[v].after \in Nat
                             /\ sub[v].signal \in Nat
         /\ \A s \in Streams : /\ open[s].slot \in 0..Ring /\ open[s].bufs \subseteq Buffers
                              /\ open[s].events \subseteq Streams \X (1..MaxSignals)
<1>1. sub \in Seq(Submissions) /\ open \in [Streams -> OpenBatches]
  BY DEF TypeInv, TypeOK
<1>2. \A v \in Values : v \in Nat /\ v >= 1 /\ sub[v] \in Submissions
  BY <1>1 DEF Values
<1>3. \A s \in Streams : open[s] \in OpenBatches
  BY <1>1
<1>4. \A x \in Submissions :
        /\ x.stream \in Streams /\ x.slot \in 0..Ring /\ x.bufs \subseteq Buffers
        /\ x.events \subseteq Streams \X (1..MaxSignals)
        /\ x.floor \in 0..MaxSubmits /\ x.after \in 0..MaxSubmits
        /\ x.signal \in 0..MaxSignals
  BY DEF Submissions
<1>5. \A x \in OpenBatches :
        /\ x.slot \in 0..Ring /\ x.bufs \subseteq Buffers
        /\ x.events \subseteq Streams \X (1..MaxSignals)
  BY DEF OpenBatches
<1>6. 0..MaxSubmits \subseteq Nat /\ 0..MaxSignals \subseteq Nat
  BY BoundsAssumption
<1> QED  BY <1>2, <1>3, <1>4, <1>5, <1>6

\* What is drained is over.
LEMMA DrainedIsOver ==
  ASSUME TypeInv, NEW v \in Values, v <= drained
  PROVE  v <= counter /\ Ended(v)
<1>1. /\ v \in Nat /\ v >= 1 /\ counter \in Nat /\ drained \in Nat /\ handled \in Nat
      /\ drained <= handled /\ handled <= counter
  BY DEF TypeInv, TypeOK, Values
<1>2. v \in 1..counter
  BY <1>1
<1> QED  BY <1>1, <1>2 DEF TypeInv, Timeline

\* Steps that touch neither the submissions nor what a stream remembers of them.
LEMMA OrderQuiet ==
  ASSUME TypeInv, OrderInv, UNCHANGED <<last, sub, stage, counter>>,
         drained' \in Nat, drained <= drained'
  PROVE  OrderInv'
<1>1. \A v \in Values : v \in Nat
  BY DEF TypeInv, TypeOK, Values
<1>2. drained \in Nat
  BY DEF TypeInv, TypeOK
<1> QED  BY <1>1, <1>2 DEF OrderInv, Accepted, Started, Ended, Values

\* Handing a batch over keeps the order: it waits for the stream's newest.
LEMMA OrderHands ==
  ASSUME TypeInv, OrderInv, NEW s \in Streams, NEW k \in 0..MaxSignals, Hands(s, k)
  PROVE  OrderInv'
<1> DEFINE n == Len(sub) + 1
<1>0. /\ Values' = Values \union {n} /\ n \notin Values /\ n \in Nat
      /\ \A v \in Values : v \in Nat /\ v < n
      /\ \A v \in Values : sub'[v] = sub[v] /\ stage'[v] = stage[v]
      /\ sub'[n] = Batch(s, k) /\ UNCHANGED <<counter, drained>>
      /\ \/ stage'[n] = "queued" /\ last' = [last EXCEPT ![s] = n]
         \/ stage'[n] = "refused" /\ UNCHANGED last
  BY Handing
<1>1. /\ last \in [Streams -> 0..MaxSubmits] /\ \A v \in Values : sub[v].stream \in Streams
      /\ drained \in Nat
  BY Parts DEF TypeInv, TypeOK
<1>2. sub'[n].stream = s /\ sub'[n].after = last[s]
  BY <1>0 DEF Batch
<1>3. last[s] \in Nat /\ last[s] < n
  BY <1>1, BoundsAssumption DEF TypeInv, TypeOK, Reserved
<1> HIDE DEF n
<1>4. ASSUME NEW v \in Values', Accepted(v)' PROVE v <= last'[sub'[v].stream] \/ v <= drained'
  <2>1. CASE v = n
    <3>1. last' = [last EXCEPT ![s] = n]
      BY <1>0, <1>4, <2>1 DEF Accepted
    <3>2. last'[s] = n
      BY <1>1, <3>1
    <3> QED  BY <1>0, <1>2, <2>1, <3>2
  <2>2. CASE v \in Values
    <3>1. v <= last[sub[v].stream] \/ v <= drained
      BY <1>0, <1>4, <2>2 DEF OrderInv, Accepted
    <3>2. CASE sub[v].stream = s
      <4>1. v < n /\ v \in Nat
        BY <1>0, <2>2
      <4>2. last'[s] = n \/ last'[s] = last[s]
        BY <1>0, <1>1
      <4> QED  BY <1>0, <2>2, <3>1, <3>2, <4>1, <4>2
    <3>3. CASE sub[v].stream # s
      <4>1. last'[sub[v].stream] = last[sub[v].stream]
        BY <1>0, <1>1, <2>2, <3>3
      <4> QED  BY <1>0, <2>2, <3>1, <4>1
    <3> QED  BY <3>2, <3>3
  <2> QED  BY <1>0, <2>1, <2>2
<1>5. ASSUME NEW u \in Values', NEW v \in Values', u < v, sub'[u].stream = sub'[v].stream,
             Accepted(u)'
      PROVE  u <= sub'[v].after \/ Ended(u)'
  <2>1. CASE v \in Values
    <3>1. u \in Values
      BY <1>0, <1>5, <2>1
    <3> QED  BY <1>0, <1>5, <2>1, <3>1 DEF OrderInv, Accepted, Ended
  <2>2. CASE v = n
    <3>1. u \in Values
      BY <1>0, <1>5, <2>2
    <3>2. sub[u].stream = s /\ Accepted(u)
      BY <1>0, <1>2, <1>5, <2>2, <3>1 DEF Accepted
    <3>3. u <= last[s] \/ u <= drained
      BY <3>1, <3>2 DEF OrderInv
    <3>4. u <= drained => Ended(u)
      BY <3>1, DrainedIsOver
    <3> QED  BY <1>0, <1>2, <2>2, <3>1, <3>3, <3>4 DEF Ended
  <2> QED  BY <1>0, <2>1, <2>2
<1>6. ASSUME NEW v \in Values', Started(v)'
      PROVE  sub'[v].after <= counter' /\ sub'[v].floor <= counter'
  <2>1. v \in Values
    BY <1>0, <1>6 DEF Started
  <2> QED  BY <1>0, <1>6, <2>1 DEF OrderInv, Started
<1> QED  BY <1>4, <1>5, <1>6 DEF OrderInv

\* The queue keeps the order: it starts what has its waits satisfied.
LEMMA OrderGPU ==
  ASSUME TypeInv, OrderInv, NEW w \in Values, GPU(w)
  PROVE  OrderInv'
<1>1. /\ UNCHANGED <<sub, last, drained>> /\ Values' = Values
      /\ counter \in Nat /\ counter' \in Nat /\ counter <= counter'
      /\ \A u \in Values : /\ Accepted(u)' <=> Accepted(u)
                           /\ Ended(u) => Ended(u)'
                           /\ Started(u)' /\ ~Started(u) => u = w /\ Start(w)
  BY Advancing DEF Values
<1>2. \A v \in Values : sub[v].after \in Nat /\ sub[v].floor \in Nat
  BY Parts
<1>3. ASSUME NEW v \in Values, Started(v)'
      PROVE  sub[v].after <= counter' /\ sub[v].floor <= counter'
  <2>1. sub[v].after <= counter /\ sub[v].floor <= counter
    BY <1>1, <1>3 DEF OrderInv, Start
  <2> QED  BY <1>1, <1>2, <2>1
<1> QED  BY <1>1, <1>3 DEF OrderInv

\* Handing a batch over keeps the ring: its slot remembers the new value.
LEMMA RingHands ==
  ASSUME TypeInv, RingInv, NEW s \in Streams, NEW k \in 0..MaxSignals, Hands(s, k)
  PROVE  RingInv'
<1> DEFINE n == Len(sub) + 1
<1>0. /\ Values' = Values \union {n} /\ n \notin Values /\ n \in Nat
      /\ \A v \in Values : v \in Nat /\ v < n
      /\ \A v \in Values : sub'[v] = sub[v] /\ stage'[v] = stage[v]
      /\ sub'[n] = Batch(s, k) /\ UNCHANGED drained
      /\ open' = [open EXCEPT ![s] = EmptyBatch]
      /\ \/ /\ stage'[n] = "queued"
            /\ inFlight' = IF open[s].slot = 0 THEN inFlight
                           ELSE [inFlight EXCEPT ![s][open[s].slot] = n]
         \/ stage'[n] = "refused" /\ UNCHANGED inFlight
  BY Handing
<1>1. /\ inFlight \in [Streams -> [1..Ring -> 0..MaxSubmits]]
      /\ open \in [Streams -> OpenBatches] /\ open[s].slot \in 0..Ring
      /\ \A v \in Values : sub[v].stream \in Streams /\ sub[v].slot \in 0..Ring
  BY Parts DEF TypeInv, TypeOK
<1>2. sub'[n].stream = s /\ sub'[n].slot = open[s].slot
  BY <1>0 DEF Batch
<1>3. /\ open'[s].slot = 0
      /\ \A t \in Streams \ {s} : open'[t] = open[t]
  BY <1>0, <1>1 DEF EmptyBatch
<1> HIDE DEF n
<1> SUFFICES ASSUME NEW v \in Values', Accepted(v)', sub'[v].slot # 0
             PROVE  /\ \/ v <= inFlight'[sub'[v].stream][sub'[v].slot]
                       \/ v <= drained'
                    /\ open'[sub'[v].stream].slot = sub'[v].slot => v <= drained'
  BY DEF RingInv
<1>4. CASE v = n
  <2>1. inFlight' = [inFlight EXCEPT ![s][open[s].slot] = n]
    BY <1>0, <1>2, <1>4 DEF Accepted
  <2>2. open[s].slot \in 1..Ring
    BY <1>1, <1>2, <1>4, BoundsAssumption
  <2>3. inFlight'[s][open[s].slot] = n
    BY <1>1, <2>1, <2>2
  <2> QED  BY <1>0, <1>2, <1>3, <1>4, <2>3
<1>5. CASE v \in Values
  <2> DEFINE t == sub[v].stream   i == sub[v].slot
  <2>1. /\ v <= inFlight[t][i] \/ v <= drained
        /\ open[t].slot = i => v <= drained
        /\ t \in Streams /\ i \in 1..Ring /\ sub'[v].stream = t /\ sub'[v].slot = i
    <3>1. Accepted(v) /\ sub'[v] = sub[v] /\ sub[v].slot # 0
      BY <1>0, <1>5 DEF Accepted
    <3>2. t \in Streams /\ i \in 1..Ring
      BY <1>1, <1>5, <3>1, BoundsAssumption
    <3> QED  BY <1>5, <3>1, <3>2 DEF RingInv
  <2> HIDE DEF t, i
  <2>2. inFlight'[t][i] = inFlight[t][i] \/ inFlight'[t][i] = n
    <3>1. CASE inFlight' = inFlight
      BY <3>1
    <3>2. CASE inFlight' = [inFlight EXCEPT ![s][open[s].slot] = n]
      BY <1>1, <2>1, <3>2
    <3> QED  BY <1>0, <3>1, <3>2
  <2>3. v <= inFlight'[t][i] \/ v <= drained
    BY <1>0, <1>5, <2>1, <2>2
  <2>4. open'[t].slot = i => v <= drained
    <3>1. CASE t = s
      BY <1>3, <2>1, <3>1
    <3>2. CASE t # s
      BY <1>3, <2>1, <3>2
    <3> QED  BY <3>1, <3>2
  <2> QED  BY <1>0, <2>1, <2>3, <2>4
<1> QED  BY <1>0, <1>4, <1>5

\* A slot is begun again only when its submission has drained.
LEMMA RingRecord ==
  ASSUME TypeInv, RingInv, NEW s \in Streams, NEW b \in Buffers, Record(s, b)
  PROVE  RingInv'
<1>0. /\ \A t \in Streams \ {s} : open'[t] = open[t]
      /\ \/ open[s].slot # 0 /\ open'[s].slot = open[s].slot /\ inFlight' = inFlight
         \/ /\ open[s].slot = 0 /\ open'[s].slot \in 1..Ring
            /\ SlotFree(s, open'[s].slot)
            /\ inFlight' = [inFlight EXCEPT ![s][open'[s].slot] = 0]
  BY Recording DEF TypeInv
<1>1. /\ inFlight \in [Streams -> [1..Ring -> 0..MaxSubmits]] /\ drained \in Nat
      /\ \A v \in Values : v \in Nat /\ sub[v].stream \in Streams /\ sub[v].slot \in 0..Ring
  BY Parts DEF TypeInv, TypeOK
<1>2. UNCHANGED <<sub, stage, drained>> /\ Values' = Values
  BY DEF Record, queueVars, drainVars, Values
<1> SUFFICES ASSUME NEW v \in Values, Accepted(v), sub[v].slot # 0
             PROVE  /\ \/ v <= inFlight'[sub[v].stream][sub[v].slot]
                       \/ v <= drained
                    /\ open'[sub[v].stream].slot = sub[v].slot => v <= drained
  BY <1>2 DEF RingInv, Accepted
<1> DEFINE t == sub[v].stream   i == sub[v].slot
<1>3. /\ v <= inFlight[t][i] \/ v <= drained
      /\ open[t].slot = i => v <= drained
      /\ t \in Streams /\ i \in 1..Ring
  BY <1>1, BoundsAssumption DEF RingInv
<1> HIDE DEF t, i
<1>4. CASE t # s \/ inFlight' = inFlight
  <2>1. inFlight'[t] = inFlight[t]
    BY <1>0, <1>1, <1>3, <1>4
  <2>2. CASE t # s
    BY <1>0, <1>3, <2>1, <2>2 DEF t, i
  <2>3. CASE t = s
    <3>1. open'[s].slot = open[s].slot \/ inFlight' # inFlight \/ SlotFree(s, open'[s].slot)
      BY <1>0
    <3>2. CASE open'[s].slot = open[s].slot
      BY <1>3, <2>1, <2>3, <3>2 DEF t, i
    <3>3. CASE SlotFree(s, open'[s].slot)
      <4>1. i = open'[s].slot => inFlight[s][i] <= drained
        BY <3>3 DEF SlotFree
      <4>2. inFlight[s][i] \in Nat /\ v \in Nat
        BY <1>1, <1>3, <2>3, BoundsAssumption
      <4> QED  BY <1>1, <1>3, <2>1, <2>3, <4>1, <4>2 DEF t, i
    <3> QED  BY <1>4, <2>3, <3>1, <3>2, <3>3
  <2> QED  BY <2>2, <2>3
<1>5. CASE t = s /\ inFlight' # inFlight
  <2>1. /\ SlotFree(s, open'[s].slot) /\ open'[s].slot \in 1..Ring
        /\ inFlight' = [inFlight EXCEPT ![s][open'[s].slot] = 0]
    BY <1>0, <1>5
  <2>2. CASE i = open'[s].slot
    <3>1. inFlight[s][i] <= drained /\ inFlight[s][i] \in Nat
      BY <1>1, <2>1, <2>2, BoundsAssumption DEF SlotFree
    <3>2. v <= drained
      BY <1>1, <1>3, <1>5, <3>1
    <3> QED  BY <3>2 DEF t, i
  <2>3. CASE i # open'[s].slot
    <3>1. inFlight'[s][i] = inFlight[s][i]
      BY <1>1, <1>3, <2>1, <2>3
    <3> QED  BY <1>3, <1>5, <2>3, <3>1 DEF t, i
  <2> QED  BY <2>2, <2>3
<1> QED  BY <1>4, <1>5

----------------------------------------------------------------------------
(* Buffers are not reused while the queue may read them.                   *)

\* What touches no batch, submission or stamp keeps the buffers.
LEMMA BufferQuiet ==
  ASSUME BufferInv, UNCHANGED <<open, sub, stage, stamp, place>>
  PROVE  BufferInv'
  BY DEF BufferInv, Values

\* What the timeline has passed by one generation is cleaned up after.
LEMMA PassedIsClean ==
  ASSUME TypeInv, NEW v \in Values, v < counter
  PROVE  stage[v] \in {"clean", "refused"}
  BY DEF TypeInv, Timeline

\* Recording stamps the buffer, and another batch does not hold it.
LEMMA BufferRecord ==
  ASSUME TypeInv, BufferInv, ~Shared, NEW s \in Streams, NEW b \in Buffers, Record(s, b)
  PROVE  BufferInv'
<1>1. /\ open' \in [Streams -> OpenBatches] /\ \A t \in Streams \ {s} : open'[t] = open[t]
      /\ open'[s].bufs = open[s].bufs \union {b}
  BY Recording DEF TypeInv
<1>2. /\ UNCHANGED <<sub, stage, place>> /\ Values' = Values /\ place[b] = "held"
      /\ \A t \in Streams \ {s} : b \notin open[t].bufs
  BY DEF Record, queueVars, Values
<1>3. /\ \A c \in Buffers : stamp'[c] = IF c = b THEN Pending ELSE stamp[c]
      /\ Pending \in Nat /\ \A v \in Values : v \in Nat /\ v <= Pending
  <2>1. stamp' = [stamp EXCEPT ![b] = Pending] /\ stamp \in [Buffers -> 0..Pending]
    BY DEF Record, TypeInv, TypeOK
  <2>2. Len(sub) \in Nat /\ Len(sub) <= MaxSubmits
    BY DEF TypeInv, TypeOK
  <2>3. Pending \in Nat /\ \A v \in Values : v \in Nat /\ v <= Pending
    BY <2>2, BoundsAssumption DEF TypeInv, TypeOK, Values, Pending
  <2> QED  BY <2>1, <2>3
<1>4. \A t \in Streams : \A c \in open'[t].bufs : stamp'[c] = Pending /\ place[c] # "free"
  <2> SUFFICES ASSUME NEW t \in Streams, NEW c \in open'[t].bufs
               PROVE  stamp'[c] = Pending /\ place[c] # "free"
    OBVIOUS
  <2>1. CASE c = b
    BY <1>2, <1>3, <2>1
  <2>2. CASE c # b
    <3>1. c \in open[t].bufs /\ c \in Buffers
      BY <1>1, <2>2, Parts
    <3> QED  BY <1>3, <2>2, <3>1 DEF BufferInv
  <2> QED  BY <2>1, <2>2
<1>5. \A v \in Values : stage[v] \notin {"clean", "refused"} =>
        \A c \in sub[v].bufs : stamp'[c] >= v /\ place[c] # "free"
  <2> SUFFICES ASSUME NEW v \in Values, stage[v] \notin {"clean", "refused"},
                      NEW c \in sub[v].bufs
               PROVE  stamp'[c] >= v /\ place[c] # "free"
    OBVIOUS
  <2>1. c \in Buffers /\ stamp[c] >= v /\ place[c] # "free"
    BY Parts DEF BufferInv
  <2> QED  BY <1>3, <2>1
<1>6. \A t, u \in Streams : t # u => open'[t].bufs \cap open'[u].bufs = {}
  <2> SUFFICES ASSUME NEW t \in Streams, NEW u \in Streams, t # u
               PROVE  open'[t].bufs \cap open'[u].bufs = {}
    OBVIOUS
  <2>1. open[t].bufs \cap open[u].bufs = {}
    BY DEF BufferInv
  <2> QED  BY <1>1, <1>2, <2>1
<1> QED  BY <1>2, <1>4, <1>5, <1>6 DEF BufferInv

\* Handing a batch over stamps its buffers with the new value.
LEMMA BufferHands ==
  ASSUME TypeInv, BufferInv, NEW s \in Streams, NEW k \in 0..MaxSignals, Hands(s, k)
  PROVE  BufferInv'
<1> DEFINE n == Len(sub) + 1
<1>0. /\ Values' = Values \union {n} /\ n \notin Values /\ n \in Nat
      /\ \A v \in Values : v \in Nat /\ v < n
      /\ \A v \in Values : sub'[v] = sub[v] /\ stage'[v] = stage[v]
      /\ sub'[n] = Batch(s, k) /\ UNCHANGED place
      /\ open' = [open EXCEPT ![s] = EmptyBatch]
      /\ stamp' = [b \in Buffers |-> IF b \in open[s].bufs THEN n ELSE stamp[b]]
  BY Handing
<1>1. open \in [Streams -> OpenBatches]
  BY DEF TypeInv, TypeOK
<1>2. sub'[n].bufs = open[s].bufs
  BY <1>0 DEF Batch
<1>3. open'[s].bufs = {} /\ \A t \in Streams \ {s} : open'[t] = open[t]
  BY <1>0, <1>1 DEF EmptyBatch
<1> HIDE DEF n
<1>4. ASSUME NEW t \in Streams, NEW c \in open'[t].bufs
      PROVE  stamp'[c] = Pending /\ place'[c] # "free"
  <2>1. t # s /\ c \in open[t].bufs /\ c \in Buffers
    BY <1>3, <1>4, Parts
  <2>2. c \notin open[s].bufs /\ stamp[c] = Pending /\ place[c] # "free"
    BY <2>1 DEF BufferInv
  <2> QED  BY <1>0, <2>1, <2>2
<1>5. ASSUME NEW v \in Values', stage'[v] \notin {"clean", "refused"}, NEW c \in sub'[v].bufs
      PROVE  stamp'[c] >= v /\ place'[c] # "free"
  <2>1. CASE v = n
    <3>1. c \in open[s].bufs /\ c \in Buffers
      BY <1>2, <1>5, <2>1, Parts
    <3>2. place[c] # "free"
      BY <3>1 DEF BufferInv
    <3>3. stamp'[c] = n
      BY <1>0, <3>1
    <3> QED  BY <1>0, <2>1, <3>2, <3>3
  <2>2. CASE v \in Values
    <3>1. c \in sub[v].bufs /\ c \in Buffers /\ stage[v] \notin {"clean", "refused"}
      BY <1>0, <1>5, <2>2, Parts
    <3>2. stamp[c] >= v /\ place[c] # "free"
      BY <2>2, <3>1 DEF BufferInv
    <3>3. stamp'[c] = n \/ stamp'[c] = stamp[c]
      BY <1>0, <3>1
    <3> QED  BY <1>0, <2>2, <3>2, <3>3
  <2> QED  BY <1>0, <2>1, <2>2
<1>6. ASSUME NEW t \in Streams, NEW u \in Streams, t # u
      PROVE  open'[t].bufs \cap open'[u].bufs = {}
  <2>1. open[t].bufs \cap open[u].bufs = {}
    BY <1>6 DEF BufferInv
  <2> QED  BY <1>3, <1>6, <2>1
<1> QED  BY <1>4, <1>5, <1>6 DEF BufferInv

\* The queue keeps the buffers: a submission only gets closer to its end.
LEMMA BufferGPU ==
  ASSUME TypeInv, BufferInv, NEW w \in Values, GPU(w)
  PROVE  BufferInv'
<1>1. /\ UNCHANGED <<sub, open, place, stamp>> /\ Values' = Values
      /\ \A u \in Values : stage'[u] \notin {"clean", "refused"} =>
                             stage[u] \notin {"clean", "refused"}
  BY Advancing DEF Values
<1> QED  BY <1>1 DEF BufferInv

\* Taking buffers whose stamp the timeline has passed away from everybody.
LEMMA BufferFreed ==
  ASSUME TypeInv, BufferInv, UNCHANGED <<open, sub, stage>>,
         NEW freed \in SUBSET Buffers, \A b \in freed : stamp[b] < counter /\ stamp[b] < Pending,
         \A b \in Buffers \ freed : stamp'[b] = stamp[b] /\ (place'[b] = "free" => place[b] = "free")
  PROVE  BufferInv'
<1>1. \A s \in Streams : \A b \in open[s].bufs : stamp'[b] = Pending /\ place'[b] # "free"
  <2> SUFFICES ASSUME NEW s \in Streams, NEW b \in open[s].bufs
               PROVE  stamp'[b] = Pending /\ place'[b] # "free"
    OBVIOUS
  <2>1. b \in Buffers /\ stamp[b] = Pending /\ place[b] # "free"
    BY Parts DEF BufferInv
  <2>2. b \notin freed
    BY <2>1, BoundsAssumption DEF Pending
  <2> QED  BY <2>1, <2>2
<1>2. \A v \in Values : stage[v] \notin {"clean", "refused"} =>
        \A b \in sub[v].bufs : stamp'[b] >= v /\ place'[b] # "free"
  <2> SUFFICES ASSUME NEW v \in Values, stage[v] \notin {"clean", "refused"},
                      NEW b \in sub[v].bufs
               PROVE  stamp'[b] >= v /\ place'[b] # "free"
    OBVIOUS
  <2>1. b \in Buffers /\ stamp[b] >= v /\ place[b] # "free" /\ v \in Nat
    BY Parts DEF BufferInv
  <2>2. ~(v < counter)
    BY PassedIsClean
  <2>3. stamp[b] \in Nat /\ counter \in Nat
    BY <2>1, BoundsAssumption DEF TypeInv, TypeOK, Pending
  <2>4. b \notin freed
    BY <2>1, <2>2, <2>3
  <2> QED  BY <2>1, <2>4
<1> QED  BY <1>1, <1>2 DEF BufferInv, Values

\* The quarantine and the reuse cache take a buffer only after its last reader.
LEMMA BufferHost ==
  ASSUME TypeInv, BufferInv, Dispatcher \/ \E b \in Buffers : Malloc(b) \/ Free(b)
  PROVE  BufferInv'
<1>0. /\ stamp \in [Buffers -> 0..Pending] /\ Pending \in Nat /\ Pending > 0
      /\ place \in [Buffers -> {"free", "held", "quarantine"}]
      /\ handled \in Nat /\ drained \in Nat /\ counter \in Nat
      /\ drained <= handled /\ handled <= counter /\ counter <= MaxSubmits
      /\ counter < Pending
  BY BoundsAssumption DEF TypeInv, TypeOK, Pending
<1>1. CASE Drain
  <2>1. PICK v \in handled + 1 .. counter :
          /\ place' = [b \in Buffers |->
                         IF b \in Releasable(v - 1) THEN "free" ELSE place[b]]
          /\ stamp' = [b \in Buffers |-> IF b \in Releasable(v - 1) THEN 0 ELSE stamp[b]]
    BY <1>1 DEF Drain
  <2>2. UNCHANGED <<open, sub, stage>>
    BY <1>1 DEF Drain, batchVars, queueVars
  <2> DEFINE freed == Releasable(v - 1)
  <2>3. freed \in SUBSET Buffers /\ \A b \in freed : stamp[b] < counter /\ stamp[b] < Pending
    BY <1>0 DEF Releasable
  <2>4. \A b \in Buffers \ freed : stamp'[b] = stamp[b] /\ place'[b] = place[b]
    BY <2>1
  <2> QED  BY <2>2, <2>3, <2>4, BufferFreed
<1>2. CASE Publish
  BY <1>2, BufferQuiet DEF Publish, batchVars, queueVars, bufferVars
<1>3. ASSUME NEW b \in Buffers, Malloc(b) PROVE BufferInv'
  <2>1. UNCHANGED <<open, sub, stage, stamp>> /\ place' = [place EXCEPT ![b] = "held"]
    BY <1>3 DEF Malloc, batchVars, queueVars
  <2>2. \A c \in Buffers : place'[c] = "free" => place[c] = "free"
    BY <1>0, <2>1
  <2> DEFINE freed == {}
  <2>3. freed \in SUBSET Buffers /\ \A c \in freed : stamp[c] < counter /\ stamp[c] < Pending
    OBVIOUS
  <2>4. \A c \in Buffers \ freed :
          stamp'[c] = stamp[c] /\ (place'[c] = "free" => place[c] = "free")
    BY <2>1, <2>2
  <2> HIDE DEF freed
  <2> QED  BY <2>1, <2>3, <2>4, BufferFreed
<1>4. ASSUME NEW b \in Buffers, Free(b) PROVE BufferInv'
  <2>1. UNCHANGED <<open, sub, stage>>
    BY <1>4 DEF Free, batchVars, queueVars
  <2>2. CASE MustWait(b)
    <3>1. UNCHANGED stamp /\ place' = [place EXCEPT ![b] = "quarantine"]
      BY <1>4, <2>2 DEF Free
    <3>2. \A c \in Buffers : place'[c] = "free" => place[c] = "free"
      BY <1>0, <3>1
    <3> DEFINE freed == {}
    <3>3. freed \in SUBSET Buffers /\ \A c \in freed : stamp[c] < counter /\ stamp[c] < Pending
      OBVIOUS
    <3>4. \A c \in Buffers \ freed :
            stamp'[c] = stamp[c] /\ (place'[c] = "free" => place[c] = "free")
      BY <3>1, <3>2
    <3> HIDE DEF freed
    <3> QED  BY <2>1, <3>3, <3>4, BufferFreed
  <2>3. CASE ~MustWait(b)
    <3>1. place' = [place EXCEPT ![b] = "free"] /\ stamp' = [stamp EXCEPT ![b] = 0]
      BY <1>4, <2>3 DEF Free
    <3>2. \A c \in Buffers \ {b} : stamp'[c] = stamp[c] /\ place'[c] = place[c]
      BY <1>0, <3>1
    <3>3. CASE stamp[b] # 0
      <4>1. stamp[b] < counter /\ stamp[b] < Pending
        BY <1>0, <2>3, <3>3 DEF MustWait
      <4> DEFINE freed == {b}
      <4>2. freed \in SUBSET Buffers /\ \A c \in freed : stamp[c] < counter /\ stamp[c] < Pending
        BY <4>1
      <4>3. \A c \in Buffers \ freed :
              stamp'[c] = stamp[c] /\ (place'[c] = "free" => place[c] = "free")
        BY <3>2
      <4> HIDE DEF freed
      <4> QED  BY <2>1, <4>2, <4>3, BufferFreed
    <3>4. CASE stamp[b] = 0
      <4>1. \A s \in Streams : b \notin open[s].bufs
        BY <1>0, <3>4 DEF BufferInv
      <4>2. \A v \in Values : stage[v] \notin {"clean", "refused"} => b \notin sub[v].bufs
        BY <3>4, Parts DEF BufferInv
      <4>3. \A s \in Streams : open[s].bufs \subseteq Buffers
        BY Parts
      <4>4. \A v \in Values : sub[v].bufs \subseteq Buffers
        BY Parts
      <4> QED  BY <2>1, <3>2, <4>1, <4>2, <4>3, <4>4 DEF BufferInv, Values
    <3> QED  BY <3>3, <3>4
  <2> QED  BY <2>2, <2>3
<1> QED  BY <1>1, <1>2, <1>3, <1>4 DEF Dispatcher

----------------------------------------------------------------------------
(* A value of an event is behind the work it stands for.                   *)

\* The parts of the events.
LEMMA EventParts ==
  ASSUME TypeInv, EventInv
  PROVE  /\ \A p \in Streams : /\ asked[p] \in Nat /\ sem[p] \in Nat /\ sem[p] <= asked[p]
                               /\ mark[p] \in Seq(Nat) /\ Len(mark[p]) = asked[p]
                               /\ \A k \in 1..asked[p] : mark[p][k] \in Nat
         /\ \A p \in Streams : \A k \in 1..asked[p] : \A u \in 1..mark[p][k] : u \in Values
         /\ \A v \in Values : \A e \in sub[v].events :
              e[1] \in Streams /\ e[2] \in 1..asked[e[1]]
         /\ \A s \in Streams : \A e \in open[s].events :
              e[1] \in Streams /\ e[2] \in 1..asked[e[1]]
<1>1. \A p \in Streams : /\ asked[p] \in Nat /\ sem[p] \in Nat /\ sem[p] <= asked[p]
                         /\ mark[p] \in Seq(Nat) /\ Len(mark[p]) = asked[p]
  BY BoundsAssumption DEF TypeInv, TypeOK, EventInv, MarkInv
<1>2. \A p \in Streams : \A k \in 1..asked[p] : mark[p][k] \in Nat /\ mark[p][k] <= Len(sub)
  BY <1>1 DEF EventInv, MarkInv
<1>3. Len(sub) \in Nat /\ Values = 1..Len(sub)
  BY DEF TypeInv, TypeOK, Values
<1>4. \A e \in Streams \X (1..MaxSignals) : e[1] \in Streams /\ e[2] \in 1..MaxSignals
  OBVIOUS
<1>5. \A v \in Values : \A e \in sub[v].events : e[1] \in Streams /\ e[2] \in 1..asked[e[1]]
  <2> SUFFICES ASSUME NEW v \in Values, NEW e \in sub[v].events
               PROVE  e[1] \in Streams /\ e[2] \in 1..asked[e[1]]
    OBVIOUS
  <2>1. e[1] \in Streams /\ e[2] \in 1..MaxSignals
    BY <1>4, Parts
  <2>2. e[2] <= asked[e[1]]
    BY DEF EventInv
  <2> QED  BY <1>1, <2>1, <2>2, BoundsAssumption
<1>6. \A s \in Streams : \A e \in open[s].events : e[1] \in Streams /\ e[2] \in 1..asked[e[1]]
  <2> SUFFICES ASSUME NEW s \in Streams, NEW e \in open[s].events
               PROVE  e[1] \in Streams /\ e[2] \in 1..asked[e[1]]
    OBVIOUS
  <2>1. e[1] \in Streams /\ e[2] \in 1..MaxSignals
    BY <1>4, Parts
  <2>2. e[2] <= asked[e[1]]
    BY DEF EventInv
  <2> QED  BY <1>1, <2>1, <2>2, BoundsAssumption
<1> QED  BY <1>1, <1>2, <1>3, <1>5, <1>6

\* Steps that hand over nothing, signal nothing and start nothing.
LEMMA EventQuiet ==
  ASSUME TypeInv, EventInv, UNCHANGED <<sub, stage, asked, sem, mark>>,
         \A s \in Streams : \A e \in open'[s].events : e[2] <= asked[e[1]]
  PROVE  EventInv'
  BY DEF EventInv, MarkInv, Behind, Started, Ended, Values

\* Waiting for an event takes a value that was asked for.
LEMMA EventEncoder ==
  ASSUME TypeInv, EventInv, NEW s \in Streams,
         \/ \E b \in Buffers : Record(s, b)
         \/ \E p \in Streams : WaitEvent(s, p)
         \/ WaitOutstanding(s) \/ Join(s)
  PROVE  EventInv'
<1>0. \A t \in Streams : \A e \in open[t].events : e[2] <= asked[e[1]]
  BY DEF EventInv
<1>1. ASSUME NEW b \in Buffers, Record(s, b) PROVE EventInv'
  <2>1. \A t \in Streams : open'[t].events = open[t].events
    BY <1>1, Recording DEF TypeInv
  <2>2. UNCHANGED <<sub, stage, asked, sem, mark>>
    BY <1>1 DEF Record, queueVars, eventVars
  <2> QED  BY <1>0, <2>1, <2>2, EventQuiet
<1>2. ASSUME NEW p \in Streams, WaitEvent(s, p) PROVE EventInv'
  <2>1. /\ \A t \in Streams \ {s} : open'[t].events = open[t].events
        /\ open'[s].events = open[s].events \union {<<p, asked[p]>>}
    BY <1>2, Waiting DEF TypeInv
  <2>2. UNCHANGED <<sub, stage, asked, sem, mark>>
    BY <1>2 DEF WaitEvent, queueVars, eventVars
  <2>3. asked[p] <= asked[p]
    BY EventParts
  <2>4. \A t \in Streams : \A e \in open'[t].events : e[2] <= asked[e[1]]
    BY <1>0, <2>1, <2>3
  <2> QED  BY <2>2, <2>4, EventQuiet
<1>3. CASE WaitOutstanding(s)
  <2>1. \A t \in Streams : open'[t].events = open[t].events
    BY <1>3, WaitingAll DEF TypeInv
  <2>2. UNCHANGED <<sub, stage, asked, sem, mark>>
    BY <1>3 DEF WaitOutstanding, queueVars, eventVars
  <2> QED  BY <1>0, <2>1, <2>2, EventQuiet
<1>4. CASE Join(s)
  BY <1>0, <1>4, EventQuiet DEF Join, queueVars, eventVars
<1> QED  BY <1>1, <1>2, <1>3, <1>4

\* A value asked for is appended to the marks.
LEMMA Asking ==
  ASSUME TypeInv, EventInv, NEW s \in Streams, NEW m \in Nat, Ask(s, m),
         Len(sub) <= m, m = Len(sub')
  PROVE  /\ \A p \in Streams \ {s} : asked'[p] = asked[p] /\ mark'[p] = mark[p]
         /\ asked'[s] = asked[s] + 1 /\ asked[s] \in Nat
         /\ mark'[s][asked[s] + 1] = m
         /\ \A k \in 1..asked[s] : mark'[s][k] = mark[s][k]
         /\ MarkInv'
<1>1. asked' = [asked EXCEPT ![s] = @ + 1] /\ mark' = [mark EXCEPT ![s] = Append(@, m)]
  BY DEF Ask
<1>2. asked \in [Streams -> 0..MaxSignals] /\ mark \in [Streams -> Seq(Nat)]
  BY DEF TypeInv, TypeOK, EventInv, MarkInv
<1>3. \A p \in Streams : mark[p] \in Seq(Nat) /\ Len(mark[p]) = asked[p] /\ asked[p] \in Nat
  BY EventParts
<1>4. /\ \A p \in Streams \ {s} : asked'[p] = asked[p] /\ mark'[p] = mark[p]
      /\ asked'[s] = asked[s] + 1 /\ mark'[s] = Append(mark[s], m)
  BY <1>1, <1>2
<1>5. /\ Append(mark[s], m) \in Seq(Nat) /\ Len(Append(mark[s], m)) = asked[s] + 1
      /\ Append(mark[s], m)[asked[s] + 1] = m
      /\ \A k \in 1..asked[s] : Append(mark[s], m)[k] = mark[s][k]
  BY <1>3
<1>6. mark' \in [Streams -> Seq(Nat)]
  BY <1>1, <1>2, <1>5
<1>7. ASSUME NEW p \in Streams
      PROVE  /\ Len(mark'[p]) = asked'[p]
             /\ \A k \in 1..asked'[p] : mark'[p][k] <= m
             /\ \A j, k \in 1..asked'[p] : j <= k => mark'[p][j] <= mark'[p][k]
  <2>0. /\ \A k \in 1..asked[p] : mark[p][k] \in Nat /\ mark[p][k] <= Len(sub)
        /\ \A j, k \in 1..asked[p] : j <= k => mark[p][j] <= mark[p][k]
        /\ Len(sub) \in Nat
    <3>1. MarkInv
      BY DEF EventInv
    <3>2. Len(sub) \in Nat
      BY DEF TypeInv, TypeOK
    <3>3. \A k \in 1..asked[p] : mark[p][k] \in Nat
      BY EventParts
    <3> QED  BY <3>1, <3>2, <3>3 DEF MarkInv
  <2>1. CASE p # s
    <3>1. asked'[p] = asked[p] /\ mark'[p] = mark[p] /\ Len(mark[p]) = asked[p]
      BY <1>3, <1>4, <2>1
    <3>2. \A k \in 1..asked[p] : mark[p][k] <= m
      <4> SUFFICES ASSUME NEW k \in 1..asked[p] PROVE mark[p][k] <= m
        OBVIOUS
      <4>1. mark[p][k] \in Nat /\ mark[p][k] <= Len(sub) /\ Len(sub) \in Nat
        BY <2>0
      <4> QED  BY <4>1
    <3> QED  BY <2>0, <3>1, <3>2
  <2>2. CASE p = s
    <3>1. \A k \in 1..asked[s] : mark'[s][k] = mark[s][k] /\ mark[s][k] <= m
      <4> SUFFICES ASSUME NEW k \in 1..asked[s]
                   PROVE  mark'[s][k] = mark[s][k] /\ mark[s][k] <= m
        OBVIOUS
      <4>1. mark[s][k] \in Nat /\ mark[s][k] <= Len(sub) /\ Len(sub) \in Nat
        BY <2>0, <2>2
      <4>2. mark'[s][k] = mark[s][k]
        BY <1>4, <1>5
      <4>3. mark[s][k] <= m
        BY <4>1
      <4> QED  BY <4>2, <4>3
    <3>2. mark'[s][asked[s] + 1] = m /\ Len(mark'[s]) = asked[s] + 1
      BY <1>4, <1>5
    <3>3. \A k \in 1..(asked[s] + 1) : k \in 1..asked[s] \/ k = asked[s] + 1
      BY <1>3
    <3>4. \A j, k \in 1..(asked[s] + 1) : j <= k /\ j = asked[s] + 1 => k = asked[s] + 1
      BY <1>3
    <3>5. \A k \in 1..(asked[s] + 1) : mark'[s][k] <= m
      BY <3>1, <3>2, <3>3
    <3>6. ASSUME NEW j \in 1..(asked[s] + 1), NEW k \in 1..(asked[s] + 1), j <= k
          PROVE  mark'[s][j] <= mark'[s][k]
      <4>1. CASE k = asked[s] + 1
        BY <3>2, <3>5, <4>1
      <4>2. CASE k # asked[s] + 1
        <5>1. j \in 1..asked[s] /\ k \in 1..asked[s]
          BY <3>3, <3>4, <3>6, <4>2
        <5> QED  BY <2>0, <2>2, <3>1, <3>6, <5>1
      <4> QED  BY <4>1, <4>2
    <3> QED  BY <1>4, <2>2, <3>2, <3>5, <3>6
  <2> QED  BY <2>1, <2>2
<1> QED  BY <1>3, <1>4, <1>5, <1>6, <1>7 DEF MarkInv

\* What carries over when values are added and no submission starts.
LEMMA EventKept ==
  ASSUME TypeInv, EventInv, MarkInv',
         \A p \in Streams : asked[p] <= asked'[p] /\ asked'[p] \in Nat,
         \A p \in Streams : \A k \in 1..asked[p] : mark'[p][k] = mark[p][k],
         Values \subseteq Values',
         \A v \in Values : sub'[v] = sub[v] /\ stage'[v] = stage[v]
  PROVE  /\ \A p \in Streams : \A k \in 1..asked[p] : Behind(p, k) => Behind(p, k)'
         /\ \A v \in Values : sub[v].signal # 0 =>
              /\ sub[v].signal <= asked'[sub[v].stream]
              /\ mark'[sub[v].stream][sub[v].signal] = v
         /\ \A s \in Streams : \A e \in open[s].events : e[2] <= asked'[e[1]]
         /\ \A v \in Values : \A e \in sub[v].events :
              e[2] <= asked'[e[1]] /\ (Started(v) => Behind(e[1], e[2])')
<1>1. ASSUME NEW p \in Streams, NEW k \in 1..asked[p], Behind(p, k) PROVE Behind(p, k)'
  <2>1. mark'[p][k] = mark[p][k] /\ \A u \in 1..mark[p][k] : u \in Values
    BY EventParts
  <2> QED  BY <1>1, <2>1 DEF Behind, Ended
<1>2. ASSUME NEW v \in Values, sub[v].signal # 0
      PROVE  /\ sub[v].signal <= asked'[sub[v].stream]
             /\ mark'[sub[v].stream][sub[v].signal] = v
  <2>1. /\ sub[v].stream \in Streams /\ sub[v].signal \in Nat
        /\ sub[v].signal <= asked[sub[v].stream]
        /\ mark[sub[v].stream][sub[v].signal] = v
    BY <1>2, Parts DEF EventInv
  <2>2. asked[sub[v].stream] \in Nat
    BY <2>1, EventParts
  <2>3. sub[v].signal \in 1..asked[sub[v].stream]
    BY <1>2, <2>1, <2>2
  <2> QED  BY <2>1, <2>2, <2>3
<1>3. \A p \in Streams : \A k \in 1..asked[p] : k <= asked'[p]
  <2> SUFFICES ASSUME NEW p \in Streams, NEW k \in 1..asked[p] PROVE k <= asked'[p]
    OBVIOUS
  <2>1. asked[p] \in Nat
    BY EventParts
  <2> QED  BY <2>1
<1>4. \A s \in Streams : \A e \in open[s].events : e[2] <= asked'[e[1]]
  BY <1>3, EventParts
<1>5. \A v \in Values : \A e \in sub[v].events :
        e[2] <= asked'[e[1]] /\ (Started(v) => Behind(e[1], e[2])')
  <2> SUFFICES ASSUME NEW v \in Values, NEW e \in sub[v].events
               PROVE  e[2] <= asked'[e[1]] /\ (Started(v) => Behind(e[1], e[2])')
    OBVIOUS
  <2>1. e[1] \in Streams /\ e[2] \in 1..asked[e[1]]
    BY EventParts
  <2>2. Started(v) => Behind(e[1], e[2])
    BY DEF EventInv
  <2> QED  BY <1>1, <1>3, <2>1, <2>2
<1> QED  BY <1>1, <1>2, <1>4, <1>5

\* A value published from the host: nothing of the stream is under way.
LEMMA EventFromHost ==
  ASSUME TypeInv, OrderInv, EventInv, NEW s \in Streams, SignalFromHost(s)
  PROVE  EventInv'
<1>0. /\ Ask(s, Len(sub)) /\ sem' = [sem EXCEPT ![s] = asked[s] + 1] /\ FromHost(s)
      /\ UNCHANGED <<sub, stage, open>> /\ Values' = Values
  BY DEF SignalFromHost, batchVars, queueVars, Values
<1>1. Len(sub) \in Nat /\ Len(sub) <= Len(sub) /\ Len(sub) = Len(sub')
  BY <1>0 DEF TypeInv, TypeOK
<1>2. /\ \A p \in Streams \ {s} : asked'[p] = asked[p] /\ mark'[p] = mark[p]
      /\ asked'[s] = asked[s] + 1 /\ asked[s] \in Nat
      /\ \A k \in 1..asked[s] : mark'[s][k] = mark[s][k]
      /\ MarkInv'
  BY <1>0, <1>1, Asking
<1>3. /\ \A p \in Streams \ {s} : sem'[p] = sem[p]
      /\ sem'[s] = asked[s] + 1
  BY <1>0 DEF TypeInv, TypeOK
<1>4. \A u \in Values : sub[u].stream = s => Ended(u)
  <2> SUFFICES ASSUME NEW u \in Values, sub[u].stream = s PROVE Ended(u)
    OBVIOUS
  <2>1. CASE Accepted(u)
    <3>1. u <= last[s] \/ u <= drained
      BY <2>1 DEF OrderInv
    <3>2. last[s] <= drained
      BY <1>0 DEF FromHost, Synchronized
    <3>3. last[s] \in Nat /\ drained \in Nat /\ u \in Nat
      <4>1. u \in Nat
        BY Parts
      <4>2. last[s] \in Nat /\ drained \in Nat
        BY BoundsAssumption DEF TypeInv, TypeOK
      <4> QED  BY <4>1, <4>2
    <3>4. u <= drained
      BY <3>1, <3>2, <3>3
    <3> QED  BY <3>4, DrainedIsOver
  <2>2. CASE ~Accepted(u)
    BY <2>2 DEF Accepted, Ended
  <2> QED  BY <2>1, <2>2
<1>5. \A k \in 1..asked'[s] : \A u \in 1..mark'[s][k] : u \in Values
  <2>1. \A k \in 1..asked'[s] : mark'[s][k] \in Nat /\ mark'[s][k] <= Len(sub)
    BY <1>0, <1>2 DEF MarkInv
  <2>2. Values = 1..Len(sub)
    BY DEF TypeInv, TypeOK, Values
  <2> QED  BY <1>1, <2>1, <2>2
<1>6. /\ \A p \in Streams : asked[p] <= asked'[p] /\ asked'[p] \in Nat
      /\ \A p \in Streams : sem'[p] <= asked'[p]
      /\ \A p \in Streams : \A k \in 1..asked[p] : mark'[p][k] = mark[p][k]
  <2> SUFFICES ASSUME NEW p \in Streams
               PROVE  /\ asked[p] <= asked'[p] /\ asked'[p] \in Nat /\ sem'[p] <= asked'[p]
                      /\ \A k \in 1..asked[p] : mark'[p][k] = mark[p][k]
    OBVIOUS
  <2>1. asked[p] \in Nat /\ sem[p] \in Nat /\ sem[p] <= asked[p]
    BY EventParts
  <2>2. CASE p = s
    BY <1>2, <1>3, <2>2
  <2>3. CASE p # s
    BY <1>2, <1>3, <2>1, <2>3
  <2> QED  BY <2>2, <2>3
<1>7. \A p \in Streams : \A k \in 1..asked'[p] : k <= sem'[p] => Behind(p, k)'
  <2> SUFFICES ASSUME NEW p \in Streams, NEW k \in 1..asked'[p], k <= sem'[p]
               PROVE  Behind(p, k)'
    OBVIOUS
  <2>1. CASE p = s
    BY <1>0, <1>4, <1>5, <2>1 DEF Behind, Ended
  <2>2. CASE p # s
    BY <1>0, <1>2, <1>3, <2>2 DEF EventInv, Behind, Ended
  <2> QED  BY <2>1, <2>2
<1>8. /\ \A v \in Values : sub[v].signal # 0 =>
           /\ sub[v].signal <= asked'[sub[v].stream]
           /\ mark'[sub[v].stream][sub[v].signal] = v
      /\ \A t \in Streams : \A e \in open[t].events : e[2] <= asked'[e[1]]
      /\ \A v \in Values : \A e \in sub[v].events :
           e[2] <= asked'[e[1]] /\ (Started(v) => Behind(e[1], e[2])')
  BY <1>0, <1>2, <1>6, EventKept
<1> QED
  BY <1>0, <1>2, <1>6, <1>7, <1>8 DEF EventInv, Started

\* A submission takes its stream's waits with it and may carry a new value.
LEMMA EventHands ==
  ASSUME TypeInv, EventInv, NEW s \in Streams, NEW k \in 0..MaxSignals, Hands(s, k)
  PROVE  EventInv'
<1> DEFINE n == Len(sub) + 1
<1>0. /\ Len(sub) \in Nat /\ Values = 1..Len(sub) /\ Values' = Values \union {n}
      /\ n \notin Values /\ n \in Nat /\ Len(sub') = n
      /\ \A v \in Values : sub'[v] = sub[v] /\ stage'[v] = stage[v]
      /\ sub'[n] = Batch(s, k) /\ stage'[n] \in {"queued", "refused"}
      /\ open' = [open EXCEPT ![s] = EmptyBatch]
  BY Handing
<1>1. sub'[n].stream = s /\ sub'[n].signal = k /\ sub'[n].events = open[s].events
  BY <1>0 DEF Batch
<1>2. \A t \in Streams : open'[t].events \subseteq open[t].events
  BY <1>0 DEF TypeInv, TypeOK, EmptyBatch
<1>3. sem' = sem
  BY DEF Hands
<1>4. /\ MarkInv'
      /\ \A p \in Streams : asked[p] <= asked'[p] /\ asked'[p] \in Nat
      /\ \A p \in Streams : \A j \in 1..asked[p] : mark'[p][j] = mark[p][j]
      /\ k # 0 => k <= asked'[s] /\ mark'[s][k] = n
  <2>1. CASE k = 0
    <3>1. UNCHANGED <<asked, mark>>
      BY <2>1 DEF Hands
    <3>2. MarkInv /\ \A p \in Streams : asked[p] \in Nat
      BY EventParts DEF EventInv
    <3>3. \A p \in Streams : \A j \in 1..asked[p] : mark[p][j] <= n
      <4> SUFFICES ASSUME NEW p \in Streams, NEW j \in 1..asked[p] PROVE mark[p][j] <= n
        OBVIOUS
      <4>1. mark[p][j] \in Nat /\ mark[p][j] <= Len(sub)
        BY <3>2, EventParts DEF MarkInv
      <4> QED  BY <1>0, <4>1
    <3> QED  BY <1>0, <2>1, <3>1, <3>2, <3>3 DEF MarkInv
  <2>2. CASE k # 0
    <3>1. k = asked[s] + 1 /\ Ask(s, n)
      BY <2>2 DEF Hands
    <3>2. Len(sub) <= n
      BY <1>0
    <3>3. /\ \A p \in Streams \ {s} : asked'[p] = asked[p] /\ mark'[p] = mark[p]
          /\ asked'[s] = asked[s] + 1 /\ asked[s] \in Nat
          /\ mark'[s][asked[s] + 1] = n
          /\ \A j \in 1..asked[s] : mark'[s][j] = mark[s][j]
          /\ MarkInv'
      BY <1>0, <3>1, <3>2, Asking
    <3>4. \A p \in Streams : asked[p] <= asked'[p] /\ asked'[p] \in Nat
      <4> SUFFICES ASSUME NEW p \in Streams PROVE asked[p] <= asked'[p] /\ asked'[p] \in Nat
        OBVIOUS
      <4>1. asked[p] \in Nat
        BY EventParts
      <4> QED  BY <3>3, <4>1
    <3>5. \A p \in Streams : \A j \in 1..asked[p] : mark'[p][j] = mark[p][j]
      BY <3>3
    <3>6. k <= asked'[s] /\ mark'[s][k] = n
      BY <3>1, <3>3
    <3> QED  BY <3>3, <3>4, <3>5, <3>6
  <2> QED  BY <2>1, <2>2
<1> HIDE DEF n
<1>5. /\ \A p \in Streams : \A j \in 1..asked[p] : Behind(p, j) => Behind(p, j)'
      /\ \A v \in Values : sub[v].signal # 0 =>
           /\ sub[v].signal <= asked'[sub[v].stream]
           /\ mark'[sub[v].stream][sub[v].signal] = v
      /\ \A t \in Streams : \A e \in open[t].events : e[2] <= asked'[e[1]]
      /\ \A v \in Values : \A e \in sub[v].events :
           e[2] <= asked'[e[1]] /\ (Started(v) => Behind(e[1], e[2])')
  BY <1>0, <1>4, EventKept
<1>6. \A p \in Streams : sem'[p] <= asked'[p]
  <2> SUFFICES ASSUME NEW p \in Streams PROVE sem[p] <= asked'[p]
    BY <1>3
  <2>1. sem[p] \in Nat /\ asked[p] \in Nat /\ sem[p] <= asked[p]
    BY EventParts
  <2> QED  BY <1>4, <2>1
<1>7. ASSUME NEW p \in Streams, NEW j \in 1..asked'[p], j <= sem'[p]
      PROVE  Behind(p, j)'
  <2>1. sem[p] \in Nat /\ asked[p] \in Nat /\ sem[p] <= asked[p] /\ asked'[p] \in Nat
    BY <1>4, EventParts
  <2>2. j \in 1..asked[p] /\ j <= sem[p]
    BY <1>3, <1>7, <2>1
  <2>3. Behind(p, j)
    BY <2>2 DEF EventInv
  <2> QED  BY <1>5, <2>2, <2>3
<1>8. ASSUME NEW v \in Values', sub'[v].signal # 0
      PROVE  /\ sub'[v].signal <= asked'[sub'[v].stream]
             /\ mark'[sub'[v].stream][sub'[v].signal] = v
  BY <1>0, <1>1, <1>4, <1>5, <1>8
<1>9. ASSUME NEW v \in Values', NEW e \in sub'[v].events
      PROVE  e[2] <= asked'[e[1]] /\ (Started(v)' => Behind(e[1], e[2])')
  <2>1. CASE v \in Values
    BY <1>0, <1>5, <1>9, <2>1 DEF Started
  <2>2. CASE v = n
    <3>1. ~Started(v)'
      BY <1>0, <2>2 DEF Started
    <3> QED  BY <1>1, <1>5, <1>9, <2>2, <3>1
  <2> QED  BY <1>0, <2>1, <2>2
<1>10. \A t \in Streams : \A e \in open'[t].events : e[2] <= asked'[e[1]]
  BY <1>2, <1>5
<1> QED  BY <1>4, <1>6, <1>7, <1>8, <1>9, <1>10 DEF EventInv

\* A submission that ends raises its event to the value it was marked for.
LEMMA EventGPU ==
  ASSUME TypeInv, EventInv, NEW w \in Values, GPU(w)
  PROVE  EventInv'
<1>1. /\ UNCHANGED <<sub, open, asked, mark>> /\ Values' = Values
      /\ \A u \in Values : /\ Ended(u) => Ended(u)'
                           /\ Started(u)' /\ ~Started(u) => u = w /\ Start(w)
  BY Advancing DEF Values
<1>2. \A p \in Streams : \A k \in 1..asked[p] : Behind(p, k) => Behind(p, k)'
  BY <1>1, EventParts DEF Behind
<1>3. MarkInv'
  BY <1>1 DEF EventInv, MarkInv
<1>4. ASSUME NEW v \in Values, NEW e \in sub[v].events, Started(v)' PROVE Behind(e[1], e[2])'
  <2>1. e[1] \in Streams /\ e[2] \in 1..asked[e[1]]
    BY EventParts
  <2>2. CASE Started(v)
    BY <1>2, <2>1, <2>2 DEF EventInv
  <2>3. CASE ~Started(v)
    <3>1. e[2] <= sem[e[1]]
      <4>1. sem[e[1]] >= e[2]
        BY <1>1, <1>4, <2>3 DEF Start
      <4>2. sem[e[1]] \in Nat /\ e[2] \in Nat
        BY <2>1, EventParts
      <4> QED  BY <4>1, <4>2
    <3> QED  BY <1>2, <2>1, <3>1 DEF EventInv
  <2> QED  BY <2>2, <2>3
<1>5. CASE sem' = sem
  BY <1>1, <1>2, <1>3, <1>4, <1>5 DEF EventInv
<1>6. CASE sem' # sem
  <2> DEFINE p == sub[w].stream   k == sub[w].signal
  <2>1. /\ k # 0 /\ sem' = [sem EXCEPT ![p] = k]
        /\ stage' = [stage EXCEPT ![w] = "signaled"]
        /\ \A u \in 1..(w - 1) : stage[u] \in {"clean", "refused"}
    BY <1>6 DEF GPU, Start, Signal, Clean, eventVars
  <2>2. p \in Streams /\ k \in Nat /\ w \in Nat /\ k <= asked[p] /\ mark[p][k] = w
    BY <2>1, Parts DEF EventInv
  <2>3. asked[p] \in Nat /\ k \in 1..asked[p]
    BY <2>1, <2>2, EventParts
  <2>4. /\ \A q \in Streams \ {p} : sem'[q] = sem[q]
        /\ sem'[p] = k
    BY <2>1, <2>2 DEF TypeInv, TypeOK
  <2>5. \A u \in Values : u <= w => Ended(u)'
    <3> SUFFICES ASSUME NEW u \in Values, u <= w PROVE Ended(u)'
      OBVIOUS
    <3>1. u \in Nat /\ u >= 1 /\ u \in DOMAIN stage
      BY Parts DEF TypeInv, TypeOK, Values
    <3>2. CASE u = w
      BY <2>1, <3>1, <3>2 DEF Ended
    <3>3. CASE u # w
      <4>1. u \in 1..(w - 1)
        BY <2>2, <3>1, <3>3
      <4>2. Ended(u)
        BY <2>1, <4>1 DEF Ended
      <4> QED  BY <1>1, <4>2
    <3> QED  BY <3>2, <3>3
  <2>6. \A j \in 1..asked[p] : j <= k => mark[p][j] <= w
    BY <2>2, <2>3 DEF EventInv, MarkInv
  <2>7. ASSUME NEW q \in Streams, q = p, NEW j \in 1..asked[q], j <= k PROVE Behind(q, j)'
    <3>0. j \in 1..asked[p]
      BY <2>7
    <3>1. /\ mark[p][j] \in Nat /\ mark[p][j] <= w
          /\ \A u \in 1..mark[p][j] : u \in Values /\ u \in Nat
      BY <2>2, <2>6, <2>7, <3>0, EventParts
    <3>2. \A u \in 1..mark[p][j] : u <= w
      BY <2>2, <3>1
    <3>3. mark'[q][j] = mark[p][j]
      BY <1>1, <2>7
    <3> QED  BY <2>5, <3>1, <3>2, <3>3 DEF Behind
  <2>8. \A q \in Streams : \A j \in 1..asked[q] : j <= sem'[q] => Behind(q, j)'
    <3> SUFFICES ASSUME NEW q \in Streams, NEW j \in 1..asked[q], j <= sem'[q]
                 PROVE  Behind(q, j)'
      OBVIOUS
    <3>1. CASE q = p
      <4>1. j <= k
        BY <2>4, <3>1
      <4> QED  BY <2>7, <3>1, <4>1
    <3>2. CASE q # p
      BY <1>2, <2>4, <3>2 DEF EventInv
    <3> QED  BY <3>1, <3>2
  <2>9. \A q \in Streams : sem'[q] <= asked[q]
    BY <2>2, <2>4 DEF EventInv
  <2> QED  BY <1>1, <1>3, <1>4, <2>8, <2>9 DEF EventInv
<1> QED  BY <1>5, <1>6

----------------------------------------------------------------------------
(* The count of quarantined buffers that no submission took over.          *)

Owing == {b \in Buffers : place[b] = "quarantine" /\ stamp[b] = Pending}

\* The quarantined buffers of open batches can be counted.
LEMMA OwingIsFinite == IsFiniteSet(Owing) /\ Cardinality(Owing) \in Nat
<1>1. Owing \in SUBSET Buffers /\ IsFiniteSet(Buffers)
  BY BoundsAssumption DEF Owing
<1> QED  BY <1>1, FS_Subset, FS_CardinalityType

\* Every step keeps the count of what is owed.
LEMMA OwedStep ==
  ASSUME TypeInv, OwedIsExact, [Next]_vars
  PROVE  OwedIsExact'
<1>0. /\ stamp \in [Buffers -> 0..Pending] /\ Pending \in Nat /\ Pending > 0
      /\ place \in [Buffers -> {"free", "held", "quarantine"}]
      /\ drained \in Nat /\ counter \in Nat /\ drained <= counter /\ counter < Pending
  BY BoundsAssumption DEF TypeInv, TypeOK, Pending
<1>1. owed = Cardinality(Owing)
  BY DEF OwedIsExact, Owing
<1> SUFFICES owed' = Cardinality(Owing')
  BY DEF OwedIsExact, Owing, Pending
<1>2. Owing' = {b \in Buffers : place'[b] = "quarantine" /\ stamp'[b] = Pending}
  BY DEF Owing, Pending
<1>3. ASSUME \A b \in Buffers : (place'[b] = "quarantine" /\ stamp'[b] = Pending)
                                  <=> (place[b] = "quarantine" /\ stamp[b] = Pending),
             owed' = owed
      PROVE  owed' = Cardinality(Owing')
  <2>1. Owing' = Owing
    BY <1>2, <1>3 DEF Owing
  <2> QED  BY <1>1, <1>3, <2>1
<1>4. ASSUME NEW s \in Streams, NEW b \in Buffers, Record(s, b)
      PROVE  owed' = Cardinality(Owing')
  <2>1. place[b] = "held" /\ stamp' = [stamp EXCEPT ![b] = Pending] /\ UNCHANGED <<place, owed>>
    BY <1>4 DEF Record
  <2> QED  BY <1>0, <1>3, <2>1
<1>5. ASSUME NEW s \in Streams, NEW k \in 0..MaxSignals, Hands(s, k)
      PROVE  owed' = Cardinality(Owing')
  <2>1. /\ owed' = Cardinality({b \in Buffers : place[b] = "quarantine" /\ stamp'[b] = Pending})
        /\ UNCHANGED place
    BY <1>5 DEF Hands, Submit, Refuse, StampBatch
  <2> QED  BY <1>2, <2>1
<1>6. CASE Drain
  <2>1. PICK v \in handled + 1 .. counter :
          /\ place' = [b \in Buffers |->
                         IF b \in Releasable(v - 1) THEN "free" ELSE place[b]]
          /\ stamp' = [b \in Buffers |-> IF b \in Releasable(v - 1) THEN 0 ELSE stamp[b]]
          /\ UNCHANGED owed
    BY <1>6 DEF Drain
  <2>2. v \in Nat /\ v < Pending
    BY <1>0 DEF TypeInv, TypeOK
  <2>3. \A b \in Releasable(v - 1) : stamp[b] # Pending
    BY <1>0, <2>2 DEF Releasable
  <2>4. \A b \in Buffers : (place'[b] = "quarantine" /\ stamp'[b] = Pending)
                             <=> (place[b] = "quarantine" /\ stamp[b] = Pending)
    BY <1>0, <2>1, <2>3
  <2> QED  BY <1>3, <2>1, <2>4
<1>7. ASSUME NEW b \in Buffers, Malloc(b) PROVE owed' = Cardinality(Owing')
  <2>1. place[b] = "free" /\ place' = [place EXCEPT ![b] = "held"] /\ UNCHANGED <<stamp, owed>>
    BY <1>7 DEF Malloc
  <2> QED  BY <1>0, <1>3, <2>1
<1>8. ASSUME NEW b \in Buffers, Free(b) PROVE owed' = Cardinality(Owing')
  <2>0. place[b] = "held"
    BY <1>8 DEF Free
  <2>1. CASE ~MustWait(b)
    <3>1. /\ place' = [place EXCEPT ![b] = "free"] /\ stamp' = [stamp EXCEPT ![b] = 0]
          /\ UNCHANGED owed
      BY <1>8, <2>1 DEF Free
    <3> QED  BY <1>0, <1>3, <2>0, <3>1
  <2>2. CASE MustWait(b) /\ stamp[b] # Pending
    <3>1. place' = [place EXCEPT ![b] = "quarantine"] /\ UNCHANGED <<stamp, owed>>
      BY <1>8, <2>2 DEF Free
    <3> QED  BY <1>0, <1>3, <2>0, <2>2, <3>1
  <2>3. CASE MustWait(b) /\ stamp[b] = Pending
    <3>1. place' = [place EXCEPT ![b] = "quarantine"] /\ stamp' = stamp /\ owed' = owed + 1
      BY <1>8, <2>3 DEF Free
    <3>2. Owing' = Owing \cup {b} /\ b \notin Owing
      BY <1>0, <1>2, <2>0, <2>3, <3>1 DEF Owing
    <3>3. Cardinality(Owing \cup {b}) = Cardinality(Owing) + 1
      BY <3>2, OwingIsFinite, FS_AddElement
    <3> QED  BY <1>1, <3>1, <3>2, <3>3
  <2> QED  BY <2>1, <2>2, <2>3
<1>9. CASE UNCHANGED <<place, stamp, owed>>
  BY <1>3, <1>9
<1>10. ASSUME NEW s \in Streams, Encoder(s) PROVE owed' = Cardinality(Owing')
  <2>1. ASSUME NEW p \in Streams, WaitEvent(s, p) PROVE UNCHANGED <<place, stamp, owed>>
    BY <2>1 DEF WaitEvent, bufferVars
  <2>2. WaitOutstanding(s) \/ SignalFromHost(s) \/ Join(s) => UNCHANGED <<place, stamp, owed>>
    BY DEF WaitOutstanding, SignalFromHost, Join, bufferVars
  <2> QED  BY <1>4, <1>5, <1>9, <1>10, <2>1, <2>2, HandingSteps DEF Encoder
<1>11. ASSUME NEW v \in Values, GPU(v) PROVE UNCHANGED <<place, stamp, owed>>
  BY <1>11, Advancing
<1>12. Publish => UNCHANGED <<place, stamp, owed>>
  BY DEF Publish, bufferVars
<1>13. UNCHANGED vars => UNCHANGED <<place, stamp, owed>>
  BY DEF vars, bufferVars
<1> QED
  BY <1>6, <1>7, <1>8, <1>9, <1>10, <1>11, <1>12, <1>13 DEF Next, Dispatcher

----------------------------------------------------------------------------
(* The inductive invariant holds, and what follows from it.                *)

\* The invariant holds before the first operation.
LEMMA InvInit == Init => IInv
<1> SUFFICES ASSUME Init PROVE IInv
  OBVIOUS
<1>1. TypeInv
  BY TypeInit
<1>2. Values = {} /\ Len(sub) = 0
  BY DEF Init, Values
<1>3. \A s \in Streams : open[s] = EmptyBatch
  BY DEF Init
<1>4. BufferInv /\ OrderInv /\ RingInv
  BY <1>2, <1>3 DEF BufferInv, OrderInv, RingInv, EmptyBatch
<1>5. /\ asked = [s \in Streams |-> 0] /\ sem = [s \in Streams |-> 0]
      /\ mark = [s \in Streams |-> <<>>]
  BY DEF Init
<1>6. MarkInv
  BY <1>2, <1>5 DEF MarkInv
<1>7. EventInv
  BY <1>2, <1>3, <1>5, <1>6 DEF EventInv, EmptyBatch
<1>8. OwedIsExact
  <2>1. {b \in Buffers : place[b] = "quarantine" /\ stamp[b] = Pending} = {}
    BY DEF Init
  <2> QED  BY <2>1, FS_EmptySet DEF Init, OwedIsExact
<1> QED  BY <1>1, <1>4, <1>7, <1>8 DEF IInv, OrderedInv

\* The types need no assumption on what the batches share.
LEMMA TypeStep ==
  ASSUME TypeInv, [Next]_vars
  PROVE  TypeInv'
<1>1. ASSUME NEW s \in Streams, Encoder(s) PROVE TypeInv'
  <2>1. ASSUME NEW k \in 0..MaxSignals, Hands(s, k) PROVE TypeInv'
    <3>1. asked \in [Streams -> 0..MaxSignals] /\ queued \in [Streams -> BOOLEAN]
      BY DEF TypeInv, TypeOK
    <3>2. asked' \in [Streams -> 0..MaxSignals] /\ queued' \in [Streams -> BOOLEAN]
      <4>1. CASE k = 0
        BY <2>1, <3>1, <4>1 DEF Hands
      <4>2. CASE k # 0
        <5>1. asked[s] + 1 \in 0..MaxSignals
          BY <2>1, <4>2 DEF Hands
        <5> QED  BY <2>1, <3>1, <4>2, <5>1 DEF Hands, Ask
      <4> QED  BY <4>1, <4>2
    <3> QED  BY <2>1, <3>2, TypeSubmit DEF Hands
  <2> QED  BY <1>1, <2>1, HandingSteps, TypeEncoder DEF Encoder
<1>2. CASE UNCHANGED vars
  BY <1>2 DEF vars, batchVars, queueVars, drainVars, bufferVars, eventVars, TypeInv,
       TypeOK, Timeline, Reserved, Ended, Values
<1> QED  BY <1>1, <1>2, TypeGPU, TypeHost DEF Next

\* Every step keeps the order of the submissions and of the events.
LEMMA OrderedStep ==
  ASSUME OrderedInv, [Next]_vars
  PROVE  OrderedInv'
<1> USE DEF OrderedInv
<1>1. TypeInv' /\ OwedIsExact'
  BY TypeStep, OwedStep
<1> SUFFICES OrderInv' /\ RingInv' /\ EventInv'
  BY <1>1
<1>0. drained' \in Nat /\ drained \in Nat /\ drained <= drained
  BY <1>1 DEF TypeInv, TypeOK
<1>2. ASSUME NEW s \in Streams, NEW b \in Buffers, Record(s, b)
      PROVE  OrderInv' /\ RingInv' /\ EventInv'
  <2>1. UNCHANGED <<last, sub, stage, counter, drained>>
    BY <1>2 DEF Record, queueVars, drainVars
  <2> QED  BY <1>0, <1>2, <2>1, OrderQuiet, RingRecord, EventEncoder
<1>3. ASSUME NEW s \in Streams, NEW k \in 0..MaxSignals, Hands(s, k)
      PROVE  OrderInv' /\ RingInv' /\ EventInv'
  BY <1>3, OrderHands, RingHands, EventHands
<1>4. ASSUME NEW s \in Streams, NEW p \in Streams, WaitEvent(s, p)
      PROVE  OrderInv' /\ RingInv' /\ EventInv'
  <2>1. UNCHANGED <<last, inFlight, sub, stage, counter, handled, drained, place, stamp>>
    BY <1>4 DEF WaitEvent, queueVars, drainVars, bufferVars
  <2>2. \A t \in Streams : open'[t].slot = open[t].slot /\ open'[t].bufs = open[t].bufs
    BY <1>4, Waiting DEF TypeInv
  <2>4. RingInv'
    BY <2>1, <2>2, Parts DEF RingInv, Accepted, Values
  <2> QED  BY <1>0, <1>4, <2>1, <2>4, OrderQuiet, EventEncoder
<1>5. ASSUME NEW s \in Streams, WaitOutstanding(s)
      PROVE  OrderInv' /\ RingInv' /\ EventInv'
  <2>1. UNCHANGED <<last, inFlight, sub, stage, counter, handled, drained, place, stamp>>
    BY <1>5 DEF WaitOutstanding, queueVars, drainVars, bufferVars
  <2>2. \A t \in Streams : open'[t].slot = open[t].slot /\ open'[t].bufs = open[t].bufs
    BY <1>5, WaitingAll DEF TypeInv
  <2>4. RingInv'
    BY <2>1, <2>2, Parts DEF RingInv, Accepted, Values
  <2> QED  BY <1>0, <1>5, <2>1, <2>4, OrderQuiet, EventEncoder
<1>6. ASSUME NEW s \in Streams, SignalFromHost(s)
      PROVE  OrderInv' /\ RingInv' /\ EventInv'
  <2>1. UNCHANGED <<open, last, inFlight, sub, stage, counter, drained, place, stamp>>
    BY <1>6 DEF SignalFromHost, batchVars, queueVars, drainVars, bufferVars
  <2>2. RingInv'
    BY <2>1 DEF RingInv, Accepted, Values
  <2> QED  BY <1>0, <1>6, <2>1, <2>2, OrderQuiet, EventFromHost
<1>7. ASSUME NEW s \in Streams, Join(s)
      PROVE  OrderInv' /\ RingInv' /\ EventInv'
  <2>1. /\ UNCHANGED <<open, inFlight, sub, stage, counter, drained, place, stamp>>
        /\ last' = [last EXCEPT ![s] = 0] /\ last[s] <= drained
    BY <1>7 DEF Join, queueVars, drainVars, bufferVars
  <2>2. RingInv'
    BY <2>1 DEF RingInv, Accepted, Values
  <2>3. OrderInv'
    <3>1. ASSUME NEW v \in Values, Accepted(v)
          PROVE  v <= last'[sub[v].stream] \/ v <= drained
      <4>1. /\ v <= last[sub[v].stream] \/ v <= drained
            /\ v \in Nat /\ sub[v].stream \in Streams
        BY <3>1, Parts DEF OrderInv
      <4>2. last \in [Streams -> 0..MaxSubmits]
        BY DEF TypeInv, TypeOK
      <4>3. CASE sub[v].stream = s
        <5>1. last[s] \in Nat
          BY <4>2, BoundsAssumption
        <5> QED  BY <1>0, <2>1, <4>1, <4>3, <5>1
      <4>4. CASE sub[v].stream # s
        <5>1. last'[sub[v].stream] = last[sub[v].stream]
          BY <2>1, <4>1, <4>2, <4>4
        <5> QED  BY <4>1, <5>1
      <4> QED  BY <4>3, <4>4
    <3> QED  BY <2>1, <3>1 DEF OrderInv, Accepted, Started, Ended, Values
  <2> QED  BY <1>7, <2>1, <2>2, <2>3, EventEncoder
<1>8. ASSUME NEW w \in Values, GPU(w)
      PROVE  OrderInv' /\ RingInv' /\ EventInv'
  <2>1. /\ UNCHANGED <<sub, open, inFlight, drained>> /\ Values' = Values
        /\ \A u \in Values : Accepted(u)' <=> Accepted(u)
    BY <1>8, Advancing DEF Values
  <2>2. RingInv'
    BY <2>1 DEF RingInv
  <2> QED  BY <1>8, <2>2, OrderGPU, EventGPU
<1>9. ASSUME Dispatcher \/ \E b \in Buffers : Malloc(b) \/ Free(b)
      PROVE  OrderInv' /\ RingInv' /\ EventInv'
  <2>1. /\ UNCHANGED <<open, last, inFlight, sub, stage, counter, asked, sem, mark>>
        /\ drained' = drained \/ drained' = handled
    BY <1>9 DEF Dispatcher, Drain, Publish, Malloc, Free, batchVars, queueVars, drainVars,
         eventVars
  <2>2. drained <= drained'
    BY <2>1 DEF TypeInv, TypeOK
  <2>3. RingInv'
    <3>1. \A v \in Values : v <= drained => v <= drained'
      BY <1>0, <2>2, Parts
    <3> QED  BY <2>1, <3>1 DEF RingInv, Accepted, Values
  <2>4. \A t \in Streams : \A e \in open[t].events : e[2] <= asked[e[1]]
    BY DEF EventInv
  <2> QED  BY <1>0, <1>9, <2>1, <2>2, <2>3, <2>4, OrderQuiet, EventQuiet
<1>10. CASE UNCHANGED vars
  <2>1. UNCHANGED <<open, last, inFlight, sub, stage, counter, drained, place, stamp>>
        /\ UNCHANGED <<asked, sem, mark>>
    BY <1>10 DEF vars, batchVars, queueVars, drainVars, bufferVars, eventVars
  <2>2. RingInv'
    BY <2>1 DEF RingInv, Accepted, Values
  <2>3. \A t \in Streams : \A e \in open[t].events : e[2] <= asked[e[1]]
    BY DEF EventInv
  <2> QED  BY <1>0, <2>1, <2>2, <2>3, OrderQuiet, EventQuiet
<1>11. ASSUME NEW s \in Streams, Encoder(s)
       PROVE  OrderInv' /\ RingInv' /\ EventInv'
  BY <1>2, <1>3, <1>4, <1>5, <1>6, <1>7, <1>11, HandingSteps DEF Encoder
<1> QED  BY <1>8, <1>9, <1>10, <1>11 DEF Next

\* The buffers are left alone by what does not record, submit, run or free.
LEMMA BufferKept ==
  ASSUME TypeInv, BufferInv, NEW s \in Streams,
         \/ \E p \in Streams : WaitEvent(s, p)
         \/ WaitOutstanding(s) \/ SignalFromHost(s) \/ Join(s)
  PROVE  BufferInv'
<1>1. UNCHANGED <<sub, stage, place, stamp>>
  BY DEF WaitEvent, WaitOutstanding, SignalFromHost, Join, queueVars, bufferVars
<1>2. \A t \in Streams : open'[t].bufs = open[t].bufs
  <2>1. ASSUME NEW p \in Streams, WaitEvent(s, p)
        PROVE  \A t \in Streams : open'[t].bufs = open[t].bufs
    BY <2>1, Waiting DEF TypeInv
  <2>2. CASE WaitOutstanding(s)
    BY <2>2, WaitingAll DEF TypeInv
  <2>3. CASE SignalFromHost(s) \/ Join(s)
    BY <2>3 DEF SignalFromHost, Join, batchVars
  <2> QED  BY <2>1, <2>2, <2>3
<1> QED  BY <1>1, <1>2 DEF BufferInv, Values

\* No step lets go of a buffer the queue may still touch, if no two open batches
\* record the same one.
LEMMA BufferStep ==
  ASSUME TypeInv, BufferInv, ~Shared, [Next]_vars
  PROVE  BufferInv'
<1>1. ASSUME NEW s \in Streams, Encoder(s) PROVE BufferInv'
  BY <1>1, HandingSteps, BufferRecord, BufferHands, BufferKept DEF Encoder
<1>2. CASE UNCHANGED vars
  BY <1>2, BufferQuiet DEF vars, batchVars, queueVars, bufferVars
<1> QED  BY <1>1, <1>2, BufferGPU, BufferHost DEF Next

\* The types and the count of owed bytes hold on their own.
LEMMA TypeAlways == Spec => [](TypeInv /\ OwedIsExact)
<1>1. Init => TypeInv /\ OwedIsExact
  BY InvInit DEF IInv, OrderedInv
<1>2. TypeInv /\ OwedIsExact /\ [Next]_vars => (TypeInv /\ OwedIsExact)'
  BY TypeStep, OwedStep
<1> QED  BY <1>1, <1>2, PTL DEF Spec

\* The order holds whatever the batches record.
LEMMA OrderedAlways == Spec => []OrderedInv
<1>1. Init => OrderedInv
  BY InvInit DEF IInv
<1> QED  BY <1>1, OrderedStep, PTL DEF Spec

\* The types of the encoders, the queue and the allocator, and the order of the
\* four counters of the one timeline: drained, handled, signalled, reserved.
THEOREM TypeCorrect == Spec => []TypeOK
<1>1. TypeInv => TypeOK
  BY DEF TypeInv
<1> QED  BY <1>1, TypeAlways, PTL

\* However the submissions, their signals and the polls interleave, a completion
\* handler runs only after the GPU has finished what it reports.
THEOREM HandlersAlways == Spec => []HandlersAfterWork
<1>1. TypeInv => HandlersAfterWork
  <2>1. ASSUME TypeInv PROVE \A v \in 1..handled : v \in 1..counter
    BY <2>1 DEF TypeInv, TypeOK
  <2> QED  BY <2>1 DEF TypeInv, Timeline, HandlersAfterWork
<1> QED  BY <1>1, TypeAlways, PTL

\* The byte budget that makes eval() flush a batch is the exact sum of what the
\* open batches keep in quarantine, whoever freed it in between.
THEOREM OwedAlways == Spec => []OwedIsExact
BY TypeAlways, PTL

\* A command buffer begun again belongs to no submission the queue still runs:
\* ensure_recording() and the ring, for every size of it.
THEOREM SlotAlways == Spec => []SlotIsFree
<1>1. OrderedInv => SlotIsFree
  <2> SUFFICES ASSUME OrderedInv, NEW s \in Streams, NEW v \in Values,
                      open[s].slot # 0, sub[v].stream = s, sub[v].slot = open[s].slot
               PROVE  stage[v] \in {"signaled", "clean", "refused"}
    BY DEF SlotIsFree
  <2>1. CASE ~Accepted(v)
    BY <2>1 DEF Accepted
  <2>2. CASE Accepted(v)
    <3>1. v <= drained
      BY <2>2 DEF OrderedInv, RingInv
    <3> QED  BY <3>1, DrainedIsOver DEF OrderedInv, Ended
  <2> QED  BY <2>1, <2>2
<1> QED  BY <1>1, OrderedAlways, PTL

\* A stream's submissions never overlap, although nothing but their semaphore
\* waits orders them and a join drops the value they would wait for.
THEOREM InOrderAlways == Spec => []InOrder
<1>1. OrderedInv => InOrder
  <2> SUFFICES ASSUME OrderedInv, NEW u \in Values, NEW v \in Values,
                      u < v, sub[u].stream = sub[v].stream, Started(v)
               PROVE  Ended(u)
    BY DEF InOrder, Started
  <2>1. CASE ~Accepted(u)
    BY <2>1 DEF Accepted, Ended
  <2>2. CASE Accepted(u) /\ u <= sub[v].after
    <3>1. sub[v].after <= counter /\ u \in Nat /\ u >= 1
      BY Parts DEF OrderedInv, OrderInv
    <3>2. sub[v].after \in Nat /\ counter \in Nat
      BY Parts DEF OrderedInv, TypeInv, TypeOK
    <3>3. u \in 1..counter
      BY <2>2, <3>1, <3>2
    <3> QED  BY <3>3 DEF OrderedInv, TypeInv, Timeline
  <2> QED  BY <2>1, <2>2 DEF OrderedInv, OrderInv
<1> QED  BY <1>1, OrderedAlways, PTL

\* What waits for an event, or for everything outstanding, starts after all that
\* its producer had submitted when the value was asked for, whether the value is
\* published by the queue or from the host.
THEOREM ConsumerAlways == Spec => []ConsumerAfterProducer
<1>1. OrderedInv => ConsumerAfterProducer
  <2> SUFFICES ASSUME OrderedInv, NEW v \in Values, Started(v)
               PROVE  /\ \A u \in 1..sub[v].floor : Ended(u)
                      /\ \A e \in sub[v].events : \A u \in 1..mark[e[1]][e[2]] :
                           sub[u].stream = e[1] => Ended(u)
    BY DEF ConsumerAfterProducer, Started
  <2>1. sub[v].floor <= counter /\ sub[v].floor \in Nat /\ counter \in Nat
    BY Parts DEF OrderedInv, OrderInv, TypeInv, TypeOK
  <2>2. \A u \in 1..sub[v].floor : u \in 1..counter
    BY <2>1
  <2>3. \A u \in 1..sub[v].floor : Ended(u)
    BY <2>2 DEF OrderedInv, TypeInv, Timeline
  <2> QED  BY <2>3 DEF OrderedInv, EventInv, Behind
<1> QED  BY <1>1, OrderedAlways, PTL

\* If no two open batches record the same buffer, memory that was freed is given
\* to somebody else only after the queue, and the driver's cleaning up, are done
\* with it.  MCSharedBuffer.cfg shows that the assumption cannot be dropped.
THEOREM NoLiveReuseAlways == ~Shared => (Spec => []NoLiveReuse)
<1> SUFFICES ASSUME ~Shared PROVE Spec => []NoLiveReuse
  OBVIOUS
<1>1. Init => TypeInv /\ BufferInv
  BY InvInit DEF IInv, OrderedInv
<1>2. TypeInv /\ BufferInv /\ [Next]_vars => (TypeInv /\ BufferInv)'
  BY TypeStep, BufferStep
<1>3. TypeInv /\ BufferInv => NoLiveReuse
  BY DEF BufferInv, NoLiveReuse
<1> QED  BY <1>1, <1>2, <1>3, PTL DEF Spec
=============================================================================
