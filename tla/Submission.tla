----------------------------- MODULE Submission -----------------------------
(***************************************************************************)
(* Asynchronous submission on the one Vulkan queue of the omarchy backend  *)
(* (overlay/mlx/backend/omarchy: encoder, allocator, device, event).       *)
(*                                                                         *)
(* A stream records operations into an open command buffer, taken from a   *)
(* small ring, and commits it without waiting: under the queue's mutex the *)
(* submission gets the next value of one completion timeline.  A           *)
(* dispatcher drains the timeline, runs the submissions' handlers and      *)
(* lets the allocator recycle the buffers that were freed meanwhile.       *)
(* Events order one stream's submissions after another's.                  *)
(*                                                                         *)
(* Time, the bytes of a buffer and the barriers inside one command buffer  *)
(* are left out.  The queue and the driver are external: see GPU below.    *)
(***************************************************************************)
EXTENDS Naturals, Sequences, FiniteSets

CONSTANTS Streams,      \* GPU streams, one encoder and one thread each
          Buffers,      \* device buffers
          Ring,         \* command buffers per stream (the code has 4)
          Producers,    \* the streams whose event is signalled
          Drains,       \* the streams that order themselves after all work
          Shared,       \* may two open batches record the same buffer?
          MaxSubmits,   \* bound on the values reserved
          MaxSignals,   \* bound on one event's value
          MaxRefusals   \* bound on submissions the driver refuses

ASSUME BoundsAssumption ==
  /\ Ring \in Nat \ {0}
  /\ MaxSubmits \in Nat /\ MaxSignals \in Nat /\ MaxRefusals \in Nat
  /\ IsFiniteSet(Buffers)
  /\ Shared \in BOOLEAN /\ Producers \subseteq Streams /\ Drains \subseteq Streams

VARIABLES open,       \* the batch a stream is recording
          last,       \* last_completion_ of a stream's encoder, 0 when joined
          inFlight,   \* the value each slot of a stream's ring was submitted as
          sub,        \* the submissions, by completion value
          stage,      \* how far the queue has got with each
          counter,    \* the completion timeline
          handled,    \* newest completion taken from pending_, its handlers run
          drained,    \* drained_value_
          place,      \* where a buffer is: held by an array, quarantined, free
          stamp,      \* VulkanBuffer::completion
          owed,       \* pending_quarantine_bytes_, in buffers
          asked,      \* the value each stream's event was last signalled with
          sem,        \* the semaphore of each stream's event
          queued,     \* EventImpl::queued_signal
          mark        \* history: what had been submitted when a value was asked

batchVars == <<open, last, inFlight>>
queueVars == <<sub, stage, counter>>
drainVars == <<handled, drained>>
bufferVars == <<place, stamp, owed>>
eventVars == <<asked, sem, queued, mark>>
vars == <<batchVars, queueVars, drainVars, bufferVars, eventVars>>

Pending == MaxSubmits + 1       \* kPendingCompletion: above every value
Values == DOMAIN sub
EmptyBatch == [slot |-> 0, bufs |-> {}, events |-> {}, floor |-> 0]

\* A submission the queue has nothing left to run of.
Ended(v) == stage[v] \in {"signaled", "clean", "refused"}

-----------------------------------------------------------------------------
\* Recording

\* A ring slot can be begun again when its submission has drained; with all of
\* them in flight the thread waits for one.
SlotFree(s, i) == inFlight[s][i] <= drained

\* idle() and synchronized() of the encoder.
Idle(s) == open[s] = EmptyBatch
Synchronized(s) == open[s].slot = 0 /\ last[s] <= drained

Recorded(batch, i, b) ==
  [slot |-> i, bufs |-> batch.bufs \union {b}, events |-> batch.events,
   floor |-> batch.floor]

\* eval(): the batch opens with the first operation, and every buffer a
\* dispatch binds is stamped as belonging to an open batch.
Record(s, b) ==
  /\ place[b] = "held"
  /\ b \notin open[s].bufs
  /\ Shared \/ \A t \in Streams \ {s} : b \notin open[t].bufs
  /\ \/ /\ open[s].slot # 0
        /\ open' = [open EXCEPT ![s] = Recorded(open[s], open[s].slot, b)]
        /\ UNCHANGED inFlight
     \/ /\ open[s].slot = 0
        /\ \E i \in 1..Ring :
             /\ SlotFree(s, i)
             /\ open' = [open EXCEPT ![s] = Recorded(open[s], i, b)]
             /\ inFlight' = [inFlight EXCEPT ![s][i] = 0]
  /\ stamp' = [stamp EXCEPT ![b] = Pending]
  /\ UNCHANGED <<last, queueVars, drainVars, place, owed, eventVars>>

\* Event::wait(Stream) and Fence::wait: the stream's next submission waits for
\* the newest value the other stream's event was signalled with.
WaitEvent(s, p) ==
  /\ s # p
  /\ asked[p] # 0
  /\ <<p, asked[p]>> \notin open[s].events
  /\ open' = [open EXCEPT ![s].events = @ \union {<<p, asked[p]>>}]
  /\ UNCHANGED <<last, inFlight, queueVars, drainVars, bufferVars,
                 eventVars>>

\* wait_outstanding_submissions(): the next submission waits for every value
\* reserved so far.
WaitOutstanding(s) ==
  /\ s \in Drains
  /\ Len(sub) > open[s].floor
  /\ open' = [open EXCEPT ![s].floor = Len(sub)]
  /\ UNCHANGED <<last, inFlight, queueVars, drainVars, bufferVars,
                 eventVars>>

-----------------------------------------------------------------------------
\* Submitting, under the queue's mutex

\* What stream s hands to the queue, with event value k signalled by it (0: none).
Batch(s, k) ==
  [stream |-> s, slot |-> open[s].slot, bufs |-> open[s].bufs,
   events |-> open[s].events, floor |-> open[s].floor,
   after |-> last[s], signal |-> k]

\* stamp_batch() of the value just reserved, and the recount of the quarantined
\* buffers that still belong to an open batch.
StampBatch(s) ==
  /\ stamp' = [b \in Buffers |->
                 IF b \in open[s].bufs THEN Len(sub) + 1 ELSE stamp[b]]
  /\ owed' = Cardinality({b \in Buffers : /\ place[b] = "quarantine"
                                          /\ stamp'[b] = Pending})
  /\ UNCHANGED place

\* submit() accepted by the driver.
Submit(s, k) ==
  /\ Len(sub) < MaxSubmits
  /\ sub' = Append(sub, Batch(s, k))
  /\ stage' = Append(stage, "queued")
  /\ StampBatch(s)
  /\ last' = [last EXCEPT ![s] = Len(sub) + 1]
  /\ inFlight' = IF open[s].slot = 0 THEN inFlight
                 ELSE [inFlight EXCEPT ![s][open[s].slot] = Len(sub) + 1]
  /\ open' = [open EXCEPT ![s] = EmptyBatch]
  /\ UNCHANGED <<counter, drainVars>>

\* submit() with QueueSubmit failing: the batch, its waits and its handlers are
\* dropped, and the reserved value gets an entry without handlers.
Refuse(s, k) ==
  /\ Len(sub) < MaxSubmits
  /\ Cardinality({v \in Values : stage[v] = "refused"}) < MaxRefusals
  /\ sub' = Append(sub, Batch(s, k))
  /\ stage' = Append(stage, "refused")
  /\ StampBatch(s)
  /\ open' = [open EXCEPT ![s] = EmptyBatch]
  /\ UNCHANGED <<last, inFlight, counter, drainVars>>

\* commit(): nothing to do for an encoder that holds nothing.
Commit(s) ==
  /\ ~Idle(s)
  /\ Submit(s, 0) \/ Refuse(s, 0)
  /\ UNCHANGED eventVars

-----------------------------------------------------------------------------
\* Event::signal(Stream) on a GPU stream, and Fence::update

\* Mutant: idle() alone decides, whatever the stream still has in flight.
FromHostIdle(s) == Idle(s)

\* The value may be published from the host only by a stream that owes nothing.
FromHost(s) == ~queued[s] /\ Idle(s) /\ Synchronized(s)

Ask(s, through) ==
  /\ s \in Producers
  /\ asked[s] < MaxSignals
  /\ asked' = [asked EXCEPT ![s] = @ + 1]
  /\ mark' = [mark EXCEPT ![s] = Append(@, through)]

SignalFromHost(s) ==
  /\ FromHost(s)
  /\ Ask(s, Len(sub))
  /\ sem' = [sem EXCEPT ![s] = asked[s] + 1]
  /\ UNCHANGED <<batchVars, queueVars, drainVars, bufferVars, queued>>

\* Otherwise the signal rides the stream's next submission, made at once.
SignalQueued(s) ==
  /\ ~FromHost(s)
  /\ Ask(s, Len(sub) + 1)
  /\ queued' = [queued EXCEPT ![s] = TRUE]
  /\ Submit(s, asked[s] + 1) \/ Refuse(s, asked[s] + 1)
  /\ UNCHANGED sem

-----------------------------------------------------------------------------
\* Joining

\* join_last_completion(): the thread is blocked, so that this step is not
\* enabled, until the stream's newest submission has drained.
Join(s) ==
  /\ Idle(s)
  /\ last[s] # 0
  /\ last[s] <= drained
  /\ last' = [last EXCEPT ![s] = 0]
  /\ UNCHANGED <<open, inFlight, queueVars, drainVars, bufferVars, eventVars>>

-----------------------------------------------------------------------------
\* GPU (external).  A submission starts once its semaphore waits are satisfied
\* and is ordered with the others by nothing else.  It signals when its work and
\* that of every earlier one has ended, in the order of the values; the driver
\* cleans up after it later, but before the next signal.

Start(v) ==
  /\ stage[v] = "queued"
  /\ sub[v].after <= counter
  /\ sub[v].floor <= counter
  /\ \A e \in sub[v].events : sem[e[1]] >= e[2]
  /\ stage' = [stage EXCEPT ![v] = "running"]
  /\ UNCHANGED <<batchVars, sub, counter, drainVars, bufferVars, eventVars>>

Signal(v) ==
  /\ stage[v] = "running"
  /\ \A u \in 1..(v - 1) : stage[u] \in {"clean", "refused"}
  /\ stage' = [stage EXCEPT ![v] = "signaled"]
  /\ counter' = v
  /\ sem' = IF sub[v].signal = 0 THEN sem
            ELSE [sem EXCEPT ![sub[v].stream] = sub[v].signal]
  /\ UNCHANGED <<batchVars, sub, drainVars, bufferVars, asked, queued, mark>>

Clean(v) ==
  /\ stage[v] = "signaled"
  /\ stage' = [stage EXCEPT ![v] = "clean"]
  /\ UNCHANGED <<batchVars, sub, counter, drainVars, bufferVars, eventVars>>

GPU(v) == Start(v) \/ Signal(v) \/ Clean(v)

-----------------------------------------------------------------------------
\* The dispatcher: drain_through(), by its own thread or by one that waits, one
\* at a time under drain_mutex_

\* Mutant: the submission just seen counts as cleaned up after.
ReleasableAtOnce(through) ==
  {b \in Buffers : place[b] = "quarantine" /\ stamp[b] <= through + 1}

\* release_quarantine(): what the driver has cleaned up after by the time value
\* through + 1 is seen.
Releasable(through) ==
  {b \in Buffers : place[b] = "quarantine" /\ stamp[b] <= through}

\* Take the pending completions the timeline has reached (a waiting thread: those
\* up to the value it waits for), run their handlers, release the quarantine.
Drain ==
  /\ handled = drained
  /\ \E v \in handled + 1 .. counter :
       /\ handled' = v
       /\ place' = [b \in Buffers |->
                      IF b \in Releasable(v - 1) THEN "free" ELSE place[b]]
       /\ stamp' = [b \in Buffers |->
                      IF b \in Releasable(v - 1) THEN 0 ELSE stamp[b]]
  /\ UNCHANGED <<batchVars, queueVars, drained, owed, eventVars>>

\* Mutant: the drained value is published one generation late.
PublishLate ==
  /\ drained + 1 < handled
  /\ drained' = handled - 1
  /\ UNCHANGED <<batchVars, queueVars, handled, bufferVars, eventVars>>

Publish ==
  /\ drained # handled
  /\ drained' = handled
  /\ UNCHANGED <<batchVars, queueVars, handled, bufferVars, eventVars>>

Dispatcher == Drain \/ Publish

-----------------------------------------------------------------------------
\* The allocator.  A buffer in the reuse cache and one that was destroyed are
\* both "free": its bytes may be anybody's next.

Malloc(b) ==
  /\ place[b] = "free"
  /\ place' = [place EXCEPT ![b] = "held"]
  /\ UNCHANGED <<batchVars, queueVars, drainVars, stamp, owed, eventVars>>

\* free(): must the buffer wait for the queue?
MustWait(b) == stamp[b] # 0 /\ (stamp[b] = Pending \/ stamp[b] + 1 > drained)

Free(b) ==
  /\ place[b] = "held"
  /\ IF MustWait(b)
       THEN /\ place' = [place EXCEPT ![b] = "quarantine"]
            /\ owed' = IF stamp[b] = Pending THEN owed + 1 ELSE owed
            /\ UNCHANGED stamp
       ELSE /\ place' = [place EXCEPT ![b] = "free"]
            /\ stamp' = [stamp EXCEPT ![b] = 0]
            /\ UNCHANGED owed
  /\ UNCHANGED <<batchVars, queueVars, drainVars, eventVars>>

-----------------------------------------------------------------------------
Init ==
  /\ open = [s \in Streams |-> EmptyBatch]
  /\ last = [s \in Streams |-> 0]
  /\ inFlight = [s \in Streams |-> [i \in 1..Ring |-> 0]]
  /\ sub = <<>> /\ stage = <<>> /\ counter = 0
  /\ handled = 0 /\ drained = 0
  /\ place = [b \in Buffers |-> "free"]
  /\ stamp = [b \in Buffers |-> 0]
  /\ owed = 0
  /\ asked = [s \in Streams |-> 0]
  /\ sem = [s \in Streams |-> 0]
  /\ queued = [s \in Streams |-> FALSE]
  /\ mark = [s \in Streams |-> <<>>]

Encoder(s) ==
  \/ \E b \in Buffers : Record(s, b)
  \/ \E p \in Streams : WaitEvent(s, p)
  \/ WaitOutstanding(s) \/ Commit(s)
  \/ SignalFromHost(s) \/ SignalQueued(s)
  \/ Join(s)

Next ==
  \/ \E s \in Streams : Encoder(s)
  \/ \E v \in Values : GPU(v)
  \/ Dispatcher
  \/ \E b \in Buffers : Malloc(b) \/ Free(b)

Spec == Init /\ [][Next]_vars

\* The queue makes progress, the dispatcher's thread polls.  Nothing makes a
\* stream record or commit.
Fairness ==
  /\ \A v \in 1..MaxSubmits : WF_vars(v \in Values /\ GPU(v))
  /\ WF_vars(Dispatcher)

FairSpec == Spec /\ Fairness

-----------------------------------------------------------------------------
OpenBatches ==
  [slot : 0..Ring, bufs : SUBSET Buffers, events : SUBSET (Streams \X (1..MaxSignals)),
   floor : 0..MaxSubmits]
Submissions ==
  [stream : Streams, slot : 0..Ring, bufs : SUBSET Buffers,
   events : SUBSET (Streams \X (1..MaxSignals)), floor : 0..MaxSubmits,
   after : 0..MaxSubmits, signal : 0..MaxSignals]
Stages == {"queued", "running", "signaled", "clean", "refused"}

\* The types, and what the counters of one timeline owe to each other.
TypeOK ==
  /\ open \in [Streams -> OpenBatches]
  /\ last \in [Streams -> 0..MaxSubmits]
  /\ inFlight \in [Streams -> [1..Ring -> 0..MaxSubmits]]
  /\ sub \in Seq(Submissions) /\ stage \in Seq(Stages)
  /\ Len(sub) = Len(stage) /\ Len(sub) <= MaxSubmits
  /\ \A v \in Values : sub[v].after < v /\ sub[v].floor < v
  /\ handled \in Nat /\ drained \in Nat /\ counter \in Nat
  /\ drained <= handled /\ handled <= counter /\ counter <= Len(sub)
  /\ place \in [Buffers -> {"free", "held", "quarantine"}]
  /\ stamp \in [Buffers -> 0..Pending]
  /\ asked \in [Streams -> 0..MaxSignals] /\ sem \in [Streams -> 0..MaxSignals]
  /\ queued \in [Streams -> BOOLEAN]

\* A buffer that may be somebody else's next is not recorded in an open batch,
\* and no submission that records it can still run or be cleaned up after by the
\* driver (allocator.h: the quarantine; free(), release_quarantine()).
NoLiveReuse ==
  \A b \in Buffers : place[b] = "free" =>
    /\ \A s \in Streams : b \notin open[s].bufs
    /\ \A v \in Values : b \in sub[v].bufs => stage[v] \in {"clean", "refused"}

\* A command buffer that is being recorded again belongs to no submission the
\* driver has not signalled (ensure_recording(): begun again only when drained).
SlotIsFree ==
  \A s \in Streams, v \in Values :
    (open[s].slot # 0 /\ sub[v].stream = s /\ sub[v].slot = open[s].slot)
      => stage[v] \in {"signaled", "clean", "refused"}

\* Completion handlers run only after the GPU finished the work they report
\* (encoder.h: "when this submission's GPU work finishes").
HandlersAfterWork == \A v \in 1..handled : Ended(v)

\* A stream's submissions run one after the other, although Vulkan orders none
\* of them and a join forgets the last one (submit(): the in-order wait).
InOrder ==
  \A u, v \in Values :
    (u < v /\ sub[u].stream = sub[v].stream /\ stage[v] \notin {"queued", "refused"})
      => Ended(u)

\* What waits for an event's value, or for everything outstanding, starts after
\* all the work its producer had handed over when the value was signalled,
\* also when the value was published from the host.
ConsumerAfterProducer ==
  \A v \in Values : stage[v] \notin {"queued", "refused"} =>
    /\ \A u \in 1..sub[v].floor : Ended(u)
    /\ \A e \in sub[v].events : \A u \in 1..mark[e[1]][e[2]] :
         sub[u].stream = e[1] => Ended(u)

\* The byte budget that flushes a batch counts the freed buffers no submission
\* has taken over yet, no more and no less (pending_quarantine_bytes()).
OwedIsExact ==
  owed = Cardinality({b \in Buffers : place[b] = "quarantine" /\ stamp[b] = Pending})

\* Whatever the streams submit, the dispatcher catches up with it, so that no
\* handler stays due and every join returns, unless the driver refused one.
Refused == \E v \in Values : stage[v] = "refused"
CaughtUp == []<>(handled = Len(sub) \/ Refused)

=============================================================================
