# A TLA+ model of omarchy-mlx

omarchy-mlx runs MLX and Core ML models on Apple silicon under Linux. This
directory models the parts of it that are concurrent or must survive failures: the
local assistant (`serve/mlx_omarchy_assistant`) with the workers it drives for chat
(`serve/mlx_omarchy_serve/_mlxlm_server.py`), decisions, speech and recognition; the
installation of an offline bundle; and, of the MLX backend in C++
(`overlay/mlx/backend/omarchy`), the submission of Vulkan command batches with the
buffers they use, and the Neural Engine runtime with its worker process; and the
service that collects measurements (`services/community-data`) with its uploader. The
specifications are translated from the source; `PROJECT.json` gives the lines behind
every definition.

## 1. The system

```
 web page / terminal ──HTTP──► server.py ──► Coordinator ──HTTP──► chat worker
        ▲                        │  │            │  │               (mlx-lm + YieldGate)
        │ events (SSE)           │  │            │  └─► PairManager ─► worker processes
        └────────────────────────┘  │            │          │
                                    │            └─► ConversationStore ─► <cid>.json
        read-aloud ◄── synthesis ◄──┘                       │
                          │                                 ▼
                          └──── coordinator.gpu (Lock) ◄── SpeechYieldScheduler
                                                 budget.py: reservations.json (flock)
```

| component | state | operations | interacts by | what makes it correct |
|---|---|---|---|---|
| speech hand-off, `speech_yield.py` | the GPU lock, the queue of waiting speaks, one set of events per waiter | `enter`, `release`, `yield_point`, `refuse_pending` | the turn's thread gives the lock to a speak's thread and takes it back; HTTP to the gate | decoding and synthesis never overlap; no request is forgotten; waits end |
| yield gate, `_mlxlm_server.py` | bound secret, `desire`, `in_step`, `parked` | probe, hold, release, before/after step | condition variable between the decode thread and request threads | an acknowledged hold means no step runs until release |
| coordinator, `coordinator.py` | table of turns, their cancel events, `failure` | submit, cancel, heartbeat, action, the turn thread, close | takes the GPU lock, drives store, manager and worker | every admitted turn is closed and gives the lock back |
| history, `history.py` | records, event deques, cancelled set, pending bytes, files | create, begin, emit, cancel, finish, set_saved, set_context, delete, load, events | one lock; readers poll with a cursor | readers see the exact reply; a crash loses a bounded amount; unsaved leaves nothing |
| server and clients, `server.py`, `__main__.py`, `static/js` | setup and transfer threads, audio lock, sessions; a reader's cursor | HTTP requests, event streams, pre-warm | take the GPU lock; read the store | at most one holder; readers recover from gaps |
| pair manager, `pairs.py`, `managed.py` | children, records, context size, cancel event | setup, adopt, start, status, ensure_context, stop | spawns workers, reserves memory | a live worker is covered by a record; stop is verified |
| memory budget, `budget.py` | `reservations.json` under flock | admit, reserve (batch), claim, resize, state, clear | processes share the file | never over the budget; one live child per record |
| transfer, `transfer.py` | staged, installed and backed-up directories, pair locks, venv generations and the link to one | inspect, stage, commit, rollback, activate, prune | file system; the server stops the workers first | a failure leaves what was there; a kill loses nothing |
| synthesis, `synthesis.py` | a resident worker per engine, its pipe, `_worker_lock`, the saved voice | synthesize_chunks, set_voice, prime, close | a turn at the GPU through server.py; messages to the worker | whoever stops listening leaves no worker busy |
| recognition, `recognition.py`, `gpu_stt.py` and their workers | the worker's handle, frames both ways, a watcher thread per request | transcribe, close | as above | the transcript is the recording's; a cancel ends it |
| routing, cards, components, theme | none that matters here | pure functions and one worker bound | called by the coordinator | validation |
| serve CLI, catalog, laya, bonsai2 | a launch reservation each | plan, serve, admit | budget file | as for the budget |
| community data service (TypeScript), `collect_submit.py` | rows, chunks and two cached indexes in a database | probe, initiate, chunk, complete, rebuild, collect | HTTP; every invocation works on the same database | what is published is whole; a receipt is true; a run can be resumed |
| Vulkan encoder, events, allocator (C++) | open batches, a ring of command buffers, one timeline, the quarantine of freed buffers | record, submit, wait, signal, join, free | the driver's queue; a dispatcher thread | a buffer is not reused before the GPU is done; consumers follow producers |
| Neural Engine runtime (C++) | the lock file, the quarantine record, a worker process and a staging buffer | load, execute, shutdown | socket to the worker; files shared by all processes | one owner; no use after an unknown completion |
| kernels, converters, installer, scripts | – | – | – | numerical or one-shot I/O |

What is hard in it: the GPU lock changes hands between threads that do not wait
for each other, with deadlines on both sides and a worker process in the middle
that keeps a third opinion about who may run; requests to that worker can be
lost, or be served after the client has gone; a conversation's record, its event
buffer and its file are changed by a generation thread, cancel requests and
settings, any save can fail, and the process can die between two of them while a
reader pages through the events. Below it, an installation may stop between any two
renames; a worker that is asked to stop may answer, go on, or not die when it is
killed; a device may finish after everybody stopped waiting; an upload is a sequence of
requests to invocations that share nothing but a database and may end anywhere. `PROJECT.json` lists these hazards at their
lines, with the properties that cover each.

## 2. Modules

| module | what it models |
|---|---|
| `YieldGate` | class `YieldGate` and its two hooks, as actions without a next-state relation: it is composed into `SpeechYield` |
| `SpeechYield` | the scheduler, the turn that holds the GPU lock, the speaks, the other holders; with `YieldGate` it is one system |
| `GpuUse` | the abstract promise: decode steps and syntheses exclude each other |
| `SpeechProofs` | theorems about `SpeechYield` and about `Voice`, and their proofs |
| `MCSpeechYield` | instance for TLC (symmetry) |
| `History` | one conversation of the store, the turns and requests that change it, its file, crashes, and the client that reads its events |
| `MCHistory` | instance for TLC |
| `Budget` | the reservation file: one operator per transaction, without a next-state relation |
| `Pairs`, `PairsProofs`, `MCPairs` | the pair manager, its worker processes and other launched servers, over `Budget`; instance with symmetry |
| `Turns`, `TurnsProofs`, `MCTurns` | the coordinator: requests that begin a turn, the turn's thread and the models' connection, cancel, close |
| `Transfer`, `TransferProofs`, `MCTransfer` | the installation of a bundle, with failures and kills |
| `VoiceRequests` | what the two halves of the voice share: the requests and their cancel events |
| `Synthesis`, `Recognition` | the two halves, each as actions without a next-state relation |
| `Voice`, `MCVoice` | the server's voice handlers, setup and close: it composes the halves |
| `Submission`, `SubmissionProofs`, `MCSubmission` | Vulkan batches, waits, signals, the dispatcher and the buffers |
| `AneDevice` | the abstract promise of the Neural Engine runtime: one owner, quarantined after an unknown completion |
| `AneRuntime`, `AneRuntimeProofs`, `MCAneRuntime` | the runtime, its worker, the lock and the record; it implements `AneDevice` |
| `HistoryProofs` | theorems about `History` and their proofs |
| `CommunityData`, `CommunityProofs`, `MCCommunity` | the community data service, its database, its timer and the collectors that upload to it |

Operators marked "Mutant of X" are not part of any specification. Each is X with
one plausible slip, kept next to X to show that some property notices it.

### YieldGate and SpeechYield

A **turn** is the generation thread of one prompt. `turn[t]` is its position:
`open` (workers start, history is read), `chat` (the request is about to be sent),
`consume` (reading the reply), `pop` (in `yield_point`, about to look at the
queue), `hold`/`acking` (the hold request; waiting for the park), `parked`
(acknowledged), `grant` (the lock is released), `wait_taken`, `retake` (the timed
acquire after a missed hand-over), `reacquire` (the acquire that has no timeout),
`unpark` (about to send release), `stop` and `exit` (`_release_turn`). A **speak**
is one call of `enter`; `granted`, `taken` and `refused` are its waiter's events.
An **operation** is any other holder of the lock: setup, resume, transfer,
transcription; setup and an installing transfer also kill the worker.

Each action is a region between two points where another thread may run: a
condition's or a lock's critical section, one event set, or one HTTP exchange as
its server carries it out. An HTTP exchange that fails is a disjunct of its own:
refused, lost on the way, or answered with the answer lost. A wait with a
deadline has two ways out, either possible at any time; clocks are not modelled.
With `LateControl` a request whose client gave up may still be carried out later.
With `Overrun` a draft or a repair may stop reading at its size limit while the
worker still decodes. Both are switches so that the properties can be stated with
and without them. `Unlocked` names the speaks that do not enter under the server's
audio lock: in the application that is the voice's pre-warm; the scheduler alone,
as its own tests use it, takes any number.

The decode thread is the variable `decode`: `_in_step` and `_parked` are functions
of it because they change in the same critical sections. The ten-minute deadline of
a parked step (`CrashNet`) is taken not to fire inside a running hand-off, which is
what the comment at its place says of it and an assumption here; it may fire when
nobody is handing the lock over and when the turn is stuck.

### History

One conversation; the store keeps nothing that ties conversations to each other.
Every method runs under the store's lock and is one action, the checkpoint and the
save that it makes included, each with an outcome in which that save raises and
memory keeps what was already changed. A text is one `emit`; what it says is its
position in the reply, so a repeated, missing or reordered text is visible. The
other event kinds that a turn may send (status, decision, component) differ from
these only in their payload and are left out, but the events `status`, `error` and
`done` at the ends of a turn are kept. `Crash` drops memory and threads and loads
the file as `__init__` does.

The reader is the loop of `__main__.py` against the event endpoint of `server.py`.
Between them is `inbox`, the events written to the connection and not read yet: `Fetch`
copies into it what the deque has after the last event written, `Receive` reads one event,
and the store may go on, drop events and be deleted meanwhile. `Break` cuts the connection
with what was not read: the client opens another from its cursor where the stream just
ended, and ends with an error where it was reset. The endpoint is modelled as fetching
again only when everything was read; when the bytes are read makes no difference to the
store.

### Budget and Pairs

`Budget` has the variable `file`, the reservations by name, and one operator per
transaction of `budget.py`: each takes the file's lock for its whole life, so each is
one step, and one that raises leaves the file as it was. `Pairs` composes them. The
operations of `PairManager` hold `_op_lock`, so one program counter, `pc`, follows
whichever runs: `settle`, `admit`, `chat`, `decision`, `health_chat`, `health_decision`
and `failed` are the stages of `start`; `resize`, `retire`, `grow`, `grown`, `drop`,
`restore`, `keep`, `fallback` and `fallback_health` those of `ensure_context`. `stop` is
one step, alone or inside the others: what it does in between (`terminate` of one
worker after the other) only removes what a worker may lose at any time anyway.
`terminate` may leave a worker that does not end in time; it stays in `doomed`.

`status` does not take the lock. Its thread is `poll`: it copies the children (`seen`),
reads the file and the exits (`targets`), and clears, with any step of an operation between
any two of these. `stripped` remembers whose records it cleared: among them, as the known
counterexample `MCStatusReaps.cfg` shows, that of a worker that has just started.
`available` is what the manager read of the free memory *before* the transaction that uses
it; a launched server reads it inside.

A worker goes from `boot` to `serving`. The decision worker claims its record before it
loads, relabels it after, and clears it before it exits in an orderly way (`leaving`). The
chat worker does none of this. `Crash` (constant `Crashes`) kills the assistant and starts
it again: workers and records stay, the parent identity of both is no longer the running
one (`ours`). A launch is a server started by `mlx-omarchy-serve`: its record stays
pending while it loads.

Memory is a small number with the safety reserve already taken off, and each
model has a weight and a requirement. Sizing (`admissible_context`) reads the memory
earlier than the admission does and adds a desktop reserve, so it may let an operation
pass or end it at any time.

Left out: the voice record of a pair, a switch to another pair, the stages of a setup
(it changes nothing here until it succeeds), reservations made by hand, and launches
of module servers, which relabel as the decision worker does.

### Turns

A **request** is one POST that wants a turn: a prompt, or a click on a card's control.
`req[r]` is how far its handler got (`component` is what `action` read of the record
before it took the lock), `thread[r]` where the turn's thread is, from its start to
`_release_turn`. `turns`, `cancel` and `failed` are the coordinator's tables; `active`,
`newest`, `refusing` and `shown` are what it sees of the store. `conn` is the one
connection to the chat worker that all turns share, `cut` that somebody closed it under
a reader, `decoding` what the worker is generating. `closing`, `closer` and `jobs` follow
`close`. Cancel marks the turn under the lock and closes the connection after it, so
these are two actions. Where a thread may fail to start, a stream raises, or the worker
dies, there is an action for it.

A save of the store may raise (at most `MaxFaults` of them): in `begin` (`BeginRaises`), in
the error event after a failed worker stop (`ReleaseRaises`), in the event that `finish`
emits (`FinishRaises`), in its last save (`Finish`, with `SaveRaises`) and in `store.cancel`,
from a request or `_watch` (`CancelRaises`) or from `close`, which it ends
(`CloseCancelRaises`). The first three leave the turn active with nobody to finish it:
`stranded` remembers these turns. A draft or a repair may stop reading at its size limit
while the worker decodes on (`StreamStops`): `overrun` remembers those. A turn has one or two
chats, its reply and a repair; they are one stream here, and `EndsOrRaises` stands for what
a turn does after it, which may raise.

### Transfer

One action per change of the file system: `pc` walks through `import_bundle` and
`activate`, `job` is the bundle, `dest`, `staged` and `back` say which bundle's copy of
each unit is installed, staged and backed up, `lock` and `lockBack` the same for pair
locks; `gen`, `link`, `legacy`, `moved` and `retired` are the generations of the venv.
Each step of the attempt, and each step of its rollback, may raise (`broken` remembers
the latter); `Kill` ends the process between any two. `Swaps` and `Activates` give each
bundle's units and pairs in the order in which they are swapped and activated, `Locked`
the units that are pairs, `Fresh` those that were never installed, `WithVenv` whether the
runtime comes too. `had` and `before` keep what was there when an attempt began.

### Synthesis, Recognition and Voice

A **request** is a recording, a sentence to read aloud or the pre-warm; `step[r]` is how
far its thread got, in the handler and below it. `Synthesis` has the pipe to each
engine's worker, the lock, and what a request does with its messages: take a chunk, stop
listening, cancel, drain what is left, reset the worker. `Recognition` has the frames to
and from the one worker, the request's thread and the watcher that its cancel wakes. The
backend, Neural Engine or GPU, is chosen at the start: they differ in the boot frame, in
how a cancel is done and in what a broken pipe means. `Voice` adds `audio_lock`, the
event that `_voice_cancel` finds, the GPU, setup and `server_close`. A preview is not
told apart from a sentence.

A worker may answer, stay silent, die, or survive SIGKILL (`lost`). Every wait that has
a deadline may end at any time. Recognition's read has none: the deadline is looked at
between two reads only, and a read blocks. `raced` notes that the Neural Engine worker
may answer a cancel when somebody else waits for an answer. The thread of a request is a
daemon that nobody joins (`server.py:44`): one that was accepted may still read its body
(`server.py:648`) while the server closes, so `TakeAudio` may come at any time. `missed` are
the sentences that make their event after `server_close` set the one it found. A writer of a
long recording holds `_send_lock` until the worker reads.

### Submission

Each stream has an open batch and a ring of `Ring` command buffers. `sub`, `stage` and
`counter` are the submissions and the one completion timeline that numbers them; the
driver's queue is external and finishes work as its waits allow. `handled` and `drained`
are the dispatcher's. `place`, `stamp` and `owed` follow the buffers through the
allocator's cache and quarantine, `asked`, `sem`, `queued` and `mark` the events. `Shared`
says whether two open batches may record one buffer. Times, bytes and memory barriers are
left out.

### AneRuntime

`host` is the runtime object's state, `control` and `tx` its thread and transaction lock,
`call` the position of each execute or shutdown with its deadline (`late`) and its result
(`answer`); `worker`, `todo`, `command` and `reply` are the worker and the socket,
`staging` the buffer they share. `fds` are the open descriptions of the lock file,
`record` the quarantine file by boot. A deadline passes at any time, host and worker die
at any time, and `Reboot` starts over with the files. `dense`, `unknown` and `excused` are
history. `AneDevice` knows only who owns the device, what runs, and whether it is spoiled.

### CommunityData

`row`, `chunks` and `index` are the database: a submission's row with the archive it
declares, its stored pieces, and the submissions that each cached response lists. Every SQL
statement is an action, a batch is one, and `inv[v].at` is the next statement of an
invocation; between two of them all other invocations may run. A **collector** is one user's
`submit`: it probes, initiates, sends the pieces that initiate listed and completes. After
a refusal, a timeout or a killed invocation it starts again (`Restarted`). `GiveUp` leaves
its invocation to go on without a reader of its answer, in one of the places `Orphans`;
`Kill` ends an invocation between two statements. `Tick` is the cron job, `Age` the passing
of a week for a row that nobody refreshes.

`nature` says what a submission is: a report without an archive, a plain archive, one whose
payload was stripped of personal data (its archive is rewritten by complete), or one that
cannot be rewritten (its archive is dropped). A piece's content is the archive it is cut from,
raw or rewritten: with its index this fixes its hash. Two switches separate what holds from
what does not. `Overlap`: may two runs for one stripped submission overlap? `SlowRuns`: may a
week pass in the middle of a run?

## 3. Runs

| run | question | instance | result |
|---|---|---|---|
| `speech_safety` | can decoding and synthesis overlap, can the queue lose a request? | 2 turns, 2 speaks, 1 operation, queue of 1 | 1.1 million states (symmetry), holds |
| `speech_live` | does everything that waits stop waiting, also with late control requests and overruns? | 2 turns, 1 speak | 0.3 million states, holds |
| `history` | reader, crash, cancel, save | 2 turns of at most 2 texts, buffer of 2 events, checkpoint of 2 texts, 1 failing save, 1 crash | 0.8 million states, holds |
| `turns` | who has the GPU, which turns end, what does a cancel or close leave? | a prompt and two copies of one control, 1 failing thread start, 1 failing save | 0.18 million states, holds |
| `pairs` | are workers, records and memory consistent? | 4 processes, 2 batches, 1 launch of 7 or 8 of 13 units, crashes, status at any time (within `StatusBound`) | 0.75 million states (symmetry), holds |
| `transfer` | what does a failed, killed or repeated installation leave? | 3 installations of 2 bundles over 3 units, with and without a runtime, 1 kill | 3.4 million states, holds |
| `submission` | are buffers and events safe against the queue's and the dispatcher's order? | 2 streams, 1 buffer, ring of 1, 3 submissions, 1 event signal, 1 refusal | 2.1 million states, holds |
| `ane` | one owner, no use after an unknown completion, everything returns | 2 runtimes, 2 executes and a shutdown, 2 programs, 2 boots | 0.16 million states, holds |
| `voice` | what do cancels, silent and dying workers, setup and close leave? | two recordings, or a sentence and the pre-warm; 2 engines, 1 chunk, 1 change of voice, 1 setup, the close | 0.33 million states, holds |
| `community` | what do interleaved, abandoned and killed invocations leave? | any one submission of 2 pieces (1 when rewritten), 1 collector and 1 invocation it gave up on, 1 reader, the timer, 1 kill | 0.17 million states, holds |
| `self_block` | "every wait is time-bounded" | 1 turn, 1 speak | violated |
| `voice_shift` | what a recording that nobody cancelled returns is its own | as `voice` | violated |

**Why these bounds are enough to see the cases.** Two turns are needed for a turn
that is admitted while another's lock is away, and for the secret of a turn that
is over; a third would only repeat the second. Two speaks are the most the
application can have at once (the pre-warm and one request under the audio lock);
with a queue of one they also find it full. One
operation can take the lock at any moment and come back. In `history` a turn makes
four events (status, two texts, done) for a buffer that keeps two, so the reader
meets gaps, and two texts are one checkpoint, so a crash falls before and after it.
One failing save at any of the places that save, and one crash at any moment, are
explored with every order of the rest; what needs a second fault is not.

In `pairs` the memory is 13 units: a pair needs 5 and, grown, 6; a launch of 7 fits beside
either, one of 8 beside the small one only, so every admission, growth and return to the
smaller record is accepted in some states and refused in others. `StatusBound`, a state
constraint, cuts what status() within an operation multiplies: it does not come beside a
worker of a former assistant or a launched server, and after it cleared a record no worker
outlives its assistant or its kill. The theorems have no such bound. Four processes are two
pairs, or
one and what is left of a former: the model starts a process only while an identity is
free, and an assistant is killed only when no worker of a former one still lives
(otherwise nothing bounds the orphans). Process and token identities are reused when
nothing refers to them.

In `turns` two copies of one click make a repetition, and the prompt before them is the
turn that they race with. In `transfer` three attempts are a first installation, one over
it that may be killed, and one after the kill; the units are a pair that both bundles
carry, a pair that only one carries and that was never installed, and the wheels, which
have no lock. In `submission` a ring of
one buffer is full after every submission, so each of the three waits for the one before;
one buffer is freed, quarantined and handed out again under another stream's work. In
`ane` two runtimes compete for the device, two calls of one runtime for its worker, and a
plan of two programs can stop between them. In `voice` the second recording meets the
worker that the first one left, and the pre-warm the engine that a sentence did not ask
for; more requests at once are excluded by `audio_lock`. In `community` submissions do not
meet (a statement touches one of them, but for the rebuild, which reads them all, and the
collection); the invocation that was given up runs beside the next run of the same collector,
which is how two runs of one upload meet in practice; two pieces make an upload that is
half there.

These systems may stop (all turns, requests or installations are over), so deadlock is
not an error in their runs; in `Pairs` it is one, and there is none. The liveness
properties say that they do not stop too early.

### Properties

- `ImplementsGpuUse` (and `NoOverlap`, which it implies, proved): no decode step runs during a synthesis. The steps
  that could break it belong to different threads: a step that was running when the
  hold was acknowledged, a release meant for somebody else, a turn that goes on
  without the lock.
- `HeldWhileLockAway` (proved, in no run): while a generating turn's lock is away, its worker is held, no
  matter how many others take and return the lock. It is what makes `NoOverlap`
  inductive, and it excludes the state in which a turn blocks itself, because there
  the gate's deadline is the only way out.
- `QueueIsHonest`: the two ways in which a bounded queue of waiting threads goes wrong,
  an entry without a caller and a caller whose entry was popped and forgotten.
- `ParkedIsReleased`, `TurnEndsUnlessSelfBlocked`, `SpeakEnds`: liveness, below.
- `ReaderIsFaithful`: the terminal prints the texts of its turn exactly once and in
  order, and all of them when it sees `done`, over gaps and broken connections.
- `SelectionSurvives`, `LossIsBounded`, `DoneIsDurable`:
  what the file holds, relative to memory and to what the reader was told. The last
  two are stated for histories without a failing save.
- `CancelledStaysSilent`: an action property; after the store cancelled a turn its
  reply does not grow, although its thread may not know yet.
- `LiveWorkerCovered`: a worker with a loaded model has a record with its token that is at
  least as large as what its context may use, through starts, growths, failed growths,
  relabels, stops and restarts. Workers that are leaving, and chat workers that were
  killed or orphaned, are excepted; for orphans see the findings.
- `NoOvercommit`: what the loaded models may come to use together fits, although
  admissions read the memory before the lock and records change what they count for. A
  worker that is leaving clears its record while its model is still in memory, and an
  orphaned chat worker loses its record: those two are set aside (see "Also seen"), and so
  is a worker whose record a status() has cleared (`Stripped`), here and in the next.
- `OneWorkerPerModel`: no worker is lost to a failed start, and a restarted assistant
  loads no second decision model beside the first.
- `ContextIsServed`: the context that turns are measured against is the one that the
  chat worker was started with, after every way a growth can fail.
- `ReaderLearnsEnd`: liveness; a client that waits for a turn is told how it ended,
  unless the turn is stuck in the way `MCHistoryStuck.cfg` shows.
- `ActionOnce`: two copies of a click, each between reading the record and taking the
  lock, do not both become turns, whatever ends or is cancelled between them.
- `BusyIsReal`: a conversation that answers "busy" has a request or a thread that will
  free it; `CancelEnds` (liveness) says that a cancelled turn's does. Both except the turn
  that a failing save left active (`stranded`, also `MCHistoryStuck.cfg`): one failing save
  may come at any place that saves, and no other turn is left active by it.
- `QuietGpu`, `CancelledIsStopped`: what still decodes, decodes for the holder of the GPU,
  also after cancels, failures and the close; a cancelled turn is never shown as complete.
  What a draft or a repair beyond its size limit leaves decoding is excepted (`overrun`):
  nothing stops it, and the next holder runs beside it (see "Also seen").
- `FailureRestores`, `SuccessInstalls`: the two promises of an installation, over any
  failing step and over what a killed one left.
- `CopyKept`: what was installed when an attempt began is whole somewhere, throughout it.
- `NoLiveReuse`: no buffer is handed out while a batch that records it is open or
  running; the stamp, the quarantine, the drain and the ring all have to agree.
- `ConsumerAfterProducer`: who waits for an event starts after the work its producer had
  handed over, whether the queue or the host published the value.
- `CaughtUp` (liveness): the dispatcher reaches every submission when none was refused.
- `ImplementsDevice`: refinement; the runtimes, their workers and the two files are one
  device with one owner, which is not used again after an unknown completion.
- `NoFalseQuarantine` (proved, in no run): and it is not locked until a reboot without a reason.
- `ResultIsOwn`: a call's outputs are computed from its inputs, although late replies and
  one staging buffer are shared by all calls.
- `CallsReturn`, `WorkerLeaves` (liveness): by their deadline; once the device returns.
- `QuietVoice`: when a voice request is not at work, no worker is busy behind it.
- `SetupAlone`, `ClosedForGood`: setup finds no voice worker resident, and the end of the
  server leaves none, whatever was under way; excepted is a sentence that makes its event
  after `server_close` set the one it found: nothing cancels it, and it may start a worker
  after the last was collected.
- `OwnTranscript`: a transcript belongs to its recording, as long as no cancel was
  answered too late (the finding `voice_shift`).
- `SpeakReturns`, `CancelledEnds` (liveness): read-aloud gives the GPU back whatever the
  worker does, recognition when it is cancelled.
- `PublishedIsWhole`: a published row declares the archive it should and exactly its pieces
  are stored, although a rewrite drops and stores them one by one and the collection
  removes them beside a complete that has just counted them.
- `ReceiptIsTrue`: a collector that was told "published" has a row, for good.
- `UploadSettles`, `IndexSettles` (liveness): a run that is repeated gets its submission
  published, also from a row that is left half rewritten; and every published row ends up in
  both indexes, whatever rebuild is saved last or dies.

One type invariant per module states the shape of the state. Those that are proved
inductively (section 4) and a few lemmas of the same proofs (`LockHasLiveOwner`,
`GpuHasOneOwner`, `NothingKeptUnlessSaved`, `VenvIsWhole`, `ReceiptIsHonest`,
`OwedIsExact`, `SlotIsFree`, `InOrder`, `HandlersAfterWork`, `CloseIsHonest`) are in no
run: the theorems say more. `TypeOK` of `Pairs` is proved too (`TypesAlways`).

### Fairness

`SpeechYield!Fairness` asks weak fairness of each turn's and speak's own steps, of an
operation's end and of the decode thread: they are threads that run when they can, and
every wait of theirs has a deadline in the code, except the unbounded acquire, which
is simply disabled while the lock is taken. Strong fairness is asked of `StreamEnds`,
because a turn alternates between reading and yielding and its reply is finite
(`max_tokens`, the read timeout, the worker's death). Nothing is assumed of users:
submit, cancel, entering and other operations may never happen. `LateControl` and
`Overrun` are on in the liveness run. In `History` the turn's thread and the reader run, and strong
fairness of `Receive` says that a loopback connection does not break each time before
anything is read.

In `Turns` a turn's thread runs, a request that was begun goes on, and the connection
that a cancel decided to close is closed: all are threads between two instructions. In
`AneRuntime` the calls' threads and the workers run and deadlines pass; that the device
returns is not assumed, `WorkerLeaves` asks for it. In `Submission` the queue executes
what its waits allow and the dispatcher runs. In `Voice` the threads of a request and its
watcher run and an idle recognition worker reads its next frame (which ends the write of
a long recording); that a worker ever answers is not assumed. Sending audio to a client is
bounded too, by the socket's timeout (`server.py`, `_body`). In `CommunityData` an invocation
that is not killed goes on, the cron job fires, and weeks pass; that a collector is run again
until it succeeds is asked of its user ("re-run to resume", `collect_submit.py:247`).

### Findings

1. `self_block`: after a missed hand-over `yield_point` acquires the lock with a
   timeout and then acquires it again without one. If the first succeeds the thread
   waits for itself, and with it the assistant until a restart.
2. `voice_shift`: the Neural Engine recognition worker answers a cancel with a frame of
   its own. A cancel that is written when the worker has answered already (the watcher looks
   at `done` before it sends, `recognition.py:354-358`) leaves that frame in the pipe, and
   the next recording, which nobody cancelled, reads it as its answer: an empty transcript.
   The property leaves the cancelled recording itself out; its own acknowledgement may also
   reach it, when the watcher writes before the request does.

### Known counterexamples, run by hand

Each of these configurations stays beside the model; TLC finds the violation in seconds.

| configuration | violated | what happens |
|---|---|---|
| `MCChatOrphan.cfg` | `OrphanRetains` | the chat worker neither claims its record nor watches its parent, although both are prepared for it (`managed.py:7-11`, `pairs.py:9-10`); when the assistant is killed it runs on, and the next one clears its record, against "Live or uncertain workers RETAIN their reservations" (`managed.py:144`) |
| `MCCommunityOverlap.cfg` | `PublishedIsWhole` | a second run for a stripped submission has checked that the row is not published; the first publishes it; the second's complete rewrites the archive of the published row (`routes.ts:290-308` does not look at `published`), against "an existing (unpublished) row" (`store.ts:345`): its pieces are gone until they are stored again, and for good when the invocation ends there |
| `MCCommunityGc.cfg` | `ReceiptIsTrue` | with a run of more than a week, the collection removes the row between complete's count and its UPDATE, which nobody checks (`store.ts:321`), and the collector gets a receipt |
| `MCCommunityWithheld.cfg` | `WithheldIsPublished` | an archive that cannot be rewritten is withheld, and completeSubmission then answers `incomplete` for a row without an archive (`store.ts:300`): the summary is never published and `archive_withheld_pii: true`, announced at `archive_sanitize.ts:21-24`, never sent |
| `MCTransferRetry.cfg` | `PreviousKept` | an installation is killed between the move of an installed directory into the backup and the rename of the new one; the next attempt begins by removing the backup (`transfer.py:1297-1298`), before it verifies anything, against "any failure restores it" (`transfer.py:1503-1505`, also 45-46) |
| `MCSharedBuffer.cfg` | `NoLiveReuse` | `stamp_batch` replaces a freed buffer's stamp although another stream's open batch still records it (`allocator.cpp:274-276`; the header's promise is at `allocator.h:101-107`); needs one array used on two streams |
| `MCAnePrivateLock.cfg` | `ImplementsDevice` | a process that may not open the shared lock file uses a private one (`runtime_ownership.h:66-91`), and two runtimes own the device, against `docs/ane-runtime.md:11` |
| `MCStaleControl.cfg` | `ControlIsCurrent` | `action` checks the newest turn before it takes the lock (`coordinator.py:1339`), and a click on an older turn's card is carried out |
| `MCProbeRebinds.cfg`, with this invariant instead | `OneActiveTurn` | in the gap of the hand-off a second turn is admitted |
| `MCProbeRebinds.cfg` | `ProbeRebinds` | the secret of the first turn stays in the worker's gate: read-aloud during generation works for the first turn on a worker only |
| `MCLateControl.cfg` | `NoOverlap` | a worker serves a control request after its client gave up; with `Overrun`, also a draft that stops reading at its limit does it |
| `MCHistoryStuck.cfg` | `ActiveHasThread` | a save that raises in `begin`, in `finish`'s emit or in the error event after a failed worker stop leaves the conversation busy for ever |
| `MCStatusReaps.cfg` | `WorkerRetains` | `status` clears the record of the worker that has just replaced the one it looked at, against "Live or uncertain workers RETAIN their reservations" (`managed.py:144`) |
| `MCVoiceShift.cfg`, with this invariant instead | `VoiceFitsEngine` | the engine is read at `synthesis.py:1451` and the voice again at 1455; when it is changed in between, a worker is asked for a voice of another engine, and the request fails |
| `MCVoiceDeadline.cfg` | `TranscribeReturns` | a recognition worker that is alive and silent is waited for without a limit, against "Every call is bounded by a deadline" (`recognition.py:15-16`) |

### Also seen

In the pair manager: `stop` promises that a worker that cannot be killed keeps its
record, but releases the chat worker's, because it was never claimed. The memory passed to
`resize_reservation` and `admit_and_reserve_batch` is read before the lock, where
`budget.py` says that production reads it inside; `NoOvercommit`
survives this beside launches whose record stays pending, but only because it sets a
leaving worker aside: an orphaned decision worker that loads after the reading and clears
its record before the transaction (`mlx_omarchy_laya/server.py:299`, then it exits) counts
in neither, and until it has exited the models may need more than there is.
`restore_reservation` can be
refused, and the exception leaves the pair ready without a chat worker.

In the coordinator: a submit that passed the check of `closed` begins a turn that `close`
has not collected; a job registered without its thread makes `close` raise before the
workers are stopped (`coordinator.py:1377`); a thread that does not start leaves its turn
registered and the conversation busy; a cancel may close the connection of the turn after
the one it meant (`coordinator.py:1335`). A draft or a repair that is longer than what is
read of it gives the GPU back with the worker still decoding (`coordinator.py:1139`, 1183,
1305). A cancel whose save raises does not reach the turn, ends `_watch` when it came from
there, and in `close` leaves the later turns uncancelled and the workers running
(`coordinator.py:1374-1375`).

In the transfer: `import_bundle` discards its backup also after a rollback that raised; a
kill between the two renames of a first switch leaves no venv but a hidden whole copy.

In the voice: after a cancel that the worker settled in time, `_abandon_request` waits
another grace for an answer that was already taken and then resets the healthy worker. The
voice worker never reads a cancel while it generates, so its "cancelled" reply cannot
happen. `_reset_worker` ignores that a worker survived; `close` stops at the first one
that did and leaves the rest. The Neural Engine watcher waits for `_send_lock` behind a
large write, and joining a watcher that nobody woke costs each uncancelled request six
seconds (`recognition.py:377`). A cancel that compared the kind may set the event of the
operation after the one it compared.

## 4. Proofs

Eight modules hold proofs, for any values of the constants that the modules' named
assumptions allow. Each proves an inductive invariant `IInv` (initially true, preserved by
every action and by stuttering) and reads its theorems off it. `SpeechYield` and `Voice`
share a proof module: neither mentions the other, and their names are disjoint (which is why
`Voice` has a `VoiceInit`, a `VoiceNext` and a `VoiceSpec`).

| module | theorems (`Spec => []...` unless said otherwise) |
|---|---|
| `SpeechProofs` | of `SpeechYield`: `TypeOK`, `QueueIsHonest`; and, assuming `ClientsWait`, `NoOverlap`, `HeldWhileLockAway`, `LockHasLiveOwner`, and the refinement `Gpu!Spec` |
| | of `Voice` (`VoiceSpec => ...`): `VoiceType`, `QuietVoice`, `SetupAlone`, `ClosedForGood`, and the action property `OwnTranscript` |
| `TurnsProofs` | `TypeOK`, `GpuHasOneOwner`, `ActionOnce`, `BusyIsReal`, `QuietGpu`, `CancelledIsStopped`, `CloseIsHonest` |
| `HistoryProofs` | `TypeOK`, `NothingKeptUnlessSaved`, `SelectionSurvives`, `LossIsBounded`, `CancelledStaysSilent`, `ReaderIsFaithful`, `DoneIsDurable` |
| `PairsProofs` | `TypeOK`, `ContextIsServed`, `LiveWorkerCovered`, `OneWorkerPerModel`, `LoadedWorkerIsTracked`, `NoOvercommit` |
| `TransferProofs` | `TypeOK`, `FailureRestores`, `SuccessInstalls`, `VenvIsWhole`, `CopyKept` |
| `SubmissionProofs` | `TypeOK`, `HandlersAfterWork`, `OwedIsExact`, `SlotIsFree`, `InOrder`, `ConsumerAfterProducer`; and, with `~Shared`, `NoLiveReuse` |
| `CommunityProofs` | `TypeOK`; with `~SlowRuns`, `ReceiptIsTrue` and `UnstrippedIsWhole`; with `~Overlap` too, `PublishedIsWhole` |
| `AneRuntimeProofs` | `TypeOK`, `NoFalseQuarantine`, `ResultIsOwn`, `ReceiptIsHonest`; and, with `SoleFile`, the refinement `AneDevice!Spec` |

**SpeechYield.** `ClientsWait` is `~LateControl /\ ~Overrun`; `MCLateControl.cfg` shows that
it cannot be dropped.
The inductive invariant `IInv` has four parts. `TypeInv` is `TypeOK` with the entry a
turn has in hand (`WaiterInv`). `OwnerInv` ties the lock to the positions of the
threads; it needs nothing else. `StreamInv` says that a turn that no longer reads left
no request in the worker's batch unless it will kill the worker: this is why a turn
that starts, or a speak that finds the lock free, meets an idle decode thread.
`GateInv` follows the secret and the wish: from the acknowledged hold until the lock is
back, the gate is bound to the secret of the turn whose request is in the batch, and no
other turn's probe, chat request or release can change it, because nobody else is
capable of a hand-off while that secret is bound. `NoOverlap` follows: a speak that
synthesizes owns the lock, so a turn with a request in the batch has its lock away and
the gate is held. The refinement maps `decoding` to "a step runs" and `speaking` to the
set of synthesizing speaks, and each action to a step of `GpuUse` or a stutter.
`QueueIsHonest` has an invariant of its own, `QueueInv`, which needs neither the lock nor
`ClientsWait`: the entries of the queue are distinct speaks that still wait (`EntriesInv`,
why removing one entry removes its caller, and why the two places are enough), and a turn
has an entry in hand only inside `yield_point`, from the pop to the grant or the refusal
(`HandInv`).

**Voice.** The invariant is `VoiceInv`, with `VoiceType` and `BusyHasFrame` (a recognizer at
work has a frame to work on, without which the types are not inductive). `HolderInv` says at
which positions a request has the GPU and `_worker_lock`, so at most one request is past the
grant: all later parts are about that one. `PipeInv` is about the read-aloud workers: one that
has a "speak" in its pipe, or generates, has it from the request that still reads its messages,
uses this worker and has not been sent the message that ends it; and every message in a pipe is
of a request that was sent. So leaving the loop by a "done" or an "error", by a reset, or
because the worker is dead, always leaves a worker that has nothing to do, and a later request
never meets a message that looks like its own. `FrameInv` is about the recognizer: between two
requests both pipes are empty (`Resting`), and at each position of the one that has it the
frames under way are exactly those it still owes (`Boots`, `OwesAnswer`, `OwesAck`, the last
two with one frame more once the watcher asked). `QuietVoice` follows from the two, and
`OwnTranscript` from `FrameInv` alone: the frame that is read as an answer is the request's.
`FrameInv` holds while `~raced`; where the watcher's cancel is answered when nobody waits for
the answer it fails, which is the finding `voice_shift`. `SetupInv` (no worker is started while
setup has the GPU) and `CloseInv`, with `EventInv` (whose event `audio_cancel` is at each
position of a handler, also of one that comes while the server closes), give `SetupAlone` and `ClosedForGood`: what is under way when the
server closes has its event set, a sentence that takes the audio lock later is in `missed`
once it makes its own, and a request whose event is set starts no worker.

**Turns.** `ThreadInv` ties a thread to its request, `LockInv` the coordinator's lock and
`GpuHasOneOwner` the GPU to positions; `StreamInv` says that a request at the worker has a
live reader, or a turn that will stop the worker, or the failure flag that refuses all
later turns: from it follows `QuietGpu`. `OnceInv` follows an action id from its
submission to the set of those carried out. `RefusingInv` says that a turn the store
refuses has not ended, unless a failing save left it active; `JobsInv` is about `close`. Only
`RequestAssumption` is needed, for any number of failing saves and overruns.

**History.** `StoreInv` relates record, file, pending bytes and the cancelled set,
`LossInv` counts the texts since the last save. The reader has an invariant of its own,
`ReadInv`, about the events in the deque and in the inbox together. `FlowInv` numbers both,
without gaps inside either; `PairInv` says that neighbouring events of a turn carry texts
that differ by what the later one adds, `BlockInv` that a turn's events are contiguous.
`EndInv` ties the events to the record: the last event of a turn carries its reply as it is
now, and a turn that began has an event unless some fell off the deque. `FollowInv` says
what the client has while it waits: the reply up to its cursor, which the first event of
its turn beyond the cursor continues; so a text that is printed is the next one
(`ShownInv`), and the "done" carries as many texts as were printed. What the client does
not find in the deque any more is a gap, and a gap ends it. `DurInv` says that without
failing saves an active reply is open and every closed one is in the file as in memory;
with `LossInv` and `ReadInv` it gives `DoneIsDurable`.

**Pairs.** `TrackInv` says that a worker this assistant started is tracked until it is dead
or known to survive a kill, `StageInv` that a stage starts a worker only when its
predecessor is (`Over`), `ContextInv` which context the chat worker has at each stage: this
half (`BaseInv`) needs no assumption and gives `ContextIsServed`. `RecordInv` is about the
records. `ChatInv` says at which stages the token owns the chat record, and for how many
bytes; `DecisionInv` that a decision worker past its claim is named in the record as the
claimant, so there is one, and that it is the tracked one, or nobody is tracked because it
outlived its assistant: so every stop and every start that fails finds it alive and keeps its
record. Each has the alternative that a status() has cleared that record: then the worker is
`Lost`, and stays so while it lives. `LostInv` says that whoever lost a record owns none, so
a status() that clears at a bad moment harms its one victim and no other worker: no second
worker holds a record, or is taken for its claimant, because of it.

`MemoryInv` adds the sizes. `Charges` is what each record holds against admissions,
`Unbacked` what is in memory beside the records: the weights of a decision worker that
relabelled its record, and those of a chat worker that was killed, has not ended and lost its
record (`Stray`). `FitsInv` says that the two together fit. A step that moves weights from one
to the other (a relabel, a cleared chat record) keeps their sum; an admission, a launch or a
growth adds to `Charges` only what its headroom left. The manager's headroom is computed from
a reading it took earlier, so `MeasuredInv` says that the reading is still good when it is
used: what was stray, or relabelled, when the memory was read has been counted in it, and
none comes between, because a worker relabels only while its record is pending, of which none
is left when a growth reads but a worker that has lost it (`LoadInv`), and because a growth or
a start that waits keeps the chat record, unless status() takes it. `GrownInv` says that the record a failed growth gives back is the grown one, so
that it shrinks. `NoOvercommit` follows: what a model may come to use is covered by its
record's charge and what it has beside it, each record backs one model, and a launch is
covered by its own.

All of these are sums over finite sets, for which `Functions` has a recursive function and
the provers no induction. `SumIsCount` shows instead that such a sum is the number of elements
of a set of pairs (`Units`), by a smallest subset for which it would not be; what remains are
the library's theorems on cardinality. `SumBelow` (fewer and smaller terms), `SumShift` and
`SumGrows` (one term that grows) are all the other proofs use.

**Transfer.** `UnitInv` says for each unit and each position of the attempt where its old
and new copies are, `LockInv` the same for locks, `VenvInv` (with `OldVenv`, `NewVenv`) for
the runtime; `OutcomeInv` relates the end to what was there at the beginning. The
invariant has to describe every partial rollback, because a step of it may raise.

**Submission.** `OrderInv` says that every accepted submission of a stream has its next one
wait for it, or is over although a join forgot it: so the submissions of a stream run one
after the other, which the queue itself does not promise. `RingInv` and `EventInv` follow slots and events, `BufferInv` the
stamps. Only `NoLiveReuse` needs `~Shared`.

**AneRuntime.** `LockInv` says who holds the lock file by its open descriptions,
`SocketInv` what may be on the socket at each pair of positions, `RecordInv` and
`ReasonInv` why the record is there, `OwnInv` whose inputs are in the staging buffer,
`UnknownInv` that an unknown completion keeps the record. `SoleFile`, one lock file for all,
is needed for the refinement only, and `MCAnePrivateLock.cfg` shows that it is.

**CommunityData.** `RoleInv` says which invocation may be where, `FreshInv` that the row of a
run that is under way was refreshed, so no collection is due; `GoingInv` that the row a run
works on exists. From these follows `ReceiptIsTrue`: the row is still there when it is
published. `PlainInv` says that a piece of a plain archive is the one that was sent, at its
index, for any number of overlapping runs: nothing ever removes a piece of a fresh row, so
what complete counted is what is published. For a stripped submission that is false while two
runs overlap; `OneRunInv` says that without `Overlap` a submission has one run, and
`RewriteInv` follows its rewrite piece by piece. `~SlowRuns` and `~Overlap` cannot be dropped:
`MCCommunityGc.cfg` and `MCCommunityOverlap.cfg`.

**Only model-checked.** All liveness, because fairness and ENABLED are outside the prover's
reach. Every safety invariant and every action property that a run checks is proved, as are
the two refinements.

## 5. Not modelled, and the plan

1. `Pairs` with the voice record, a switch between pairs, the downloads of a setup, and
   launches of module servers: one that loads and relabels between the manager's reading of
   the memory and its transaction counts in neither.
2. The recovery of a lost Vulkan device (`device.cpp:1132`), the watchdog, and a fresh value
   signalled from the host while submissions run (`event.cpp:326`).
3. A larger instance of `Turns`: a second conversation and a second cancel exceed what five
   minutes of TLC allow; the theorems cover them.
4. Further out: the worker of automatic routing, the web page's reader, the receipts of the
   voice packs, the columns of a community database before its third migration.

Kernels, fusion, converters, exporters, parsers, cards, catalog arithmetic and the
installer stay out: what can go wrong in them is numerical, textual or one-shot I/O, not
an interleaving, and a state machine of it would say nothing. They are most of the
repository's lines.

## 6. Running

```
tlc -workers 2 -config MCSpeechYieldSafety.cfg MCSpeechYield
tlc -workers 2 -config MCSpeechYieldLive.cfg MCSpeechYield
tlc -workers 2 -config MCHistory.cfg MCHistory
tlc -workers 2 -config MCTurns.cfg MCTurns
tlc -workers 2 -config MCPairs.cfg MCPairs
tlc -workers 2 -config MCTransfer.cfg MCTransfer
tlc -workers 2 -config MCSubmission.cfg MCSubmission
tlc -workers 2 -config MCAneRuntime.cfg MCAneRuntime
tlc -workers 2 -config MCVoice.cfg MCVoice
tlc -workers 2 -config MCCommunity.cfg MCCommunity
tlapm SpeechProofs.tla          # and TurnsProofs, HistoryProofs, TransferProofs,
                                # SubmissionProofs, AneRuntimeProofs, CommunityProofs,
                                # PairsProofs
```

The other configurations, of the findings and of the known counterexamples, run with these
modules: `MCProbeRebinds`, `MCLateControl`
and `MCSelfBlock` with `MCSpeechYield`, `MCHistoryStuck` with `MCHistory`, `MCStaleControl`
with `MCTurns`, `MCChatOrphan` and `MCStatusReaps` with `MCPairs`, `MCTransferRetry` with
`MCTransfer`, `MCSharedBuffer` with `MCSubmission`, `MCAnePrivateLock` with `MCAneRuntime`,
`MCVoiceShift` and `MCVoiceDeadline` with `MCVoice`; `MCCommunityOverlap`,
`MCCommunityGc` and `MCCommunityWithheld` with `MCCommunity`.
