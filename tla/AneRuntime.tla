------------------------------ MODULE AneRuntime ------------------------------
(***************************************************************************)
(* The Neural Engine runtime: the host half in the calling process         *)
(* (runtime.cpp), the worker process that alone touches the device         *)
(* (runtime_worker.cpp), the lock and the quarantine record on disk that   *)
(* outlive both (runtime_ownership.h), deadlines, deaths of either process *)
(* and reboots.                                                            *)
(*                                                                         *)
(* A runtime is one call of AneRuntime::load in a process of its own.  The *)
(* lock is a flock on a description that host and worker share: it is held *)
(* until both have closed it.  The record names the boot that wrote it.    *)
(* A deadline is a flag that becomes true; every check of the clock reads  *)
(* it, and may read it just before it changes.                             *)
(***************************************************************************)
EXTENDS Naturals, FiniteSets

CONSTANTS Runtimes,
          Files,      \* the places a lock and its record can be
          FileOf,     \* which of them each runtime opens
          Calls,
          Op,         \* "execute" or "shutdown"
          Target,     \* the runtime of each call
          Programs,   \* length of the dispatch plan
          MaxBoots,   \* bound on reboots
          None

ASSUME AneAssumption ==
  /\ FileOf \in [Runtimes -> Files]
  /\ Op \in [Calls -> {"execute", "shutdown"}]
  /\ Target \in [Calls -> Runtimes]
  /\ Programs \in Nat \ {0} /\ MaxBoots \in Nat
  /\ None \notin Calls

VARIABLES boot,      \* boot id
          record,    \* per file: the boot id in the quarantine file, or 0
          fds,       \* per runtime: who has its locked description open
          host,      \* per runtime: the host half
          control,   \* per runtime: the host's end of the control socket is open
          tx,        \* per runtime: the call inside transaction_mutex
          call,      \* how far each call got
          late,      \* calls whose deadline has passed
          answer,    \* the call whose inputs each call's outputs came from
          worker,    \* per runtime: the worker process
          todo,      \* per runtime: programs of the plan still to submit
          command,   \* per runtime: the command in the socket, a call
          serving,   \* per runtime: the call whose command the worker took
          reply,     \* per runtime: the reply in the socket
          staging,   \* per runtime: whose tensors the staging buffer holds
          dense,     \* per runtime: whose tensors the worker computes on
          unknown,   \* history: a completion became unknown in this boot
          excused    \* history: the files whose record was left without that

diskVars == <<boot, record, fds>>
hostVars == <<host, control, tx, call, late, answer>>
workerVars == <<worker, todo, serving, dense>>
socketVars == <<command, reply>>
historyVars == <<unknown, excused>>
vars == <<diskVars, hostVars, workerVars, socketVars, staging, historyVars>>

File(r) == FileOf[r]
Alive(r) == worker[r] # "none"
Open(c) == call[c] \notin {"new", "ok", "failed"}
\* Runtimes whose description of file f is still open somewhere: the flock.
Holders(f) == {r \in Runtimes : File(r) = f /\ fds[r] # {}}

\* Part of the plan was submitted for the command being served.
Dispatched(r) ==
  \/ worker[r] = "executing"
  \/ worker[r] \in {"packing", "submitting"} /\ todo[r] < Programs

HostIs(r, from, to) == host[r] = from /\ host' = [host EXCEPT ![r] = to]
Ends(c, how) == call' = [call EXCEPT ![c] = how]
Returns(c, how) == Ends(c, how) /\ tx' = [tx EXCEPT ![Target[c]] = None]
Closes(r, who) == fds' = [fds EXCEPT ![r] = @ \ {who}]
Becomes(r, to) == worker' = [worker EXCEPT ![r] = to]
Sends(r, what) == reply' = [reply EXCEPT ![r] = IF control[r] THEN what ELSE "none"]

-----------------------------------------------------------------------------
\* AneRuntime::load: Impl::start, in its order

\* flock(LOCK_EX | LOCK_NB): the loser throws.
TakeLock(r) ==
  /\ IF Holders(File(r)) = {}
       THEN /\ HostIs(r, "new", "locked")
            /\ fds' = [fds EXCEPT ![r] = {"host"}]
       ELSE /\ HostIs(r, "new", "gone")
            /\ UNCHANGED fds
  /\ UNCHANGED <<boot, record, control, tx, call, late, answer, workerVars,
                 socketVars, staging, historyVars>>

\* A record of this boot refuses the runtime and stays.
WriteRecord(r) ==
  /\ IF record[File(r)] = boot
       THEN /\ HostIs(r, "locked", "gone")
            /\ Closes(r, "host")
            /\ UNCHANGED record
       ELSE /\ HostIs(r, "locked", "owned")
            /\ record' = [record EXCEPT ![File(r)] = boot]
            /\ UNCHANGED fds
  /\ UNCHANGED <<boot, control, tx, call, late, answer, workerVars, socketVars,
                 staging, historyVars>>

\* Anything that throws before arm(): the destructor clears the record.
StartFails(r) ==
  /\ HostIs(r, "owned", "gone")
  /\ record' = [record EXCEPT ![File(r)] = 0]
  /\ Closes(r, "host")
  /\ UNCHANGED <<boot, control, tx, call, late, answer, workerVars, socketVars,
                 staging, historyVars>>

\* posix_spawn and arm(): from here on the destructor keeps the record.
Spawn(r) ==
  /\ HostIs(r, "owned", "starting")
  /\ control' = [control EXCEPT ![r] = TRUE]
  /\ fds' = [fds EXCEPT ![r] = {"host", "worker"}]
  /\ Becomes(r, "loading")
  /\ UNCHANGED <<boot, record, tx, call, late, answer, todo, serving, dense,
                 socketVars, staging, historyVars>>

\* mark_unusable.  Without doubt about a completion the record is cleared and
\* the lock closed, unless that cleanup fails; with doubt both stay.
MarkUnusable(r, uncertain) ==
  /\ host' = [host EXCEPT ![r] = "unusable"]
  /\ control' = [control EXCEPT ![r] = FALSE]
  /\ unknown' = (unknown \/ uncertain)
  /\ \/ /\ ~uncertain
        /\ record' = [record EXCEPT ![File(r)] = 0]
        /\ Closes(r, "host")
        /\ UNCHANGED excused
     \/ /\ ~uncertain
        /\ excused' = excused \cup {File(r)}
        /\ UNCHANGED <<record, fds>>
     \/ /\ uncertain
        /\ UNCHANGED <<record, fds, excused>>
  /\ UNCHANGED boot

Started(r) ==
  /\ reply[r] = "ready"
  /\ HostIs(r, "starting", "usable")
  /\ reply' = [reply EXCEPT ![r] = "none"]
  /\ UNCHANGED <<diskVars, control, tx, call, late, answer, workerVars, command,
                 staging, historyVars>>

\* The deadline, a worker that is gone, a "failed" reply or another identity.
StartGivesUp(r) ==
  /\ host[r] = "starting"
  /\ MarkUnusable(r, FALSE)
  /\ reply' = [reply EXCEPT ![r] = "none"]
  /\ UNCHANGED <<tx, call, late, answer, workerVars, command, staging>>

-----------------------------------------------------------------------------
\* execute and shutdown

Begin(c) ==
  /\ call[c] = "new"
  /\ host[Target[c]] \in {"usable", "unusable"}
  /\ Ends(c, "waiting")
  /\ UNCHANGED <<diskVars, host, control, tx, late, answer, workerVars,
                 socketVars, staging, historyVars>>

\* The call's absolute deadline passes, wherever the call is.
Expire(c) ==
  /\ Open(c) /\ c \notin late
  /\ late' = late \cup {c}
  /\ UNCHANGED <<diskVars, host, control, tx, call, answer, workerVars,
                 socketVars, staging, historyVars>>

\* Mutant: no transaction mutex.
EnterUnlocked(c) ==
  /\ call[c] = "waiting"
  /\ host[Target[c]] = "usable"
  /\ Ends(c, "filled")
  /\ tx' = [tx EXCEPT ![Target[c]] = c]
  /\ staging' = [staging EXCEPT ![Target[c]] = IF Op[c] = "execute" THEN c ELSE @]
  /\ UNCHANGED <<diskVars, host, control, late, answer, workerVars, socketVars,
                 historyVars>>

\* transaction_mutex in time, is_usable, and the inputs are copied to staging.
Enter(c) ==
  /\ call[c] = "waiting"
  /\ tx[Target[c]] = None
  /\ IF host[Target[c]] = "usable"
       THEN /\ Ends(c, "filled")
            /\ tx' = [tx EXCEPT ![Target[c]] = c]
            /\ staging' = [staging EXCEPT ![Target[c]] =
                             IF Op[c] = "execute" THEN c ELSE @]
       ELSE Ends(c, "failed") /\ UNCHANGED <<tx, staging>>
  /\ UNCHANGED <<diskVars, host, control, late, answer, workerVars, socketVars,
                 historyVars>>

\* The deadline passes before the mutex is free.
NeverEnters(c) ==
  /\ call[c] = "waiting" /\ c \in late
  /\ tx[Target[c]] # None
  /\ Ends(c, "failed")
  /\ UNCHANGED <<diskVars, host, control, tx, late, answer, workerVars,
                 socketVars, staging, historyVars>>

\* ensure_before throws: nothing was sent and the runtime stays usable.
TooLate(c) ==
  /\ call[c] = "filled" /\ c \in late
  /\ Returns(c, "failed")
  /\ UNCHANGED <<diskVars, host, control, late, answer, workerVars, socketVars,
                 staging, historyVars>>

Send(c) ==
  /\ call[c] = "filled" /\ c \notin late
  /\ Alive(Target[c])
  /\ Ends(c, "sent")
  /\ command' = [command EXCEPT ![Target[c]] = c]
  /\ UNCHANGED <<diskVars, host, control, tx, late, answer, workerVars, reply,
                 staging, historyVars>>

\* The worker is gone, or the socket does not take the command in time.
SendFails(c) ==
  /\ call[c] = "filled"
  /\ c \in late \/ ~Alive(Target[c])
  /\ MarkUnusable(Target[c], FALSE)
  /\ Returns(c, "failed")
  /\ UNCHANGED <<late, answer, workerVars, socketVars, staging>>

\* The outputs are copied from staging.
Answered(c) ==
  /\ call[c] = "sent" /\ Op[c] = "execute"
  /\ reply[Target[c]] = "executed"
  /\ answer' = [answer EXCEPT ![c] = staging[Target[c]]]
  /\ Returns(c, "ok")
  /\ reply' = [reply EXCEPT ![Target[c]] = "none"]
  /\ UNCHANGED <<diskVars, host, control, late, workerVars, command, staging,
                 historyVars>>

\* The worker says that it failed before it submitted anything.
FailedBefore(c) ==
  /\ call[c] = "sent" /\ Op[c] = "execute"
  /\ reply[Target[c]] = "failed"
  /\ MarkUnusable(Target[c], FALSE)
  /\ Returns(c, "failed")
  /\ reply' = [reply EXCEPT ![Target[c]] = "none"]
  /\ UNCHANGED <<late, answer, workerVars, command, staging>>

\* Mutant: the reply is waited for without the deadline.
NeverAnsweredPatient(c) ==
  /\ call[c] = "sent"
  /\ \/ reply[Target[c]] = "none" /\ ~Alive(Target[c])
     \/ reply[Target[c]] = "uncertain"
  /\ MarkUnusable(Target[c], TRUE)
  /\ Returns(c, "failed")
  /\ reply' = [reply EXCEPT ![Target[c]] = "none"]
  /\ UNCHANGED <<late, answer, workerVars, command, staging>>

\* No reply by the deadline, no worker to send one, or one that says as much.
NeverAnswered(c) ==
  /\ call[c] = "sent"
  /\ \/ c \in late
     \/ reply[Target[c]] = "none" /\ ~Alive(Target[c])
     \/ reply[Target[c]] = "uncertain"
  /\ MarkUnusable(Target[c], TRUE)
  /\ Returns(c, "failed")
  /\ reply' = [reply EXCEPT ![Target[c]] = "none"]
  /\ UNCHANGED <<late, answer, workerVars, command, staging>>

Stopped(c) ==
  /\ call[c] = "sent" /\ Op[c] = "shutdown"
  /\ reply[Target[c]] = "stopped"
  /\ Ends(c, "exiting")
  /\ reply' = [reply EXCEPT ![Target[c]] = "none"]
  /\ UNCHANGED <<diskVars, host, control, tx, late, answer, workerVars, command,
                 staging, historyVars>>

\* wait_for_exit, then the record is cleared, the lock closed and the receipt
\* returned; a cleanup that throws leaves both to the destructor.
ExitSeen(c) ==
  LET r == Target[c] IN
  /\ call[c] = "exiting" /\ ~Alive(r)
  /\ host' = [host EXCEPT ![r] = "unusable"]
  /\ \/ /\ record' = [record EXCEPT ![File(r)] = 0]
        /\ Closes(r, "host")
        /\ Returns(c, "ok")
        /\ UNCHANGED excused
     \/ /\ excused' = excused \cup {File(r)}
        /\ Returns(c, "failed")
        /\ UNCHANGED <<record, fds>>
  /\ UNCHANGED <<boot, control, late, answer, workerVars, socketVars, staging,
                 unknown>>

ExitTooLate(c) ==
  /\ call[c] = "exiting" /\ c \in late
  /\ MarkUnusable(Target[c], TRUE)
  /\ Returns(c, "failed")
  /\ UNCHANGED <<late, answer, workerVars, socketVars, staging>>

-----------------------------------------------------------------------------
\* The end of the host half

\* ~AneRuntime, when no call uses the runtime any more.  One that is still
\* usable has tried to shut down, in vain, and keeps its record.
Destroy(r) ==
  /\ \A c \in Calls : Target[c] = r => ~Open(c)
  /\ \/ host[r] = "unusable" /\ UNCHANGED excused
     \/ /\ host[r] = "usable"
        /\ \E c \in Calls : Target[c] = r /\ Op[c] = "shutdown" /\ call[c] = "failed"
        /\ excused' = excused \cup {File(r)}
  /\ host' = [host EXCEPT ![r] = "gone"]
  /\ control' = [control EXCEPT ![r] = FALSE]
  /\ Closes(r, "host")
  /\ UNCHANGED <<boot, record, tx, call, late, answer, workerVars, socketVars,
                 staging, unknown>>

\* The calling process dies.
HostDies(r) ==
  /\ host[r] \notin {"new", "gone"}
  /\ host' = [host EXCEPT ![r] = "gone"]
  /\ control' = [control EXCEPT ![r] = FALSE]
  /\ Closes(r, "host")
  /\ tx' = [tx EXCEPT ![r] = None]
  /\ call' = [c \in Calls |->
                IF Target[c] = r /\ Open(c) THEN "failed" ELSE call[c]]
  /\ excused' = IF host[r] \in {"owned", "starting", "usable"}
                  THEN excused \cup {File(r)} ELSE excused
  /\ UNCHANGED <<boot, record, late, answer, workerVars, socketVars, staging,
                 unknown>>

\* Every process dies and the boot id changes; the record may be on a tmpfs.
Reboot ==
  /\ boot < MaxBoots
  /\ boot' = boot + 1
  /\ record' \in {record, [f \in Files |-> 0]}
  /\ fds' = [r \in Runtimes |-> {}]
  /\ host' = [r \in Runtimes |-> IF host[r] = "new" THEN "new" ELSE "gone"]
  /\ control' = [r \in Runtimes |-> FALSE]
  /\ tx' = [r \in Runtimes |-> None]
  /\ call' = [c \in Calls |-> IF Open(c) THEN "failed" ELSE call[c]]
  /\ worker' = [r \in Runtimes |-> "none"]
  /\ unknown' = FALSE /\ excused' = {}
  /\ UNCHANGED <<late, answer, todo, serving, dense, socketVars, staging>>

-----------------------------------------------------------------------------
\* The worker: run_worker

\* The programs are loaded and "ready" is sent; with nobody to hear it, or a
\* program that does not load, the worker leaves.
Load(r) ==
  /\ worker[r] = "loading"
  /\ \/ Becomes(r, IF control[r] THEN "idle" ELSE "leaving") /\ Sends(r, "ready")
     \/ Becomes(r, "leaving") /\ Sends(r, "failed")
  /\ UNCHANGED <<diskVars, hostVars, todo, serving, dense, command, staging,
                 historyVars>>

\* The next command and, for an execute, its inputs (receive_command,
\* read_inputs).  As a mutant of Receive: a closed socket is not the end.
TakeCommand(r) ==
  /\ worker[r] = "idle" /\ command[r] # None
  /\ Becomes(r, IF Op[command[r]] = "shutdown" THEN "leaving" ELSE "packing")
  /\ IF Op[command[r]] = "shutdown" THEN Sends(r, "stopped") ELSE UNCHANGED reply
  /\ serving' = [serving EXCEPT ![r] = command[r]]
  /\ dense' = [dense EXCEPT ![r] = staging[r]]
  /\ todo' = [todo EXCEPT ![r] = Programs]
  /\ command' = [command EXCEPT ![r] = None]
  /\ UNCHANGED <<diskVars, hostVars, staging, historyVars>>

\* receive_command: the next command or, with none left, the end of the socket.
Receive(r) ==
  \/ TakeCommand(r)
  \/ /\ worker[r] = "idle" /\ command[r] = None /\ ~control[r]
     /\ Becomes(r, "leaving")
     /\ UNCHANGED <<diskVars, hostVars, todo, serving, dense, socketVars, staging,
                    historyVars>>

\* Mutant: "failed" is sent whatever was submitted.
CheckDeadlineFailed(r) ==
  /\ worker[r] = "packing" /\ todo[r] > 0
  /\ IF serving[r] \in late
       THEN /\ Becomes(r, "leaving")
            /\ Sends(r, "failed")
            /\ unknown' = (unknown \/ Dispatched(r))
       ELSE Becomes(r, "submitting") /\ UNCHANGED <<reply, unknown>>
  /\ UNCHANGED <<diskVars, hostVars, todo, serving, dense, command, staging,
                 excused>>

\* ensure_worker_before: the deadline of the command, before each transfer and
\* each submission.  With programs of the plan submitted before, the dispatch is
\* partial, which counts as an unknown completion.
CheckDeadline(r) ==
  /\ worker[r] = "packing" /\ todo[r] > 0
  /\ IF serving[r] \in late
       THEN /\ Becomes(r, "leaving")
            /\ Sends(r, IF Dispatched(r) THEN "uncertain" ELSE "failed")
            /\ unknown' = (unknown \/ Dispatched(r))
       ELSE /\ Becomes(r, "submitting")
            /\ UNCHANGED <<reply, unknown>>
  /\ UNCHANGED <<diskVars, hostVars, todo, serving, dense, command, staging,
                 excused>>

\* ane_exec is entered ...
Submit(r) ==
  /\ worker[r] = "submitting"
  /\ Becomes(r, "executing")
  /\ todo' = [todo EXCEPT ![r] = @ - 1]
  /\ UNCHANGED <<diskVars, hostVars, serving, dense, socketVars, staging,
                 historyVars>>

\* ... and returns: done, or with an error that leaves the completion unknown.
ExecReturns(r) ==
  /\ worker[r] = "executing"
  /\ \/ Becomes(r, "packing") /\ UNCHANGED <<reply, unknown>>
     \/ /\ Becomes(r, "leaving")
        /\ Sends(r, "uncertain")
        /\ unknown' = TRUE
  /\ UNCHANGED <<diskVars, hostVars, todo, serving, dense, command, staging,
                 excused>>

\* The last program is done: outputs to staging, "executed" to the host.
Finish(r) ==
  /\ worker[r] = "packing" /\ todo[r] = 0
  /\ staging' = [staging EXCEPT ![r] = dense[r]]
  /\ Sends(r, "executed")
  /\ Becomes(r, IF control[r] THEN "idle" ELSE "leaving")
  /\ UNCHANGED <<diskVars, hostVars, todo, serving, dense, command, historyVars>>

Exit(r) ==
  /\ worker[r] = "leaving"
  /\ Becomes(r, "none")
  /\ Closes(r, "worker")
  /\ UNCHANGED <<boot, record, hostVars, todo, serving, dense, socketVars, staging,
                 historyVars>>

\* The worker dies anywhere; in the middle of a dispatch nobody knows.
Crash(r) ==
  /\ Alive(r)
  /\ Becomes(r, "none")
  /\ Closes(r, "worker")
  /\ unknown' = (unknown \/ Dispatched(r))
  /\ UNCHANGED <<boot, record, hostVars, todo, serving, dense, socketVars, staging,
                 excused>>

-----------------------------------------------------------------------------

Init ==
  /\ boot = 1
  /\ record = [f \in Files |-> 0]
  /\ fds = [r \in Runtimes |-> {}]
  /\ host = [r \in Runtimes |-> "new"]
  /\ control = [r \in Runtimes |-> FALSE]
  /\ tx = [r \in Runtimes |-> None]
  /\ call = [c \in Calls |-> "new"]
  /\ late = {}
  /\ answer = [c \in Calls |-> None]
  /\ worker = [r \in Runtimes |-> "none"]
  /\ todo = [r \in Runtimes |-> 0]
  /\ command = [r \in Runtimes |-> None]
  /\ serving = [r \in Runtimes |-> None]
  /\ reply = [r \in Runtimes |-> "none"]
  /\ staging = [r \in Runtimes |-> None]
  /\ dense = [r \in Runtimes |-> None]
  /\ unknown = FALSE
  /\ excused = {}

Loading(r) ==
  \/ TakeLock(r) \/ WriteRecord(r) \/ StartFails(r) \/ Spawn(r)
  \/ Started(r) \/ StartGivesUp(r)

\* What a thread inside a call does next.
Calling(c) ==
  \/ Enter(c) \/ NeverEnters(c) \/ TooLate(c) \/ Send(c) \/ SendFails(c)
  \/ Answered(c) \/ FailedBefore(c) \/ NeverAnswered(c)
  \/ Stopped(c) \/ ExitSeen(c) \/ ExitTooLate(c)

\* What the worker does by itself, the device aside.
Working(r) ==
  Load(r) \/ Receive(r) \/ CheckDeadline(r) \/ Submit(r) \/ Finish(r) \/ Exit(r)

Next ==
  \/ \E r \in Runtimes :
       \/ Loading(r) \/ Destroy(r) \/ HostDies(r)
       \/ Working(r) \/ ExecReturns(r) \/ Crash(r)
  \/ \E c \in Calls : Begin(c) \/ Expire(c) \/ Calling(c)
  \/ Reboot

Spec == Init /\ [][Next]_vars

\* Threads and the worker run, and time passes.  Nothing makes the device
\* return from a program, a caller call, or a process die.
FairSpec ==
  /\ Spec
  /\ \A c \in Calls : WF_vars(Calling(c)) /\ WF_vars(Expire(c))
  /\ \A r \in Runtimes : WF_vars(Working(r))

-----------------------------------------------------------------------------

TypeOK ==
  /\ boot \in Nat
  /\ record \in [Files -> Nat]
  /\ fds \in [Runtimes -> SUBSET {"host", "worker"}]
  /\ host \in [Runtimes -> {"new", "locked", "owned", "starting", "usable",
                            "unusable", "gone"}]
  /\ control \in [Runtimes -> BOOLEAN]
  /\ tx \in [Runtimes -> Calls \cup {None}]
  /\ call \in [Calls -> {"new", "waiting", "filled", "sent", "exiting", "ok",
                         "failed"}]
  /\ late \in SUBSET Calls
  /\ answer \in [Calls -> Calls \cup {None}]
  /\ worker \in [Runtimes -> {"none", "loading", "idle", "packing", "submitting",
                              "executing", "leaving"}]
  /\ todo \in [Runtimes -> Nat]
  /\ command \in [Runtimes -> Calls \cup {None}]
  /\ serving \in [Runtimes -> Calls \cup {None}]
  /\ reply \in [Runtimes -> {"none", "ready", "failed", "uncertain", "executed",
                             "stopped"}]
  /\ staging \in [Runtimes -> Calls \cup {None}]
  /\ dense \in [Runtimes -> Calls \cup {None}]
  /\ unknown \in BOOLEAN
  /\ excused \in SUBSET Files

\* The runtimes that passed the lock and the record and are not all gone.
Owners == {r \in Runtimes : fds[r] # {} /\ host[r] # "locked"}
Running == {r \in Runtimes : worker[r] = "executing"}

\* The promise of AneDevice: one owner, host or worker, at a time, only it runs
\* programs, one at a time, and after a completion became unknown nobody owns
\* the device again in this boot (docs/ane-runtime.md:11), across deadlines,
\* deaths of host and worker, and workers that outlive their host.
Device == INSTANCE AneDevice WITH owner <- Owners, running <- Running,
                                  spoiled <- unknown
ImplementsDevice == Device!Spec

\* The record of this boot is left behind only by a completion that is unknown,
\* a host that died, or a cleanup that failed: every other way out, a failed
\* start, a confirmed failure before submission and a clean shutdown, gives the
\* device to the next runtime (docs/ane-runtime.md:11).
NoFalseQuarantine ==
  \A f \in Files : (record[f] = boot /\ Holders(f) = {}) => (unknown \/ f \in excused)

\* An execute that returns outputs returns those of its own inputs, although
\* every call of a runtime uses one staging buffer (runtime.cpp:706-768).
ResultIsOwn ==
  \A c \in Calls : (call[c] = "ok" /\ Op[c] = "execute") => answer[c] = c

\* A shutdown that returned its receipt left no worker: "Only a returned
\* receipt confirms clean release" (docs/ane-runtime.md:13).
ReceiptIsHonest ==
  \A c \in Calls : (call[c] = "ok" /\ Op[c] = "shutdown") => ~Alive(Target[c])

\* A call returns by its deadline, whatever the worker and the device do.
CallsReturn ==
  \A c \in Calls : (call[c] = "waiting") ~> (call[c] \in {"ok", "failed"})

\* A worker whose host gave it up or died ends, and with it the lock, unless
\* the device never returns from the program it runs.
WorkerLeaves ==
  \A r \in Runtimes :
    (Alive(r) /\ ~control[r]) ~> (~Alive(r) \/ worker[r] = "executing")

=============================================================================
