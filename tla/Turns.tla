-------------------------------- MODULE Turns --------------------------------
(***************************************************************************)
(* The life of a turn in the coordinator (coordinator.py: submit, action,  *)
(* _run, _release_turn, cancel, _watch, close; LocalModels): the request   *)
(* that submits it, its thread, the registry of running turns, the GPU     *)
(* lock, the conversation's active turn and the one connection to the      *)
(* workers that every turn shares.                                         *)
(*                                                                         *)
(* What a turn streams is in History, what the workers are in Pairs and    *)
(* what speech does with the GPU lock in SpeechYield; here a turn holds    *)
(* the lock from submit to its end.  A request is a POST of a prompt or of *)
(* a control's values, and names the turn it begins.                       *)
(*                                                                         *)
(* A save of the store may raise (full disk, MAX_HISTORY).  A turn has one *)
(* or two chats, the reply and a repair of it; they are one stream here.   *)
(***************************************************************************)
EXTENDS Naturals, FiniteSets

CONSTANTS NoOne,
          Prompts,          \* requests that call submit
          Controls,         \* requests that call action
          ActionId,         \* the action id of each control; a retry repeats it
          Cid,              \* the conversation of each request
          MaxStartFailures, \* bound on threads that do not start
          MaxFaults         \* bound on failing saves

Requests == Prompts \cup Controls
Cids == {Cid[r] : r \in Requests}

ASSUME RequestAssumption ==
  /\ NoOne \notin Requests /\ Prompts \cap Controls = {}
  /\ DOMAIN ActionId = Controls /\ DOMAIN Cid = Requests
  /\ MaxStartFailures \in Nat /\ MaxFaults \in Nat

VARIABLES req,        \* how far each request got
          component,  \* the turn whose control a request submits, as it read it
          thread,     \* the generation thread of each turn
          gpu,        \* who holds coordinator.gpu
          lock,       \* the request that holds coordinator.lock across steps
          turns,      \* coordinator.turns
          cancel,     \* turns whose cancel event is set
          failed,     \* turns whose _run caught an exception
          actions,    \* coordinator.actions: the action ids already submitted
          conn,       \* the turn whose connection LocalModels holds
          cut,        \* turns whose connection was shut down
          closing,    \* cancel() calls between the lock and close_connection
          decoding,   \* turns a worker still generates for
          failure,    \* coordinator.failure
          closer,     \* where close() is
          jobs,       \* the turns close() found
          active,     \* per conversation: record["active_turn"]
          newest,     \* per conversation: the turn of its last message
          refusing,   \* the store's cancelled set
          shown,      \* the status each turn ended with
          faults,     \* failing saves so far
          stranded,   \* history: turns that a failing save left active for good
          overrun     \* history: turns that stopped reading before the worker's end

requestVars == <<req, component, lock, actions>>
turnVars == <<thread, gpu, turns, cancel, failed>>
workerVars == <<conn, cut, closing, decoding, failure, overrun>>
closeVars == <<closer, jobs>>
storeVars == <<active, newest, refusing, shown, faults, stranded>>
vars == <<requestVars, turnVars, workerVars, closeVars, storeVars>>

Alive(r) == thread[r] \notin {"none", "dead", "unstarted"}
Submitting(r) == req[r] \in {"granted", "begun", "registered"}

Asks(r, from, to) == req[r] = from /\ req' = [req EXCEPT ![r] = to]
Goes(r, from, to) == thread[r] = from /\ thread' = [thread EXCEPT ![r] = to]

\* coordinator.lock can be entered by r: nobody is inside it across steps.
CanLock(r) == lock \in {NoOne, r}

-----------------------------------------------------------------------------
\* action(): the record is read first, the lock comes after.  (A turn that was
\* stopped may have left a control too; here the controls are of complete turns.)

ReadControl(r) ==
  /\ r \in Controls
  /\ Asks(r, "new", "read")
  /\ active[Cid[r]] = NoOne
  /\ newest[Cid[r]] # NoOne
  /\ shown[newest[Cid[r]]] = "complete"
  /\ component' = [component EXCEPT ![r] = newest[Cid[r]]]
  /\ UNCHANGED <<lock, actions, turnVars, workerVars, closeVars, storeVars>>

\* Mutant: the id is not looked up under the lock.
EnterControlUnchecked(r) ==
  /\ lock = NoOne
  /\ Asks(r, "read", "ready") /\ lock' = r
  /\ UNCHANGED <<component, actions, turnVars, workerVars, closeVars, storeVars>>

\* Under the lock, until submit returns: the id is new and, in the record read
\* before, the component belongs to the last message's turn.
EnterControl(r) ==
  /\ req[r] = "read"
  /\ lock = NoOne
  /\ IF ActionId[r] \in actions
       THEN Asks(r, "read", "refused") /\ UNCHANGED lock
       ELSE Asks(r, "read", "ready") /\ lock' = r
  /\ UNCHANGED <<component, actions, turnVars, workerVars, closeVars, storeVars>>

-----------------------------------------------------------------------------
\* submit()

Prompt(r) ==
  /\ r \in Prompts
  /\ Asks(r, "new", "ready")
  /\ UNCHANGED <<component, lock, actions, turnVars, workerVars, closeVars,
                 storeVars>>

\* A request that raises leaves the lock it took in action().
Unlocked(r) == IF lock = r THEN NoOne ELSE lock

CheckOpen(r) ==
  /\ IF failure \/ closer # "running"
       THEN Asks(r, "ready", "refused") /\ lock' = Unlocked(r)
       ELSE Asks(r, "ready", "checked") /\ UNCHANGED lock
  /\ UNCHANGED <<component, actions, turnVars, workerVars, closeVars, storeVars>>

TakeGpu(r) ==
  /\ IF gpu = NoOne
       THEN /\ Asks(r, "checked", "granted")
            /\ gpu' = r
            /\ UNCHANGED lock
       ELSE /\ Asks(r, "checked", "refused")
            /\ lock' = Unlocked(r)
            /\ UNCHANGED gpu
  /\ UNCHANGED <<component, actions, thread, turns, cancel, failed, workerVars,
                 closeVars, storeVars>>

\* A save raises.
SaveRaises == faults < MaxFaults /\ faults' = faults + 1

\* The same, before active_turn is cleared: nothing clears it any more.
Strands(r) == SaveRaises /\ stranded' = stranded \cup {r}

\* store.begin; its save comes when the turn is active already.
Begin(r) ==
  /\ IF active[Cid[r]] = NoOne
       THEN /\ Asks(r, "granted", "begun")
            /\ active' = [active EXCEPT ![Cid[r]] = r]
            /\ newest' = [newest EXCEPT ![Cid[r]] = r]
            /\ UNCHANGED <<gpu, lock, faults, stranded>>
       ELSE /\ Asks(r, "granted", "refused")
            /\ gpu' = NoOne
            /\ lock' = Unlocked(r)
            /\ UNCHANGED <<active, newest, faults, stranded>>
  /\ UNCHANGED <<component, actions, thread, turns, cancel, failed, workerVars,
                 closeVars, refusing, shown>>

BeginRaises(r) ==
  /\ active[Cid[r]] = NoOne
  /\ Asks(r, "granted", "refused")
  /\ active' = [active EXCEPT ![Cid[r]] = r]
  /\ newest' = [newest EXCEPT ![Cid[r]] = r]
  /\ gpu' = NoOne
  /\ lock' = Unlocked(r)
  /\ Strands(r)
  /\ UNCHANGED <<component, actions, thread, turns, cancel, failed, workerVars,
                 closeVars, refusing, shown>>

Register(r) ==
  /\ CanLock(r)
  /\ Asks(r, "begun", "registered")
  /\ turns' = turns \cup {r}
  /\ UNCHANGED <<component, lock, actions, thread, gpu, cancel, failed,
                 workerVars, closeVars, storeVars>>

\* The thread starts and the request is answered; action() records its id.
StartThread(r) ==
  /\ Asks(r, "registered", "accepted")
  /\ thread' = [thread EXCEPT ![r] = "open"]
  /\ lock' = Unlocked(r)
  /\ actions' = IF r \in Controls THEN actions \cup {ActionId[r]} ELSE actions
  /\ UNCHANGED <<component, gpu, turns, cancel, failed, workerVars, closeVars,
                 storeVars>>

\* thread.start raises: the lock is given back, the turn stays registered.
StartFails(r) ==
  /\ Cardinality({t \in Requests : thread[t] = "unstarted"}) < MaxStartFailures
  /\ Asks(r, "registered", "refused")
  /\ thread' = [thread EXCEPT ![r] = "unstarted"]
  /\ gpu' = NoOne
  /\ lock' = Unlocked(r)
  /\ UNCHANGED <<component, actions, turns, cancel, failed, workerVars,
                 closeVars, storeVars>>

-----------------------------------------------------------------------------
\* _run

\* close_connection() shuts down whatever connection the models hold.
CloseConnection == cut' = cut \cup ({conn} \ {NoOne}) /\ conn' = NoOne

\* _open_turn: starting the workers or admission raises, or the turn is
\* cancelled already, or it goes on to the chat.
Open(r) ==
  /\ \/ Goes(r, "open", "release") /\ failed' = failed \cup {r}
     \/ r \in cancel /\ Goes(r, "open", "release") /\ UNCHANGED failed
     \/ Goes(r, "open", "connect") /\ UNCHANGED failed
  /\ UNCHANGED <<requestVars, gpu, turns, cancel, workerVars, closeVars,
                 storeVars>>

\* _connect replaces the connection the models hold.
Connect(r) ==
  /\ Goes(r, "connect", "request")
  /\ conn' = r
  /\ UNCHANGED <<requestVars, gpu, turns, cancel, failed, cut, closing, decoding,
                 failure, overrun, closeVars, storeVars>>

\* The request opens its socket, also when the connection was closed meanwhile.
Request(r) ==
  /\ Goes(r, "request", "stream")
  /\ decoding' = decoding \cup {r}
  /\ cut' = cut \ {r}
  /\ UNCHANGED <<requestVars, gpu, turns, cancel, failed, conn, closing, failure,
                 overrun, closeVars, storeVars>>

\* What the turn does after its stream may raise: emit, a repair's admission.
EndsOrRaises(r) == failed' \in {failed, failed \cup {r}}

\* The worker sends its last event and the stream is read to its end.
StreamEnds(r) ==
  /\ Goes(r, "stream", "release")
  /\ r \notin cut
  /\ EndsOrRaises(r)
  /\ decoding' = decoding \ {r}
  /\ CloseConnection
  /\ UNCHANGED <<requestVars, gpu, turns, cancel, closing, failure, overrun,
                 closeVars, storeVars>>

\* A draft, or the repair of a draft or an interface, is longer than what is read
\* of it: the worker has not heard of it.
StreamStops(r) ==
  /\ Goes(r, "stream", "release")
  /\ EndsOrRaises(r)
  /\ overrun' = overrun \cup {r}
  /\ CloseConnection
  /\ UNCHANGED <<requestVars, gpu, turns, cancel, closing, decoding, failure,
                 closeVars, storeVars>>

\* The loop sees the cancel event; the worker has not heard of it.
StreamCancelled(r) ==
  /\ Goes(r, "stream", "release")
  /\ r \in cancel
  /\ CloseConnection
  /\ UNCHANGED <<requestVars, gpu, turns, cancel, failed, closing, decoding,
                 failure, overrun, closeVars, storeVars>>

\* A read raises: the connection was shut down, the worker died or was silent
\* for 90 s.
StreamRaises(r) ==
  /\ Goes(r, "stream", "release")
  /\ failed' = failed \cup {r}
  /\ CloseConnection
  /\ UNCHANGED <<requestVars, gpu, turns, cancel, closing, decoding, failure,
                 overrun, closeVars, storeVars>>

\* Mutant: only a turn that failed stops the workers.
StopsWorkersFailed(r) == r \in failed

\* _release_turn: a turn that was cancelled or failed stops the workers; when
\* their exits are not verified the coordinator takes no more turns.
StopsWorkers(r) == r \in cancel \/ r \in failed

\* Mutant: a stop that is not verified raises past store.finish.
ReleaseSkips(r) ==
  /\ thread[r] = "release"
  /\ \/ ~StopsWorkers(r) /\ Goes(r, "release", "finish") /\ UNCHANGED <<decoding, failure>>
     \/ StopsWorkers(r) /\ Goes(r, "release", "finish") /\ decoding' = {} /\ UNCHANGED failure
     \/ StopsWorkers(r) /\ Goes(r, "release", "exit") /\ failure' = TRUE /\ UNCHANGED decoding
  /\ UNCHANGED <<requestVars, gpu, turns, cancel, failed, conn, cut, closing,
                 overrun, closeVars, storeVars>>

Release(r) ==
  /\ Goes(r, "release", "finish")
  /\ IF StopsWorkers(r)
       THEN \/ decoding' = {} /\ UNCHANGED failure
            \/ failure' = TRUE /\ UNCHANGED decoding
       ELSE UNCHANGED <<decoding, failure>>
  /\ UNCHANGED <<requestVars, gpu, turns, cancel, failed, conn, cut, closing,
                 overrun, closeVars, storeVars>>

\* Mutant: finish looks only at what the turn itself reports.
FinishFailed(r) ==
  /\ Goes(r, "finish", "exit")
  /\ shown' = [shown EXCEPT ![r] = IF r \in failed THEN "stopped" ELSE "complete"]
  /\ refusing' = refusing \ {r}
  /\ active' = [active EXCEPT ![Cid[r]] = NoOne]
  /\ UNCHANGED <<requestVars, gpu, turns, cancel, failed, workerVars, closeVars,
                 newest, faults, stranded>>

\* Mutant: finish, as emit does, returns at once for a turn that was cancelled.
FinishReturns(r) ==
  /\ Goes(r, "finish", "exit")
  /\ shown' = [shown EXCEPT ![r] =
                 IF r \in cancel \cup failed \cup refusing THEN "stopped"
                 ELSE "complete"]
  /\ active' = IF r \in refusing THEN active ELSE [active EXCEPT ![Cid[r]] = NoOne]
  /\ UNCHANGED <<requestVars, gpu, turns, cancel, failed, workerVars, closeVars,
                 newest, refusing, faults, stranded>>

\* The error event that reports it may be saved, and raise past store.finish.  (A
\* turn that the store refuses has no event.)
ReleaseRaises(r) ==
  /\ StopsWorkers(r) /\ r \notin refusing
  /\ Goes(r, "release", "exit")
  /\ failure' = TRUE
  /\ Strands(r)
  /\ UNCHANGED <<requestVars, gpu, turns, cancel, failed, conn, cut, closing,
                 decoding, overrun, closeVars, active, newest, refusing, shown>>

\* store.finish; when its last save raises, the turn has ended all the same.
Finish(r) ==
  /\ Goes(r, "finish", "exit")
  /\ shown' = [shown EXCEPT ![r] =
                 IF r \in cancel \cup failed \cup refusing THEN "stopped"
                 ELSE "complete"]
  /\ refusing' = refusing \ {r}
  /\ active' = [active EXCEPT ![Cid[r]] = NoOne]
  /\ SaveRaises \/ UNCHANGED faults
  /\ UNCHANGED <<requestVars, gpu, turns, cancel, failed, workerVars, closeVars,
                 newest, stranded>>

\* The event that finish emits may be saved, and raise.
FinishRaises(r) ==
  /\ Goes(r, "finish", "exit")
  /\ shown' = [shown EXCEPT ![r] =
                 IF r \in cancel \cup failed \cup refusing THEN "stopped"
                 ELSE "complete"]
  /\ refusing' = refusing \ {r}
  /\ Strands(r)
  /\ UNCHANGED <<requestVars, gpu, turns, cancel, failed, workerVars, closeVars,
                 active, newest>>

Exit(r) ==
  /\ CanLock(NoOne)
  /\ Goes(r, "exit", "dead")
  /\ turns' = turns \ {r}
  /\ gpu' = NoOne
  /\ UNCHANGED <<requestVars, cancel, failed, workerVars, closeVars, storeVars>>

-----------------------------------------------------------------------------
\* cancel(), by the user or by _watch when the page's heartbeat is late

\* Under the lock: a registered turn is cancelled in the store and told.
Cancel(r) ==
  /\ lock = NoOne
  /\ r \in turns
  /\ r \notin cancel
  /\ refusing' = IF active[Cid[r]] = r THEN refusing \cup {r} ELSE refusing
  /\ cancel' = cancel \cup {r}
  /\ closing' = closing \cup {r}
  /\ UNCHANGED <<requestVars, thread, gpu, turns, failed, conn, cut, decoding,
                 failure, overrun, closeVars, active, newest, shown, faults, stranded>>

\* store.cancel saves the record; when that raises, the turn is not told.
CancelRaises(r) ==
  /\ lock = NoOne
  /\ r \in turns
  /\ active[Cid[r]] = r
  /\ refusing' = refusing \cup {r}
  /\ SaveRaises
  /\ UNCHANGED <<requestVars, turnVars, workerVars, closeVars, active, newest, shown,
                 stranded>>

\* Outside it: the connection is closed, whoever's it is by now.
CancelCloses(r) ==
  /\ r \in closing
  /\ closing' = closing \ {r}
  /\ CloseConnection
  /\ UNCHANGED <<requestVars, turnVars, decoding, failure, overrun, closeVars, storeVars>>

-----------------------------------------------------------------------------
\* close()

CloseBegins ==
  /\ closer = "running"
  /\ closer' = "closed"
  /\ UNCHANGED <<requestVars, turnVars, workerVars, jobs, storeVars>>

CloseCollects ==
  /\ closer = "closed"
  /\ lock = NoOne
  /\ jobs' = turns
  /\ closer' = "cancel"
  /\ UNCHANGED <<requestVars, turnVars, workerVars, storeVars>>

\* cancel() for each job that is still registered.
CloseCancels ==
  /\ closer = "cancel"
  /\ lock = NoOne
  /\ cancel' = cancel \cup (jobs \cap turns)
  /\ refusing' = refusing \cup {r \in jobs \cap turns : active[Cid[r]] = r}
  /\ closing' = closing \cup (jobs \cap turns)
  /\ closer' = "join"
  /\ UNCHANGED <<requestVars, thread, gpu, turns, failed, conn, cut, decoding,
                 failure, overrun, jobs, active, newest, shown, faults, stranded>>

\* A cancel raises: the turns after it are not cancelled, and nothing is stopped.
CloseCancelRaises ==
  /\ closer = "cancel"
  /\ lock = NoOne
  /\ \E r \in jobs \cap turns : \E before \in SUBSET ((jobs \cap turns) \ {r}) :
        /\ active[Cid[r]] = r
        /\ cancel' = cancel \cup before
        /\ refusing' = refusing \cup {r} \cup {t \in before : active[Cid[t]] = t}
        /\ closing' = closing \cup before
  /\ SaveRaises
  /\ closer' = "raised"
  /\ UNCHANGED <<requestVars, thread, gpu, turns, failed, conn, cut, decoding,
                 failure, overrun, jobs, active, newest, shown, stranded>>

\* job["thread"] may not be there yet, or never have started: then the join
\* raises.  Otherwise a thread gets 10 s and is a survivor after that.
CloseJoins ==
  /\ closer = "join"
  /\ closing \cap jobs = {}
  /\ closer' = IF \E r \in jobs : thread[r] \in {"none", "unstarted"} THEN "raised"
               ELSE IF \E r \in jobs : Alive(r) THEN "survivors" ELSE "stop"
  /\ UNCHANGED <<requestVars, turnVars, workerVars, jobs, storeVars>>

\* manager.stop(), and close_connection() when there is nothing to report.
CloseStops ==
  /\ closer \in {"survivors", "stop"}
  /\ \/ /\ decoding' = {}
        /\ IF closer = "stop" THEN closer' = "ok" /\ CloseConnection
           ELSE closer' = "raised" /\ UNCHANGED <<cut, conn>>
     \/ closer' = "raised" /\ UNCHANGED <<decoding, cut, conn>>
  /\ UNCHANGED <<requestVars, turnVars, closing, failure, overrun, jobs, storeVars>>

-----------------------------------------------------------------------------
Init ==
  /\ req = [r \in Requests |-> "new"]
  /\ component = [r \in Requests |-> NoOne]
  /\ thread = [r \in Requests |-> "none"]
  /\ gpu = NoOne /\ lock = NoOne
  /\ turns = {} /\ cancel = {} /\ failed = {} /\ actions = {}
  /\ conn = NoOne /\ cut = {} /\ closing = {} /\ decoding = {}
  /\ failure = FALSE
  /\ closer = "running" /\ jobs = {}
  /\ active = [c \in Cids |-> NoOne]
  /\ newest = [c \in Cids |-> NoOne]
  /\ refusing = {}
  /\ shown = [r \in Requests |-> "none"]
  /\ faults = 0 /\ stranded = {} /\ overrun = {}

Submit(r) ==
  \/ ReadControl(r) \/ EnterControl(r) \/ Prompt(r)
  \/ CheckOpen(r) \/ TakeGpu(r) \/ Begin(r) \/ BeginRaises(r) \/ Register(r)
  \/ StartThread(r) \/ StartFails(r)

Run(r) ==
  \/ Open(r) \/ Connect(r) \/ Request(r)
  \/ StreamEnds(r) \/ StreamStops(r) \/ StreamCancelled(r) \/ StreamRaises(r)
  \/ Release(r) \/ ReleaseRaises(r) \/ Finish(r) \/ FinishRaises(r) \/ Exit(r)

Close ==
  \/ CloseBegins \/ CloseCollects \/ CloseCancels \/ CloseCancelRaises
  \/ CloseJoins \/ CloseStops

Next ==
  \/ \E r \in Requests :
        Submit(r) \/ Run(r) \/ Cancel(r) \/ CancelRaises(r) \/ CancelCloses(r)
  \/ Close

Spec == Init /\ [][Next]_vars

\* A thread that can go on does.  A stream ends: a read waits 90 s at most.
\* Requests arrive, users cancel and the application closes when they please.
Fairness ==
  \A r \in Requests :
    /\ WF_vars(Run(r))
    /\ WF_vars(Submit(r) /\ req[r] # "new")
    /\ WF_vars(CancelCloses(r))

FairSpec == Spec /\ Fairness

-----------------------------------------------------------------------------
TypeOK ==
  /\ req \in [Requests -> {"new", "read", "ready", "checked", "granted", "begun",
                           "registered", "accepted", "refused"}]
  /\ component \in [Requests -> Requests \cup {NoOne}]
  /\ thread \in [Requests -> {"none", "unstarted", "open", "connect", "request",
                              "stream", "release", "finish", "exit", "dead"}]
  /\ {gpu, lock, conn} \subseteq Requests \cup {NoOne}
  /\ turns \cup cancel \cup failed \cup cut \cup closing \cup decoding \cup jobs
       \cup refusing \subseteq Requests
  /\ actions \subseteq {ActionId[r] : r \in Controls}
  /\ failure \in BOOLEAN
  /\ closer \in {"running", "closed", "cancel", "join", "stop", "survivors", "ok",
                 "raised"}
  /\ active \in [Cids -> Requests \cup {NoOne}]
  /\ newest \in [Cids -> Requests \cup {NoOne}]
  /\ shown \in [Requests -> {"none", "stopped", "complete"}]
  /\ faults \in 0..MaxFaults /\ stranded \cup overrun \subseteq Requests

\* Only one thread talks to the model: every turn that has not given back the
\* GPU, from the grant in submit to the end of its thread, is its one holder,
\* and nobody else holds it (submit's except, _release_turn's finally).
GpuHasOneOwner ==
  \A r \in Requests :
    gpu = r <=> Submitting(r) \/ Alive(r)

\* An action id is acted on once, however often its POST is repeated and however
\* the repetitions interleave (action: "This action was already submitted").
ActionOnce ==
  \A r, s \in Controls :
    (r # s /\ ActionId[r] = ActionId[s]) => ~(Alive(r) /\ Alive(s)) /\
      ~(req[r] = "accepted" /\ req[s] = "accepted")

\* A conversation is busy only while the turn that makes it busy is on its way
\* to an end, except when its thread could not be started, and when begin, finish
\* or the event before finish could not be saved while it was active.
BusyIsReal ==
  \A c \in Cids : active[c] # NoOne =>
    LET t == active[c] IN
      \/ req[t] \in {"begun", "registered"}
      \/ thread[t] \in {"open", "connect", "request", "stream", "release",
                        "finish", "unstarted"}
      \/ t \in stranded

\* No worker still generates for a turn that gave the GPU back, unless the
\* coordinator has refused every further turn (_release_turn: stop the workers
\* after a failure, then give the GPU back).  A draft or a repair that is longer
\* than what is read of it does leave one, and nothing stops it.
QuietGpu == \A r \in decoding : gpu = r \/ failure \/ r \in overrun

\* A turn that is being stopped never ends as complete, although cancel may come at
\* any step of its end (store.cancel, finish).  It may come to a turn that has ended,
\* where a save raised and left it active.
CancelledIsStopped ==
  [][\A r \in refusing \ stranded : shown'[r] # "complete"]_vars

\* close() returns quietly only if no turn that it found is still running.
CloseIsHonest == closer = "ok" => \A r \in jobs : thread[r] = "dead"

\* A cancelled turn whose thread runs comes to its end and frees its conversation,
\* unless a save raised on the way there.
CancelEnds ==
  \A r \in Requests : (r \in cancel /\ Alive(r)) ~>
    (thread[r] = "dead" /\ (active[Cid[r]] # r \/ r \in stranded))

\* What action() promises: the control a turn was begun for belonged to the
\* newest turn when it began.
ControlIsCurrent ==
  [][\A r \in Controls : (req[r] = "granted" /\ req'[r] = "begun")
       => newest[Cid[r]] = component[r]]_vars
=============================================================================
