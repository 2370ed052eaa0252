------------------------------ MODULE History ------------------------------
(***************************************************************************)
(* One conversation of ConversationStore                                   *)
(* (serve/mlx_omarchy_assistant/history.py): its record in memory, the     *)
(* events kept for readers, and its file; the turn threads and cancel      *)
(* requests of coordinator.py that change it; and the terminal client      *)
(* (__main__.py) that follows a turn through the event endpoint            *)
(* (server.py).                                                            *)
(*                                                                         *)
(* Every method runs under the store's lock, so each is one action.  A     *)
(* text event stands for one emit of kind "text"; what it says is its      *)
(* position in the reply, so a reply is the number of its texts.  The GPU  *)
(* lock is SpeechYield's subject: here any turn may begin that the store   *)
(* admits.                                                                 *)
(***************************************************************************)
EXTENDS Naturals, Sequences, SequencesExt

CONSTANTS Turns,       \* the turns users ask for
          NoTurn,      \* active_turn is None
          NoFile,      \* the conversation has no file
          Gone,        \* the store does not know the conversation
          Kept,        \* maxlen of the event deque (4096)
          Checkpoint,  \* texts that are due to be saved (CHECKPOINT_BYTES)
          MaxText,     \* bound: texts of a reply
          MaxFaults,   \* bound: failing saves (full disk, MAX_HISTORY reached)
          MaxCrashes   \* bound: crashes

ASSUME HistoryAssumption ==
    /\ NoTurn \notin Turns
    /\ {Kept, Checkpoint} \subseteq Nat \ {0}
    /\ {MaxText, MaxFaults, MaxCrashes} \subseteq Nat

VARIABLES record,     \* self.records[cid], or Gone
          stream,     \* self.streams[cid]
          cancelled,  \* self.cancelled
          pending,    \* texts since the last save (self.pending[cid])
          file,       \* <cid>.json
          job,        \* [Turns -> JobState]: the turn's thread
          stopping,   \* turns whose job["cancel"] is set
          failed,     \* turns whose thread caught an exception
          failure,    \* self.failure: workers survived a stop
          reader,     \* where the client and its connection are: ReaderState
          follows,    \* the turn it waits for
          cursor,     \* the last sequence number it read
          inbox,      \* events written to its connection and not read yet
          shown,      \* the texts of `follows` it printed
          faults, crashes

storeVars  == <<record, stream, cancelled, pending, file>>
jobVars    == <<job, stopping, failed, failure>>
readerVars == <<reader, follows, cursor, inbox, shown>>
vars == <<storeVars, jobVars, readerVars, faults, crashes>>

JobState == {"idle", "refused", "run", "raise", "release", "close", "done"}
ReaderState == {"idle", "closed", "fetch", "check", "done", "told", "lost"}
Message == [turn : Turns, status : {"streaming", "complete", "stopped"}, text : Nat]
Record == [messages : Seq(Message), active : Turns \cup {NoTurn}, sequence : Nat,
           save : BOOLEAN, selected : SUBSET Turns, context_error : BOOLEAN]
Event == [sequence : Nat, turn : Turns, type : {"status", "text", "error", "done"},
          text : Nat]

ASSUME RecordAssumption == Gone \notin Record /\ NoFile \notin Record

TypeOK ==
    /\ record \in Record \cup {Gone}
    /\ stream \in Seq(Event) /\ Len(stream) <= Kept
    /\ cancelled \subseteq Turns
    /\ pending \in Nat
    /\ file \in Record \cup {NoFile}
    /\ job \in [Turns -> JobState]
    /\ stopping \subseteq Turns /\ failed \subseteq Turns /\ failure \in BOOLEAN
    /\ reader \in ReaderState /\ follows \in Turns \cup {NoTurn}
    /\ cursor \in Nat /\ inbox \in Seq(Event) /\ shown \in Seq(Nat)
    /\ faults \in 0..MaxFaults /\ crashes \in 0..MaxCrashes

\* create(save): both kinds of conversation; a saved one has its file at once.
Init ==
    /\ \E saved \in BOOLEAN :
          record = [messages |-> <<>>, active |-> NoTurn, sequence |-> 0,
                    save |-> saved, selected |-> {}, context_error |-> FALSE]
    /\ file = IF record.save THEN record ELSE NoFile
    /\ stream = <<>> /\ cancelled = {} /\ pending = 0
    /\ job = [t \in Turns |-> "idle"] /\ stopping = {} /\ failed = {}
    /\ failure = FALSE
    /\ reader = "idle" /\ follows = NoTurn
    /\ cursor = 0 /\ inbox = <<>> /\ shown = <<>>
    /\ faults = 0 /\ crashes = 0

----------------------------------------------------------------------------
(* Saving and emitting. *)

\* Mutant of Save: a conversation is written only while it is active.
SaveWhileActive(r) ==
    /\ file' = IF r.save /\ r.active # NoTurn THEN r ELSE file
    /\ pending' = 0
    /\ UNCHANGED faults

\* _save succeeds: the whole record replaces the file, unless nothing is saved.
Save(r) ==
    /\ file' = IF r.save THEN r ELSE file
    /\ pending' = 0
    /\ UNCHANGED faults

\* _save raises: the file is as before (atomic replace), what memory has stays.
SaveRaises(r) ==
    /\ r.save
    /\ faults < MaxFaults /\ faults' = faults + 1
    /\ UNCHANGED file

\* The record after an event; a text is added to the last message.
Logged(r, type) ==
    LET m == r.messages
        longer == [m EXCEPT ![Len(m)].text = @ + 1]
    IN  [r EXCEPT !.sequence = @ + 1, !.messages = IF type = "text" THEN longer ELSE m]

\* The deque after the event that made record r: the oldest falls off.
Pushed(r, t, type) ==
    LET e == [sequence |-> r.sequence, turn |-> t, type |-> type,
              text |-> Last(r.messages).text]
    IN  Append(IF Len(stream) = Kept THEN Tail(stream) ELSE stream, e)

\* Mutant of Takes: the cancelled set is not looked at.
TakesCancelled(t) == record # Gone /\ record.active = t

\* emit takes events of the active turn that is not cancelled.
Takes(t) == record # Gone /\ record.active = t /\ t \notin cancelled

\* Mutant of CheckpointOk: due only once there is more than a checkpoint.
CheckpointOffByOne(r, more) ==
    \/ /\ pending + more <= Checkpoint
       /\ pending' = pending + more
       /\ UNCHANGED <<file, faults>>
    \/ Save(r)

\* The end of emit for record r: no checkpoint is due, or it is written.  It is
\* due with Checkpoint texts pending, or by the clock at any event.
CheckpointOk(r, more) ==
    \/ /\ pending + more < Checkpoint
       /\ pending' = pending + more
       /\ UNCHANGED <<file, faults>>
    \/ Save(r)

CheckpointRaises(r, more) == SaveRaises(r) /\ pending' = pending + more

Moved(t, to) == job' = [job EXCEPT ![t] = to]

----------------------------------------------------------------------------
(* A turn. *)

\* submit -> begin; a save that raises leaves the turn active, with no thread.
Begin(t) ==
    /\ job[t] = "idle" /\ ~failure
    /\ record # Gone /\ record.active = NoTurn
    /\ LET m == [turn |-> t, status |-> "streaming", text |-> 0]
           r == [record EXCEPT !.messages = Append(@, m), !.active = t]
       IN  \/ /\ Save(r)
              /\ record' = Logged(r, "status")
              /\ stream' = Pushed(record', t, "status")
              /\ Moved(t, "run")
           \/ /\ SaveRaises(r)
              /\ record' = r
              /\ Moved(t, "refused")
              /\ UNCHANGED <<stream, pending>>
    /\ UNCHANGED <<cancelled, stopping, failed, failure, readerVars, crashes>>

\* The thread is past _open_turn, which raises on a withheld selection.
Streaming(t) == job[t] = "run" /\ record # Gone /\ ~record.context_error

\* One text of the reply; emit returns False when it does not take it.
EmitText(t) ==
    /\ Streaming(t)
    /\ Takes(t) => Last(record.messages).text < MaxText
    /\ IF Takes(t)
       THEN /\ record' = Logged(record, "text")
            /\ stream' = Pushed(record', t, "text")
            /\ \/ CheckpointOk(record', 1) /\ UNCHANGED job
               \/ CheckpointRaises(record', 1) /\ Moved(t, "raise")
       ELSE UNCHANGED <<storeVars, job, faults>>
    /\ UNCHANGED <<cancelled, stopping, failed, failure, readerVars, crashes>>

\* Workers, admission or validation raise in _run.
Fails(t) ==
    /\ job[t] = "run"
    /\ Moved(t, "raise")
    /\ UNCHANGED <<storeVars, stopping, failed, failure, readerVars, faults, crashes>>

\* The except block: an error event, unless the user stopped the turn.
EmitError(t) ==
    /\ job[t] = "raise"
    /\ Moved(t, "release")
    /\ failed' = failed \cup {t}
    /\ IF t \notin stopping /\ Takes(t)
       THEN /\ record' = Logged(record, "error")
            /\ stream' = Pushed(record', t, "error")
            /\ CheckpointOk(record', 0) \/ CheckpointRaises(record', 0)
       ELSE UNCHANGED <<record, stream, pending, file, faults>>
    /\ UNCHANGED <<cancelled, stopping, failure, readerVars, crashes>>

\* The reply is over, or its loop saw the cancel event.
ReplyEnds(t) ==
    /\ Streaming(t)
    /\ Moved(t, "release")
    /\ UNCHANGED <<storeVars, stopping, failed, failure, readerVars, faults, crashes>>

\* _release_turn of a stopped or failed turn, when the workers do not stop: an
\* error event and no more turns; if its checkpoint raises, finish is skipped.
StopFails(t) ==
    /\ job[t] = "release" /\ t \in stopping \cup failed
    /\ failure' = TRUE
    /\ IF Takes(t)
       THEN /\ record' = Logged(record, "error")
            /\ stream' = Pushed(record', t, "error")
            /\ \/ CheckpointOk(record', 0) /\ Moved(t, "close")
               \/ CheckpointRaises(record', 0) /\ Moved(t, "done")
       ELSE Moved(t, "close") /\ UNCHANGED <<record, stream, pending, file, faults>>
    /\ UNCHANGED <<cancelled, stopping, failed, readerVars, crashes>>

\* finish, and the thread is gone: its emit may raise (the turn stays active),
\* or its last save (the turn is over, the file is behind).
Finish(t) ==
    /\ job[t] \in {"release", "close"}
    /\ Moved(t, "done")
    /\ IF record = Gone \/ record.active # t
       THEN UNCHANGED <<storeVars, faults>>
       ELSE LET stopped == t \in stopping \cup failed \cup cancelled
                status == IF stopped THEN "stopped" ELSE "complete"
                closed == [record EXCEPT !.messages[Len(record.messages)].status = status]
                r == Logged(closed, "done")
                over == [r EXCEPT !.active = NoTurn]
            IN  /\ cancelled' = cancelled \ {t}
                /\ stream' = Pushed(r, t, "done")
                /\ \/ record' = over /\ Save(over)
                   \/ /\ record' = over
                      /\ r.save /\ faults < MaxFaults /\ faults' = faults + 1
                      /\ \/ file' = r /\ pending' = 0
                         \/ UNCHANGED <<file, pending>>
                   \/ record' = r /\ CheckpointRaises(r, 0)
    /\ stopping' = stopping \ {t} /\ failed' = failed \ {t}
    /\ UNCHANGED <<failure, readerVars, crashes>>

\* Coordinator.cancel of a registered turn: when the store's save raises, the
\* turn is cancelled for the store but its thread is not told.
Cancel(t) ==
    /\ job[t] \in {"run", "raise", "release", "close"}
    /\ IF record # Gone /\ record.active = t
       THEN /\ cancelled' = cancelled \cup {t}
            /\ \/ Save(record) /\ stopping' = stopping \cup {t}
               \/ SaveRaises(record) /\ UNCHANGED <<stopping, pending>>
       ELSE /\ stopping' = stopping \cup {t}
            /\ UNCHANGED <<cancelled, pending, file, faults>>
    /\ UNCHANGED <<record, stream, job, failed, failure, readerVars, crashes>>

----------------------------------------------------------------------------
(* The conversation's own requests. *)

SetSaved(save) ==
    /\ record # Gone
    /\ record' = [record EXCEPT !.save = save]
    /\ \/ save /\ Save(record')
       \/ save /\ SaveRaises(record') /\ UNCHANGED pending
       \/ ~save /\ file' = NoFile /\ UNCHANGED <<pending, faults>>
    /\ UNCHANGED <<stream, cancelled, jobVars, readerVars, crashes>>

\* _completed_turn_ids
Completed(r) == {r.messages[i].turn : i \in {j \in DOMAIN r.messages :
                                              r.messages[j].status # "streaming"}}

\* Mutant of SetContext: turns that are not complete may be selected.
SetContextUnchecked(turns) ==
    /\ record # Gone /\ record.active = NoTurn
    /\ record' = [record EXCEPT !.selected = turns, !.context_error = FALSE]
    /\ Save(record')
    /\ UNCHANGED <<stream, cancelled, jobVars, readerVars, crashes>>

SetContext(turns) ==
    /\ record # Gone /\ record.active = NoTurn
    /\ turns \subseteq Completed(record)
    /\ record' = [record EXCEPT !.selected = turns, !.context_error = FALSE]
    /\ Save(record') \/ (SaveRaises(record') /\ UNCHANGED pending)
    /\ UNCHANGED <<stream, cancelled, jobVars, readerVars, crashes>>

Delete ==
    /\ record # Gone /\ record.active = NoTurn
    /\ record' = Gone /\ file' = NoFile
    /\ stream' = <<>> /\ pending' = 0
    /\ UNCHANGED <<cancelled, jobVars, readerVars, faults, crashes>>

\* ConversationStore.__init__ on the file: an interrupted reply is stopped, and
\* a selection of turns that are not complete is withheld.
Loaded(r) ==
    LET messages == [i \in DOMAIN r.messages |->
                       [r.messages[i] EXCEPT !.status =
                           IF @ = "streaming" THEN "stopped" ELSE @]]
        valid == r.selected \subseteq Completed([r EXCEPT !.messages = messages])
    IN  [r EXCEPT !.messages = messages, !.active = NoTurn, !.save = TRUE,
                  !.selected = IF valid THEN @ ELSE {},
                  !.context_error = ~valid]

\* The assistant dies and is started again; its sessions do not come back.
Crash ==
    /\ crashes < MaxCrashes /\ crashes' = crashes + 1
    /\ record' = IF file = NoFile THEN Gone ELSE Loaded(file)
    /\ stream' = <<>> /\ cancelled' = {} /\ pending' = 0
    /\ job' = [t \in Turns |-> IF job[t] = "idle" THEN "idle" ELSE "done"]
    /\ stopping' = {} /\ failed' = {} /\ failure' = FALSE
    /\ reader' = "lost" /\ follows' = NoTurn
    /\ cursor' = 0 /\ inbox' = <<>> /\ shown' = <<>>
    /\ UNCHANGED <<file, faults>>

----------------------------------------------------------------------------
(* The client that follows a turn, and the endpoint that serves it. *)

\* Mutant of EventGap: one event too late.
EventGapLate ==
    IF stream = <<>> THEN cursor < record.sequence
                     ELSE cursor + 2 < Head(stream).sequence

\* events raises EventGap: the deque no longer has what comes next.
EventGap ==
    IF stream = <<>> THEN cursor < record.sequence
                     ELSE cursor < Head(stream).sequence - 1

\* A prompt was submitted; the client starts from cursor 0.
Follow(t) ==
    /\ reader \in {"idle", "done"} /\ follows # t
    /\ job[t] \in {"run", "raise", "release", "close", "done"}
    /\ reader' = "closed" /\ follows' = t
    /\ cursor' = 0 /\ shown' = <<>> /\ UNCHANGED inbox
    /\ UNCHANGED <<storeVars, jobVars, faults, crashes>>

\* Mutant of OpenEvents: a gap is found only once the stream is open.
OpenEventsNoGap ==
    /\ reader = "closed"
    /\ reader' = IF record = Gone THEN "told" ELSE "fetch"
    /\ UNCHANGED <<storeVars, jobVars, follows, cursor, inbox, shown, faults, crashes>>

\* GET events?after=cursor: any refusal ends the client with an error.
OpenEvents ==
    /\ reader = "closed"
    /\ reader' = IF record = Gone \/ EventGap \/ cursor > record.sequence
                 THEN "told" ELSE "fetch"
    /\ UNCHANGED <<storeVars, jobVars, follows, cursor, inbox, shown, faults, crashes>>

\* The endpoint copies the events after the last one it wrote, and writes them:
\* their numbers ascend, so they are the deque's end from the first of them.
\* On a gap it closes the connection.  (It need not wait until they are read, but
\* when they are makes no difference to the store.)
Fetch ==
    /\ reader = "fetch"
    /\ IF record = Gone \/ EventGap
       THEN reader' = "closed" /\ UNCHANGED inbox
       ELSE LET first == SelectInSeq(stream, LAMBDA e : e.sequence > cursor)
            IN  /\ inbox' = IF first = 0 THEN <<>>
                            ELSE SubSeq(stream, first, Len(stream))
                /\ reader' = "check"
    /\ UNCHANGED <<storeVars, jobVars, follows, cursor, shown, faults, crashes>>

\* The client reads one event; it prints the texts of its turn and is done with
\* its "done".
Receive ==
    /\ reader = "check" /\ inbox # <<>>
    /\ LET e == Head(inbox)
           mine == e.turn = follows
           over == mine /\ e.type = "done"
       IN  /\ cursor' = e.sequence
           /\ shown' = IF mine /\ e.type = "text" THEN Append(shown, e.text) ELSE shown
           /\ inbox' = IF over THEN <<>> ELSE Tail(inbox)
           /\ reader' = IF over THEN "done" ELSE "check"
    /\ UNCHANGED <<storeVars, jobVars, follows, faults, crashes>>

\* Nothing is active any more, or fifteen seconds are over: the connection is
\* closed, and the client, which has read it all, opens another one; else the
\* endpoint waits for a change and goes round again.
CheckActive ==
    /\ reader = "check" /\ inbox = <<>>
    /\ \/ reader' = "closed"
       \/ record # Gone /\ record.active # NoTurn /\ reader' = "fetch"
    /\ UNCHANGED <<storeVars, jobVars, follows, cursor, inbox, shown, faults, crashes>>

\* The connection is cut, and what was not read is lost: the client opens another
\* one where it ended, and ends where it was reset.
Break ==
    /\ reader = "check" /\ inbox # <<>>
    /\ reader' \in {"closed", "told"} /\ inbox' = <<>>
    /\ UNCHANGED <<storeVars, jobVars, follows, cursor, shown, faults, crashes>>

TurnStep(t) ==
    Fails(t) \/ EmitError(t) \/ ReplyEnds(t) \/ StopFails(t) \/ Finish(t)
ReaderStep == OpenEvents \/ Fetch \/ CheckActive

Next ==
    \/ \E t \in Turns :
          Begin(t) \/ EmitText(t) \/ TurnStep(t) \/ Cancel(t) \/ Follow(t)
    \/ \E save \in BOOLEAN : SetSaved(save)
    \/ \E turns \in SUBSET Turns : SetContext(turns)
    \/ Delete \/ Crash
    \/ ReaderStep \/ Receive \/ Break

Spec == Init /\ [][Next]_vars

\* A reply ends (its length and every wait of its thread are bounded), and a
\* loopback connection does not break each time before anything is read.
Fairness ==
    /\ \A t \in Turns : WF_vars(TurnStep(t))
    /\ WF_vars(ReaderStep) /\ SF_vars(Receive)

FairSpec == Spec /\ Fairness

----------------------------------------------------------------------------
(* Properties. *)

Texts(r, t) ==
    LET i == SelectInSeq(r.messages, LAMBDA m : m.turn = t)
    IN  IF i = 0 THEN 0 ELSE r.messages[i].text

\* The conversation is busy with a turn whose thread is gone.
Stuck ==
    record # Gone /\ record.active # NoTurn /\
        job[record.active] \notin {"run", "raise", "release", "close"}

\* The client prints the texts of its turn in order, none twice and none left
\* out, whatever fell off the deque or broke on the way, and has them all when
\* it sees "done".
ReaderIsFaithful ==
    /\ \A i \in DOMAIN shown : shown[i] = i
    /\ reader = "done" /\ record # Gone => Len(shown) = Texts(record, follows)

\* A conversation that is not saved leaves nothing on disk, also when saving is
\* switched off in the middle of a reply.
NothingKeptUnlessSaved ==
    (record = Gone \/ ~record.save) => file = NoFile

\* A selection of turns that was accepted is never withheld by a restart.
SelectionSurvives == record # Gone => ~record.context_error

\* Without failing saves, what a crash may lose is less than one checkpoint.
LossIsBounded ==
    faults = 0 /\ record # Gone /\ file # NoFile =>
        \A t \in Turns : Texts(record, t) < Texts(file, t) + Checkpoint

\* A turn the client saw finish in a saved conversation is on disk, complete.
DoneIsDurable ==
    faults = 0 /\ reader = "done" /\ record # Gone /\ record.save =>
        /\ file # NoFile
        /\ Texts(file, follows) = Len(shown)
        /\ follows \in Completed(file)

\* Once the store cancelled a turn its reply does not grow any more.
CancelledStaysSilent ==
    [][\A t \in cancelled :
          record # Gone /\ record' # Gone /\ crashes' = crashes =>
              Texts(record', t) = Texts(record, t)]_vars

\* The client of a turn learns how it ended, or that it cannot: only a turn that
\* lost its thread without being closed makes it ask for ever.
ReaderLearnsEnd ==
    (reader = "closed") ~> (reader \in {"done", "told", "lost"} \/ Stuck)

\* "close the turn, and give the GPU back" (coordinator.py:1025): a turn that is
\* active has a thread that will finish it.
ActiveHasThread == ~Stuck
============================================================================
