---------------------------- MODULE TurnsProofs ----------------------------
(***************************************************************************)
(* The coordinator's bookkeeping of turns, for any requests, conversations *)
(* and action ids: the GPU lock has one owner, an action is carried out    *)
(* once, a busy conversation has a turn that is on its way, no worker      *)
(* generates for a turn that is over, a cancelled turn never ends as       *)
(* complete, and close() reports the turns it could not end.  Saves may    *)
(* raise anywhere, and a draft may stop reading before the worker's end:   *)
(* what that leaves behind is excepted by name (stranded, overrun).        *)
(***************************************************************************)
EXTENDS Turns, TLAPS

-----------------------------------------------------------------------------
\* The inductive invariant

\* A thread exists from the moment its request was accepted, or not at all.
ThreadInv ==
  \A r \in Requests :
    /\ Alive(r) \/ thread[r] = "dead" => req[r] = "accepted"
    /\ thread[r] = "unstarted" => req[r] = "refused"
    /\ req[r] = "accepted" => Alive(r) \/ thread[r] = "dead"

\* coordinator.lock is across steps with a control's request, until submit
\* returned; the ids of those that went through are recorded.
LockInv ==
  /\ \A r \in Requests : req[r] = "read" => r \in Controls
  /\ \A r \in Controls :
       req[r] \in {"ready", "checked", "granted", "begun", "registered"} => lock = r
  /\ lock # NoOne => lock \in Controls /\ ActionId[lock] \notin actions
  /\ \A r \in Controls : req[r] = "accepted" => ActionId[r] \in actions
  /\ \A r \in Controls : req[r] \in {"new", "read", "refused", "accepted"} => lock # r

\* The ids of two accepted controls differ.
OnceInv ==
  \A r, s \in Controls :
    (r # s /\ req[r] = "accepted" /\ req[s] = "accepted") => ActionId[r] # ActionId[s]

\* The turn that makes a conversation busy is one of that conversation.
CidInv == \A c \in Cids : active[c] # NoOne => Cid[active[c]] = c

\* A worker generates for a turn that reads its stream or is about to stop it, or
\* that did not read it to its end.
StreamInv ==
  \A r \in decoding :
    \/ failure \/ r \in overrun
    \/ thread[r] = "stream"
    \/ thread[r] = "release" /\ StopsWorkers(r)

\* What the store refuses to add to is not finished.
RefusingInv ==
  /\ \A r \in refusing \ stranded : thread[r] \notin {"exit", "dead"}
  /\ \A r \in Requests : shown[r] # "none" => thread[r] \in {"exit", "dead"}

\* What close() saw dead is dead.
JobsInv == closer \in {"stop", "ok"} => \A r \in jobs : thread[r] = "dead"

IInv ==
  /\ TypeOK /\ ThreadInv /\ GpuHasOneOwner /\ LockInv /\ OnceInv
  /\ CidInv /\ BusyIsReal /\ StreamInv /\ RefusingInv /\ JobsInv

-----------------------------------------------------------------------------
\* Init, and each part under each action

LEMMA InitInv == Init => IInv
<1> SUFFICES ASSUME Init PROVE IInv
    OBVIOUS
<1> USE RequestAssumption DEF Init
<1>1. TypeOK
  <2>1. faults \in 0..MaxFaults
        BY DEF RequestAssumption
  <2>2. QED
        BY <2>1 DEF TypeOK
<1>2. ThreadInv /\ GpuHasOneOwner /\ LockInv /\ OnceInv
      BY DEF ThreadInv, GpuHasOneOwner, LockInv, OnceInv, Alive, Submitting,
         Requests
<1>3. CidInv /\ BusyIsReal
      BY DEF CidInv, BusyIsReal
<1>4. StreamInv /\ RefusingInv /\ JobsInv
      BY DEF StreamInv, RefusingInv, JobsInv
<1>5. QED
      BY <1>1, <1>2, <1>3, <1>4 DEF IInv

\* Every action keeps the shape of the state.
LEMMA TypeStep ==
  TypeOK /\ [Next]_vars => TypeOK'
<1> SUFFICES ASSUME TypeOK, [Next]_vars PROVE TypeOK'
    OBVIOUS
<1> USE RequestAssumption DEF TypeOK, Cids
<1>1. ASSUME NEW r \in Requests, ReadControl(r) PROVE TypeOK'
      BY <1>1 DEF ReadControl, Asks, requestVars, turnVars, workerVars, closeVars,
         storeVars
<1>2. ASSUME NEW r \in Requests, EnterControl(r) PROVE TypeOK'
      BY <1>2 DEF EnterControl, Asks, requestVars, turnVars, workerVars, closeVars,
         storeVars
<1>3. ASSUME NEW r \in Requests, Prompt(r) PROVE TypeOK'
      BY <1>3 DEF Prompt, Asks, requestVars, turnVars, workerVars, closeVars,
         storeVars
<1>4. ASSUME NEW r \in Requests, CheckOpen(r) PROVE TypeOK'
      BY <1>4 DEF CheckOpen, Asks, Unlocked, requestVars, turnVars, workerVars,
         closeVars, storeVars
<1>5. ASSUME NEW r \in Requests, TakeGpu(r) PROVE TypeOK'
      BY <1>5 DEF TakeGpu, Asks, Unlocked, requestVars, turnVars, workerVars,
         closeVars, storeVars
<1>6. ASSUME NEW r \in Requests, Begin(r) \/ BeginRaises(r) PROVE TypeOK'
      BY <1>6 DEF Begin, BeginRaises, Strands, SaveRaises, Asks, Unlocked,
         requestVars, turnVars, workerVars, closeVars, storeVars
<1>7. ASSUME NEW r \in Requests, Register(r) PROVE TypeOK'
      BY <1>7 DEF Register, Asks, CanLock, requestVars, turnVars, workerVars,
         closeVars, storeVars
<1>8. ASSUME NEW r \in Requests, StartThread(r) PROVE TypeOK'
      BY <1>8 DEF StartThread, Asks, Unlocked, requestVars, turnVars, workerVars,
         closeVars, storeVars
<1>9. ASSUME NEW r \in Requests, StartFails(r) PROVE TypeOK'
      BY <1>9 DEF StartFails, Asks, Unlocked, requestVars, turnVars, workerVars,
         closeVars, storeVars
<1>10. ASSUME NEW r \in Requests, Open(r) PROVE TypeOK'
      BY <1>10 DEF Open, Goes, requestVars, turnVars, workerVars, closeVars,
         storeVars
<1>11. ASSUME NEW r \in Requests, Connect(r) PROVE TypeOK'
      BY <1>11 DEF Connect, Goes, requestVars, turnVars, workerVars, closeVars,
         storeVars
<1>12. ASSUME NEW r \in Requests, Request(r) PROVE TypeOK'
      BY <1>12 DEF Request, Goes, requestVars, turnVars, workerVars, closeVars,
         storeVars
<1>13. ASSUME NEW r \in Requests, StreamEnds(r) \/ StreamStops(r) PROVE TypeOK'
      BY <1>13 DEF StreamEnds, StreamStops, EndsOrRaises, Goes, CloseConnection,
         requestVars, turnVars, workerVars, closeVars, storeVars
<1>14. ASSUME NEW r \in Requests, StreamCancelled(r) PROVE TypeOK'
      BY <1>14 DEF StreamCancelled, Goes, CloseConnection, requestVars, turnVars,
         workerVars, closeVars, storeVars
<1>15. ASSUME NEW r \in Requests, StreamRaises(r) PROVE TypeOK'
      BY <1>15 DEF StreamRaises, Goes, CloseConnection, requestVars, turnVars,
         workerVars, closeVars, storeVars
<1>16. ASSUME NEW r \in Requests, Release(r) \/ ReleaseRaises(r) PROVE TypeOK'
  <2>1. failure' \in BOOLEAN
    <3>1. failure' = failure \/ failure' = TRUE
          BY <1>16 DEF Release, ReleaseRaises
    <3>2. QED
          BY <3>1, Zenon
  <2>2. thread' \in [Requests -> {"none", "unstarted", "open", "connect", "request",
                                "stream", "release", "finish", "exit", "dead"}]
        BY <1>16 DEF Release, ReleaseRaises, Strands, SaveRaises, StopsWorkers, Goes
  <2>3. decoding' \subseteq Requests
        BY <1>16 DEF Release, ReleaseRaises
  <2>4. faults' \in 0..MaxFaults /\ stranded' \subseteq Requests
        BY <1>16 DEF Release, ReleaseRaises, Strands, SaveRaises, storeVars
  <2>5. UNCHANGED <<requestVars, gpu, turns, cancel, failed, conn, cut, closing,
                    overrun, closeVars, active, newest, refusing, shown>>
        BY <1>16 DEF Release, ReleaseRaises, storeVars
  <2>6. QED
        BY <2>1, <2>2, <2>3, <2>4, <2>5 DEF requestVars, closeVars
<1>17. ASSUME NEW r \in Requests, Finish(r) \/ FinishRaises(r) PROVE TypeOK'
      BY <1>17 DEF Finish, FinishRaises, Strands, SaveRaises, Goes, requestVars,
         turnVars, workerVars, closeVars, storeVars
<1>18. ASSUME NEW r \in Requests, Exit(r) PROVE TypeOK'
      BY <1>18 DEF Exit, Goes, CanLock, requestVars, turnVars, workerVars,
         closeVars, storeVars
<1>19. ASSUME NEW r \in Requests, Cancel(r) \/ CancelRaises(r) PROVE TypeOK'
      BY <1>19 DEF Cancel, CancelRaises, SaveRaises, requestVars, turnVars,
         workerVars, closeVars, storeVars
<1>20. ASSUME NEW r \in Requests, CancelCloses(r) PROVE TypeOK'
      BY <1>20 DEF CancelCloses, CloseConnection, requestVars, turnVars, workerVars,
         closeVars, storeVars
<1>21. ASSUME CloseBegins PROVE TypeOK'
      BY <1>21 DEF CloseBegins, requestVars, turnVars, workerVars, closeVars,
         storeVars
<1>22. ASSUME CloseCollects PROVE TypeOK'
      BY <1>22 DEF CloseCollects, requestVars, turnVars, workerVars, closeVars,
         storeVars
<1>23. ASSUME CloseCancels \/ CloseCancelRaises PROVE TypeOK'
      BY <1>23 DEF CloseCancels, CloseCancelRaises, SaveRaises, requestVars,
         turnVars, workerVars, closeVars, storeVars
<1>24. ASSUME CloseJoins PROVE TypeOK'
      BY <1>24 DEF CloseJoins, requestVars, turnVars, workerVars, closeVars,
         storeVars
<1>25. ASSUME CloseStops PROVE TypeOK'
      BY <1>25 DEF CloseStops, CloseConnection, requestVars, turnVars, workerVars,
         closeVars, storeVars
<1>26. ASSUME UNCHANGED vars PROVE TypeOK'
      BY <1>26 DEF vars, requestVars, turnVars, workerVars, closeVars, storeVars
<1> HIDE DEF TypeOK
<1>27. QED
      BY <1>1, <1>2, <1>3, <1>4, <1>5, <1>6, <1>7, <1>8, <1>9, <1>10, <1>11, <1>12,
         <1>13, <1>14, <1>15, <1>16, <1>17, <1>18, <1>19, <1>20, <1>21, <1>22, <1>23,
         <1>24, <1>25, <1>26, Zenon DEF Next, Submit, Run, Close

\* A thread is started once, by the request that was registered.
LEMMA ThreadStep ==
  TypeOK /\ ThreadInv /\ [Next]_vars => ThreadInv'
<1> SUFFICES ASSUME TypeOK, ThreadInv, [Next]_vars PROVE ThreadInv'
    OBVIOUS
<1> USE RequestAssumption DEF TypeOK, ThreadInv, Alive
<1>1. ASSUME NEW r \in Requests, ReadControl(r) PROVE ThreadInv'
      BY <1>1 DEF ReadControl, Asks, requestVars, turnVars, workerVars, closeVars,
         storeVars
<1>2. ASSUME NEW r \in Requests, EnterControl(r) PROVE ThreadInv'
      BY <1>2 DEF EnterControl, Asks, requestVars, turnVars, workerVars, closeVars,
         storeVars
<1>3. ASSUME NEW r \in Requests, Prompt(r) PROVE ThreadInv'
      BY <1>3 DEF Prompt, Asks, requestVars, turnVars, workerVars, closeVars,
         storeVars
<1>4. ASSUME NEW r \in Requests, CheckOpen(r) PROVE ThreadInv'
      BY <1>4 DEF CheckOpen, Asks, Unlocked, requestVars, turnVars, workerVars,
         closeVars, storeVars
<1>5. ASSUME NEW r \in Requests, TakeGpu(r) PROVE ThreadInv'
      BY <1>5 DEF TakeGpu, Asks, Unlocked, requestVars, turnVars, workerVars,
         closeVars, storeVars
<1>6. ASSUME NEW r \in Requests, Begin(r) \/ BeginRaises(r) PROVE ThreadInv'
      BY <1>6 DEF Begin, BeginRaises, Strands, SaveRaises, Asks, Unlocked,
         requestVars, turnVars, workerVars, closeVars, storeVars
<1>7. ASSUME NEW r \in Requests, Register(r) PROVE ThreadInv'
      BY <1>7 DEF Register, Asks, CanLock, requestVars, turnVars, workerVars,
         closeVars, storeVars
<1>8. ASSUME NEW r \in Requests, StartThread(r) PROVE ThreadInv'
      BY <1>8 DEF StartThread, Asks, Unlocked, requestVars, turnVars, workerVars,
         closeVars, storeVars
<1>9. ASSUME NEW r \in Requests, StartFails(r) PROVE ThreadInv'
      BY <1>9 DEF StartFails, Asks, Unlocked, requestVars, turnVars, workerVars,
         closeVars, storeVars
<1>10. ASSUME NEW r \in Requests, Open(r) PROVE ThreadInv'
      BY <1>10 DEF Open, Goes, requestVars, turnVars, workerVars, closeVars,
         storeVars
<1>11. ASSUME NEW r \in Requests, Connect(r) PROVE ThreadInv'
      BY <1>11 DEF Connect, Goes, requestVars, turnVars, workerVars, closeVars,
         storeVars
<1>12. ASSUME NEW r \in Requests, Request(r) PROVE ThreadInv'
      BY <1>12 DEF Request, Goes, requestVars, turnVars, workerVars, closeVars,
         storeVars
<1>13. ASSUME NEW r \in Requests, StreamEnds(r) \/ StreamStops(r) PROVE ThreadInv'
      BY <1>13 DEF StreamEnds, StreamStops, EndsOrRaises, Goes, CloseConnection,
         requestVars, turnVars, workerVars, closeVars, storeVars
<1>14. ASSUME NEW r \in Requests, StreamCancelled(r) PROVE ThreadInv'
      BY <1>14 DEF StreamCancelled, Goes, CloseConnection, requestVars, turnVars,
         workerVars, closeVars, storeVars
<1>15. ASSUME NEW r \in Requests, StreamRaises(r) PROVE ThreadInv'
      BY <1>15 DEF StreamRaises, Goes, CloseConnection, requestVars, turnVars,
         workerVars, closeVars, storeVars
<1>16. ASSUME NEW r \in Requests, Release(r) \/ ReleaseRaises(r) PROVE ThreadInv'
      BY <1>16 DEF Release, ReleaseRaises, Strands, SaveRaises, StopsWorkers, Goes,
         StopsWorkers, requestVars, turnVars, workerVars, closeVars, storeVars
<1>17. ASSUME NEW r \in Requests, Finish(r) \/ FinishRaises(r) PROVE ThreadInv'
      BY <1>17 DEF Finish, FinishRaises, Strands, SaveRaises, Goes, requestVars,
         turnVars, workerVars, closeVars, storeVars
<1>18. ASSUME NEW r \in Requests, Exit(r) PROVE ThreadInv'
      BY <1>18 DEF Exit, Goes, CanLock, requestVars, turnVars, workerVars,
         closeVars, storeVars
<1>19. ASSUME NEW r \in Requests,
              Cancel(r) \/ CancelRaises(r) \/ CancelCloses(r)
      PROVE  UNCHANGED <<req, thread>>
      BY <1>19 DEF Cancel, CancelRaises, SaveRaises, CancelCloses, CloseConnection,
         requestVars, turnVars, workerVars, closeVars, storeVars
<1>20. ASSUME CloseBegins \/ CloseCollects \/ CloseCancels \/ CloseCancelRaises \/
   CloseJoins \/ CloseStops
      PROVE  UNCHANGED <<req, thread>>
      BY <1>20 DEF CloseBegins, CloseCollects, CloseCancels, CloseCancelRaises,
         SaveRaises, CloseJoins, CloseStops, CloseConnection, requestVars, turnVars,
         workerVars, closeVars, storeVars
<1>21. ASSUME UNCHANGED vars PROVE UNCHANGED <<req, thread>>
      BY <1>21 DEF vars, requestVars, turnVars, workerVars, closeVars, storeVars
<1>22. QED
      BY <1>1, <1>2, <1>3, <1>4, <1>5, <1>6, <1>7, <1>8, <1>9, <1>10, <1>11, <1>12,
         <1>13, <1>14, <1>15, <1>16, <1>17, <1>18, <1>19, <1>20, <1>21 DEF Next,
         Submit, Run, Close

\* The GPU lock is taken only when it is free and given back by its owner.
LEMMA OwnerStep ==
  TypeOK /\ ThreadInv /\ GpuHasOneOwner /\ [Next]_vars => GpuHasOneOwner'
<1> SUFFICES ASSUME TypeOK, ThreadInv, GpuHasOneOwner, [Next]_vars PROVE
   GpuHasOneOwner'
    OBVIOUS
<1> USE RequestAssumption DEF TypeOK, ThreadInv, GpuHasOneOwner, Alive,
   Submitting
<1>1. ASSUME NEW r \in Requests, ReadControl(r) PROVE GpuHasOneOwner'
      BY <1>1 DEF ReadControl, Asks, requestVars, turnVars, workerVars, closeVars,
         storeVars
<1>2. ASSUME NEW r \in Requests, EnterControl(r) PROVE GpuHasOneOwner'
      BY <1>2 DEF EnterControl, Asks, requestVars, turnVars, workerVars, closeVars,
         storeVars
<1>3. ASSUME NEW r \in Requests, Prompt(r) PROVE GpuHasOneOwner'
      BY <1>3 DEF Prompt, Asks, requestVars, turnVars, workerVars, closeVars,
         storeVars
<1>4. ASSUME NEW r \in Requests, CheckOpen(r) PROVE GpuHasOneOwner'
      BY <1>4 DEF CheckOpen, Asks, Unlocked, requestVars, turnVars, workerVars,
         closeVars, storeVars
<1>5. ASSUME NEW r \in Requests, TakeGpu(r) PROVE GpuHasOneOwner'
      BY <1>5 DEF TakeGpu, Asks, Unlocked, requestVars, turnVars, workerVars,
         closeVars, storeVars
<1>6. ASSUME NEW r \in Requests, Begin(r) \/ BeginRaises(r) PROVE GpuHasOneOwner'
      BY <1>6 DEF Begin, BeginRaises, Strands, SaveRaises, Asks, Unlocked,
         requestVars, turnVars, workerVars, closeVars, storeVars
<1>7. ASSUME NEW r \in Requests, Register(r) PROVE GpuHasOneOwner'
      BY <1>7 DEF Register, Asks, CanLock, requestVars, turnVars, workerVars,
         closeVars, storeVars
<1>8. ASSUME NEW r \in Requests, StartThread(r) PROVE GpuHasOneOwner'
      BY <1>8 DEF StartThread, Asks, Unlocked, requestVars, turnVars, workerVars,
         closeVars, storeVars
<1>9. ASSUME NEW r \in Requests, StartFails(r) PROVE GpuHasOneOwner'
      BY <1>9 DEF StartFails, Asks, Unlocked, requestVars, turnVars, workerVars,
         closeVars, storeVars
<1>10. ASSUME NEW r \in Requests, Open(r) PROVE GpuHasOneOwner'
      BY <1>10 DEF Open, Goes, requestVars, turnVars, workerVars, closeVars,
         storeVars
<1>11. ASSUME NEW r \in Requests, Connect(r) PROVE GpuHasOneOwner'
      BY <1>11 DEF Connect, Goes, requestVars, turnVars, workerVars, closeVars,
         storeVars
<1>12. ASSUME NEW r \in Requests, Request(r) PROVE GpuHasOneOwner'
      BY <1>12 DEF Request, Goes, requestVars, turnVars, workerVars, closeVars,
         storeVars
<1>13. ASSUME NEW r \in Requests, StreamEnds(r) \/ StreamStops(r) PROVE GpuHasOneOwner'
      BY <1>13 DEF StreamEnds, StreamStops, EndsOrRaises, Goes, CloseConnection,
         requestVars, turnVars, workerVars, closeVars, storeVars
<1>14. ASSUME NEW r \in Requests, StreamCancelled(r) PROVE GpuHasOneOwner'
      BY <1>14 DEF StreamCancelled, Goes, CloseConnection, requestVars, turnVars,
         workerVars, closeVars, storeVars
<1>15. ASSUME NEW r \in Requests, StreamRaises(r) PROVE GpuHasOneOwner'
      BY <1>15 DEF StreamRaises, Goes, CloseConnection, requestVars, turnVars,
         workerVars, closeVars, storeVars
<1>16. ASSUME NEW r \in Requests, Release(r) \/ ReleaseRaises(r) PROVE GpuHasOneOwner'
      BY <1>16 DEF Release, ReleaseRaises, Strands, SaveRaises, StopsWorkers, Goes,
         StopsWorkers, requestVars, turnVars, workerVars, closeVars, storeVars
<1>17. ASSUME NEW r \in Requests, Finish(r) \/ FinishRaises(r) PROVE GpuHasOneOwner'
      BY <1>17 DEF Finish, FinishRaises, Strands, SaveRaises, Goes, requestVars,
         turnVars, workerVars, closeVars, storeVars
<1>18. ASSUME NEW r \in Requests, Exit(r) PROVE GpuHasOneOwner'
      BY <1>18 DEF Exit, Goes, CanLock, requestVars, turnVars, workerVars,
         closeVars, storeVars
<1>19. ASSUME NEW r \in Requests,
              Cancel(r) \/ CancelRaises(r) \/ CancelCloses(r)
      PROVE  UNCHANGED <<req, thread, gpu>>
      BY <1>19 DEF Cancel, CancelRaises, SaveRaises, CancelCloses, CloseConnection,
         requestVars, turnVars, workerVars, closeVars, storeVars
<1>20. ASSUME CloseBegins \/ CloseCollects \/ CloseCancels \/ CloseCancelRaises \/
   CloseJoins \/ CloseStops
      PROVE  UNCHANGED <<req, thread, gpu>>
      BY <1>20 DEF CloseBegins, CloseCollects, CloseCancels, CloseCancelRaises,
         SaveRaises, CloseJoins, CloseStops, CloseConnection, requestVars, turnVars,
         workerVars, closeVars, storeVars
<1>21. ASSUME UNCHANGED vars PROVE UNCHANGED <<req, thread, gpu>>
      BY <1>21 DEF vars, requestVars, turnVars, workerVars, closeVars, storeVars
<1>22. QED
      BY <1>1, <1>2, <1>3, <1>4, <1>5, <1>6, <1>7, <1>8, <1>9, <1>10, <1>11, <1>12,
         <1>13, <1>14, <1>15, <1>16, <1>17, <1>18, <1>19, <1>20, <1>21 DEF Next,
         Submit, Run, Close

\* coordinator.lock is taken only when it is free.
LEMMA LockStep ==
  TypeOK /\ LockInv /\ [Next]_vars => LockInv'
<1> SUFFICES ASSUME TypeOK, LockInv, [Next]_vars PROVE LockInv'
    OBVIOUS
<1> USE RequestAssumption DEF TypeOK, LockInv, Requests
<1>1. ASSUME NEW r \in Requests, ReadControl(r) PROVE LockInv'
      BY <1>1 DEF ReadControl, Asks, requestVars, turnVars, workerVars, closeVars,
         storeVars
<1>2. ASSUME NEW r \in Requests, EnterControl(r) PROVE LockInv'
      BY <1>2 DEF EnterControl, Asks, requestVars, turnVars, workerVars, closeVars,
         storeVars
<1>3. ASSUME NEW r \in Requests, Prompt(r) PROVE LockInv'
      BY <1>3 DEF Prompt, Asks, requestVars, turnVars, workerVars, closeVars,
         storeVars
<1>4. ASSUME NEW r \in Requests, CheckOpen(r) PROVE LockInv'
      BY <1>4 DEF CheckOpen, Asks, Unlocked, requestVars, turnVars, workerVars,
         closeVars, storeVars
<1>5. ASSUME NEW r \in Requests, TakeGpu(r) PROVE LockInv'
      BY <1>5 DEF TakeGpu, Asks, Unlocked, requestVars, turnVars, workerVars,
         closeVars, storeVars
<1>6. ASSUME NEW r \in Requests, Begin(r) \/ BeginRaises(r) PROVE LockInv'
      BY <1>6 DEF Begin, BeginRaises, Strands, SaveRaises, Asks, Unlocked,
         requestVars, turnVars, workerVars, closeVars, storeVars
<1>7. ASSUME NEW r \in Requests, Register(r) PROVE LockInv'
      BY <1>7 DEF Register, Asks, CanLock, requestVars, turnVars, workerVars,
         closeVars, storeVars
<1>8. ASSUME NEW r \in Requests, StartThread(r) PROVE LockInv'
      BY <1>8 DEF StartThread, Asks, Unlocked, requestVars, turnVars, workerVars,
         closeVars, storeVars
<1>9. ASSUME NEW r \in Requests, StartFails(r) PROVE LockInv'
      BY <1>9 DEF StartFails, Asks, Unlocked, requestVars, turnVars, workerVars,
         closeVars, storeVars
<1>10. ASSUME NEW r \in Requests,
              Open(r) \/ Connect(r) \/ Request(r) \/ StreamEnds(r) \/ StreamStops(r) \/
                 StreamCancelled(r) \/ StreamRaises(r) \/ Release(r) \/ ReleaseRaises(r) \/
                 Finish(r) \/ FinishRaises(r)
      PROVE  UNCHANGED <<req, lock, actions>>
      BY <1>10 DEF Open, Connect, Request, StreamEnds, StreamStops, EndsOrRaises,
         CloseConnection, StreamCancelled, StreamRaises, Release, ReleaseRaises,
         Strands, SaveRaises, StopsWorkers, StopsWorkers, Finish, FinishRaises,
         Strands, SaveRaises, Goes, requestVars, turnVars, workerVars, closeVars,
         storeVars
<1>11. ASSUME NEW r \in Requests,
              Exit(r) \/ Cancel(r) \/ CancelRaises(r) \/ CancelCloses(r)
      PROVE  UNCHANGED <<req, lock, actions>>
      BY <1>11 DEF Exit, CanLock, Cancel, CancelRaises, SaveRaises, CancelCloses,
         CloseConnection, Goes, requestVars, turnVars, workerVars, closeVars, storeVars
<1>12. ASSUME CloseBegins \/ CloseCollects \/ CloseCancels \/ CloseCancelRaises \/
   CloseJoins \/ CloseStops
      PROVE  UNCHANGED <<req, lock, actions>>
      BY <1>12 DEF CloseBegins, CloseCollects, CloseCancels, CloseCancelRaises,
         SaveRaises, CloseJoins, CloseStops, CloseConnection, requestVars, turnVars,
         workerVars, closeVars, storeVars
<1>13. ASSUME UNCHANGED vars PROVE UNCHANGED <<req, lock, actions>>
      BY <1>13 DEF vars, requestVars, turnVars, workerVars, closeVars, storeVars
<1>14. QED
      BY <1>1, <1>2, <1>3, <1>4, <1>5, <1>6, <1>7, <1>8, <1>9, <1>10, <1>11, <1>12,
         <1>13 DEF Next, Submit, Run, Close

\* A control that is accepted held the lock, so its id was new.
LEMMA OnceStep ==
  TypeOK /\ LockInv /\ OnceInv /\ [Next]_vars => OnceInv'
<1> SUFFICES ASSUME TypeOK, LockInv, OnceInv, [Next]_vars PROVE OnceInv'
    OBVIOUS
<1> USE RequestAssumption DEF TypeOK, LockInv, OnceInv, Requests
<1>1. ASSUME NEW r \in Requests, ReadControl(r) PROVE OnceInv'
      BY <1>1 DEF ReadControl, Asks, requestVars, turnVars, workerVars, closeVars,
         storeVars
<1>2. ASSUME NEW r \in Requests, EnterControl(r) PROVE OnceInv'
      BY <1>2 DEF EnterControl, Asks, requestVars, turnVars, workerVars, closeVars,
         storeVars
<1>3. ASSUME NEW r \in Requests, Prompt(r) PROVE OnceInv'
      BY <1>3 DEF Prompt, Asks, requestVars, turnVars, workerVars, closeVars,
         storeVars
<1>4. ASSUME NEW r \in Requests, CheckOpen(r) PROVE OnceInv'
      BY <1>4 DEF CheckOpen, Asks, Unlocked, requestVars, turnVars, workerVars,
         closeVars, storeVars
<1>5. ASSUME NEW r \in Requests, TakeGpu(r) PROVE OnceInv'
      BY <1>5 DEF TakeGpu, Asks, Unlocked, requestVars, turnVars, workerVars,
         closeVars, storeVars
<1>6. ASSUME NEW r \in Requests, Begin(r) \/ BeginRaises(r) PROVE OnceInv'
      BY <1>6 DEF Begin, BeginRaises, Strands, SaveRaises, Asks, Unlocked,
         requestVars, turnVars, workerVars, closeVars, storeVars
<1>7. ASSUME NEW r \in Requests, Register(r) PROVE OnceInv'
      BY <1>7 DEF Register, Asks, CanLock, requestVars, turnVars, workerVars,
         closeVars, storeVars
<1>8. ASSUME NEW r \in Requests, StartThread(r) PROVE OnceInv'
      BY <1>8 DEF StartThread, Asks, Unlocked, requestVars, turnVars, workerVars,
         closeVars, storeVars
<1>9. ASSUME NEW r \in Requests, StartFails(r) PROVE OnceInv'
      BY <1>9 DEF StartFails, Asks, Unlocked, requestVars, turnVars, workerVars,
         closeVars, storeVars
<1>10. ASSUME NEW r \in Requests,
              Open(r) \/ Connect(r) \/ Request(r) \/ StreamEnds(r) \/ StreamStops(r) \/
                 StreamCancelled(r) \/ StreamRaises(r) \/ Release(r) \/ ReleaseRaises(r) \/
                 Finish(r) \/ FinishRaises(r)
      PROVE  UNCHANGED req
      BY <1>10 DEF Open, Connect, Request, StreamEnds, StreamStops, EndsOrRaises,
         CloseConnection, StreamCancelled, StreamRaises, Release, ReleaseRaises,
         Strands, SaveRaises, StopsWorkers, StopsWorkers, Finish, FinishRaises,
         Strands, SaveRaises, Goes, requestVars, turnVars, workerVars, closeVars,
         storeVars
<1>11. ASSUME NEW r \in Requests,
              Exit(r) \/ Cancel(r) \/ CancelRaises(r) \/ CancelCloses(r)
      PROVE  UNCHANGED req
      BY <1>11 DEF Exit, CanLock, Cancel, CancelRaises, SaveRaises, CancelCloses,
         CloseConnection, Goes, requestVars, turnVars, workerVars, closeVars, storeVars
<1>12. ASSUME CloseBegins \/ CloseCollects \/ CloseCancels \/ CloseCancelRaises \/
   CloseJoins \/ CloseStops
      PROVE  UNCHANGED req
      BY <1>12 DEF CloseBegins, CloseCollects, CloseCancels, CloseCancelRaises,
         SaveRaises, CloseJoins, CloseStops, CloseConnection, requestVars, turnVars,
         workerVars, closeVars, storeVars
<1>13. ASSUME UNCHANGED vars PROVE UNCHANGED req
      BY <1>13 DEF vars, requestVars, turnVars, workerVars, closeVars, storeVars
<1>14. QED
      BY <1>1, <1>2, <1>3, <1>4, <1>5, <1>6, <1>7, <1>8, <1>9, <1>10, <1>11, <1>12,
         <1>13 DEF Next, Submit, Run, Close

\* Only begin makes a conversation busy.
LEMMA CidStep ==
  TypeOK /\ CidInv /\ [Next]_vars => CidInv'
<1> SUFFICES ASSUME TypeOK, CidInv, [Next]_vars PROVE CidInv'
    OBVIOUS
<1> USE RequestAssumption DEF TypeOK, CidInv, Cids
<1>1. ASSUME NEW r \in Requests, Begin(r) \/ BeginRaises(r) PROVE CidInv'
      BY <1>1 DEF Begin, BeginRaises, Strands, SaveRaises, Asks, Unlocked,
         requestVars, turnVars, workerVars, closeVars, storeVars
<1>2. ASSUME NEW r \in Requests, Finish(r) \/ FinishRaises(r) PROVE CidInv'
      BY <1>2 DEF Finish, FinishRaises, Strands, SaveRaises, Goes, requestVars,
         turnVars, workerVars, closeVars, storeVars
<1>3. ASSUME NEW r \in Requests,
              ReadControl(r) \/ EnterControl(r) \/ Prompt(r) \/ CheckOpen(r)
                 \/ TakeGpu(r) \/ Register(r) \/ StartThread(r) \/
                 StartFails(r)
      PROVE  UNCHANGED active
      BY <1>3 DEF ReadControl, EnterControl, Prompt, CheckOpen, Unlocked, TakeGpu,
         Register, CanLock, StartThread, StartFails, Asks, requestVars, turnVars,
         workerVars, closeVars, storeVars
<1>4. ASSUME NEW r \in Requests,
              Open(r) \/ Connect(r) \/ Request(r) \/ StreamEnds(r) \/ StreamStops(r) \/
                 StreamCancelled(r) \/ StreamRaises(r) \/ Release(r) \/ ReleaseRaises(r) \/
                 Exit(r)
      PROVE  UNCHANGED active
      BY <1>4 DEF Open, Connect, Request, StreamEnds, StreamStops, EndsOrRaises,
         CloseConnection, StreamCancelled, StreamRaises, Release, ReleaseRaises,
         Strands, SaveRaises, StopsWorkers, StopsWorkers, Exit, CanLock, Goes,
         requestVars, turnVars, workerVars, closeVars, storeVars
<1>5. ASSUME NEW r \in Requests,
              Cancel(r) \/ CancelRaises(r) \/ CancelCloses(r)
      PROVE  UNCHANGED active
      BY <1>5 DEF Cancel, CancelRaises, SaveRaises, CancelCloses, CloseConnection,
         requestVars, turnVars, workerVars, closeVars, storeVars
<1>6. ASSUME CloseBegins \/ CloseCollects \/ CloseCancels \/ CloseCancelRaises \/
   CloseJoins \/ CloseStops
      PROVE  UNCHANGED active
      BY <1>6 DEF CloseBegins, CloseCollects, CloseCancels, CloseCancelRaises,
         SaveRaises, CloseJoins, CloseStops, CloseConnection, requestVars, turnVars,
         workerVars, closeVars, storeVars
<1>7. ASSUME UNCHANGED vars PROVE UNCHANGED active
      BY <1>7 DEF vars, requestVars, turnVars, workerVars, closeVars, storeVars
<1>8. QED
      BY <1>1, <1>2, <1>3, <1>4, <1>5, <1>6, <1>7 DEF Next, Submit, Run, Close

\* A turn ends only after finish has freed its conversation.
LEMMA BusyStep ==
  TypeOK /\ ThreadInv /\ CidInv /\ BusyIsReal /\ [Next]_vars => BusyIsReal'
<1> SUFFICES ASSUME TypeOK, ThreadInv, CidInv, BusyIsReal, [Next]_vars PROVE
   BusyIsReal'
    OBVIOUS
<1> USE RequestAssumption DEF TypeOK, ThreadInv, CidInv, BusyIsReal, Alive,
   Cids
<1>1. ASSUME NEW r \in Requests, ReadControl(r) PROVE BusyIsReal'
      BY <1>1 DEF ReadControl, Asks, requestVars, turnVars, workerVars, closeVars,
         storeVars
<1>2. ASSUME NEW r \in Requests, EnterControl(r) PROVE BusyIsReal'
      BY <1>2 DEF EnterControl, Asks, requestVars, turnVars, workerVars, closeVars,
         storeVars
<1>3. ASSUME NEW r \in Requests, Prompt(r) PROVE BusyIsReal'
      BY <1>3 DEF Prompt, Asks, requestVars, turnVars, workerVars, closeVars,
         storeVars
<1>4. ASSUME NEW r \in Requests, CheckOpen(r) PROVE BusyIsReal'
      BY <1>4 DEF CheckOpen, Asks, Unlocked, requestVars, turnVars, workerVars,
         closeVars, storeVars
<1>5. ASSUME NEW r \in Requests, TakeGpu(r) PROVE BusyIsReal'
      BY <1>5 DEF TakeGpu, Asks, Unlocked, requestVars, turnVars, workerVars,
         closeVars, storeVars
<1>6. ASSUME NEW r \in Requests, Begin(r) \/ BeginRaises(r) PROVE BusyIsReal'
      BY <1>6 DEF Begin, BeginRaises, Strands, SaveRaises, Asks, Unlocked,
         requestVars, turnVars, workerVars, closeVars, storeVars
<1>7. ASSUME NEW r \in Requests, Register(r) PROVE BusyIsReal'
      BY <1>7 DEF Register, Asks, CanLock, requestVars, turnVars, workerVars,
         closeVars, storeVars
<1>8. ASSUME NEW r \in Requests, StartThread(r) PROVE BusyIsReal'
      BY <1>8 DEF StartThread, Asks, Unlocked, requestVars, turnVars, workerVars,
         closeVars, storeVars
<1>9. ASSUME NEW r \in Requests, StartFails(r) PROVE BusyIsReal'
      BY <1>9 DEF StartFails, Asks, Unlocked, requestVars, turnVars, workerVars,
         closeVars, storeVars
<1>10. ASSUME NEW r \in Requests, Open(r) PROVE BusyIsReal'
      BY <1>10 DEF Open, Goes, requestVars, turnVars, workerVars, closeVars,
         storeVars
<1>11. ASSUME NEW r \in Requests, Connect(r) PROVE BusyIsReal'
      BY <1>11 DEF Connect, Goes, requestVars, turnVars, workerVars, closeVars,
         storeVars
<1>12. ASSUME NEW r \in Requests, Request(r) PROVE BusyIsReal'
      BY <1>12 DEF Request, Goes, requestVars, turnVars, workerVars, closeVars,
         storeVars
<1>13. ASSUME NEW r \in Requests, StreamEnds(r) \/ StreamStops(r) PROVE BusyIsReal'
      BY <1>13 DEF StreamEnds, StreamStops, EndsOrRaises, Goes, CloseConnection,
         requestVars, turnVars, workerVars, closeVars, storeVars
<1>14. ASSUME NEW r \in Requests, StreamCancelled(r) PROVE BusyIsReal'
      BY <1>14 DEF StreamCancelled, Goes, CloseConnection, requestVars, turnVars,
         workerVars, closeVars, storeVars
<1>15. ASSUME NEW r \in Requests, StreamRaises(r) PROVE BusyIsReal'
      BY <1>15 DEF StreamRaises, Goes, CloseConnection, requestVars, turnVars,
         workerVars, closeVars, storeVars
<1>16. ASSUME NEW r \in Requests, Release(r) \/ ReleaseRaises(r) PROVE BusyIsReal'
      BY <1>16 DEF Release, ReleaseRaises, Strands, SaveRaises, StopsWorkers, Goes,
         StopsWorkers, requestVars, turnVars, workerVars, closeVars, storeVars
<1>17. ASSUME NEW r \in Requests, Finish(r) \/ FinishRaises(r) PROVE BusyIsReal'
      BY <1>17 DEF Finish, FinishRaises, Strands, SaveRaises, Goes, requestVars,
         turnVars, workerVars, closeVars, storeVars
<1>18. ASSUME NEW r \in Requests, Exit(r) PROVE BusyIsReal'
      BY <1>18 DEF Exit, Goes, CanLock, requestVars, turnVars, workerVars,
         closeVars, storeVars
<1>19. ASSUME NEW r \in Requests,
              Cancel(r) \/ CancelRaises(r) \/ CancelCloses(r)
      PROVE  UNCHANGED <<req, thread, active, stranded>>
      BY <1>19 DEF Cancel, CancelRaises, SaveRaises, CancelCloses, CloseConnection,
         requestVars, turnVars, workerVars, closeVars, storeVars
<1>20. ASSUME CloseBegins \/ CloseCollects \/ CloseCancels \/ CloseCancelRaises \/
   CloseJoins \/ CloseStops
      PROVE  UNCHANGED <<req, thread, active, stranded>>
      BY <1>20 DEF CloseBegins, CloseCollects, CloseCancels, CloseCancelRaises,
         SaveRaises, CloseJoins, CloseStops, CloseConnection, requestVars, turnVars,
         workerVars, closeVars, storeVars
<1>21. ASSUME UNCHANGED vars PROVE UNCHANGED <<req, thread, active, stranded>>
      BY <1>21 DEF vars, requestVars, turnVars, workerVars, closeVars, storeVars
<1>22. QED
      BY <1>1, <1>2, <1>3, <1>4, <1>5, <1>6, <1>7, <1>8, <1>9, <1>10, <1>11, <1>12,
         <1>13, <1>14, <1>15, <1>16, <1>17, <1>18, <1>19, <1>20, <1>21 DEF Next,
         Submit, Run, Close

\* A turn that leaves its stream early stops the workers before it ends.
LEMMA StreamStep ==
  TypeOK /\ ThreadInv /\ StreamInv /\ [Next]_vars => StreamInv'
<1> SUFFICES ASSUME TypeOK, ThreadInv, StreamInv, [Next]_vars PROVE StreamInv'
    OBVIOUS
<1> USE RequestAssumption DEF TypeOK, ThreadInv, StreamInv, Alive,
   StopsWorkers
<1>1. ASSUME NEW r \in Requests, StartThread(r) PROVE StreamInv'
      BY <1>1 DEF StartThread, Asks, Unlocked, requestVars, turnVars, workerVars,
         closeVars, storeVars
<1>2. ASSUME NEW r \in Requests, StartFails(r) PROVE StreamInv'
      BY <1>2 DEF StartFails, Asks, Unlocked, requestVars, turnVars, workerVars,
         closeVars, storeVars
<1>3. ASSUME NEW r \in Requests, Open(r) PROVE StreamInv'
      BY <1>3 DEF Open, Goes, requestVars, turnVars, workerVars, closeVars,
         storeVars
<1>4. ASSUME NEW r \in Requests, Connect(r) PROVE StreamInv'
      BY <1>4 DEF Connect, Goes, requestVars, turnVars, workerVars, closeVars,
         storeVars
<1>5. ASSUME NEW r \in Requests, Request(r) PROVE StreamInv'
      BY <1>5 DEF Request, Goes, requestVars, turnVars, workerVars, closeVars,
         storeVars
<1>6. ASSUME NEW r \in Requests, StreamEnds(r) \/ StreamStops(r) PROVE StreamInv'
      BY <1>6 DEF StreamEnds, StreamStops, EndsOrRaises, Goes, CloseConnection,
         requestVars, turnVars, workerVars, closeVars, storeVars
<1>7. ASSUME NEW r \in Requests, StreamCancelled(r) PROVE StreamInv'
      BY <1>7 DEF StreamCancelled, Goes, CloseConnection, requestVars, turnVars,
         workerVars, closeVars, storeVars
<1>8. ASSUME NEW r \in Requests, StreamRaises(r) PROVE StreamInv'
      BY <1>8 DEF StreamRaises, Goes, CloseConnection, requestVars, turnVars,
         workerVars, closeVars, storeVars
<1>9. ASSUME NEW r \in Requests, Release(r) \/ ReleaseRaises(r) PROVE StreamInv'
      BY <1>9 DEF Release, ReleaseRaises, Strands, SaveRaises, StopsWorkers, Goes,
         StopsWorkers, requestVars, turnVars, workerVars, closeVars, storeVars
<1>10. ASSUME NEW r \in Requests, Finish(r) \/ FinishRaises(r) PROVE StreamInv'
      BY <1>10 DEF Finish, FinishRaises, Strands, SaveRaises, Goes, requestVars,
         turnVars, workerVars, closeVars, storeVars
<1>11. ASSUME NEW r \in Requests, Exit(r) PROVE StreamInv'
      BY <1>11 DEF Exit, Goes, CanLock, requestVars, turnVars, workerVars,
         closeVars, storeVars
<1>12. ASSUME NEW r \in Requests, Cancel(r) \/ CancelRaises(r) PROVE StreamInv'
      BY <1>12 DEF Cancel, CancelRaises, SaveRaises, requestVars, turnVars,
         workerVars, closeVars, storeVars
<1>13. ASSUME CloseCancels \/ CloseCancelRaises PROVE StreamInv'
      BY <1>13 DEF CloseCancels, CloseCancelRaises, SaveRaises, requestVars,
         turnVars, workerVars, closeVars, storeVars
<1>14. ASSUME CloseStops PROVE StreamInv'
      BY <1>14 DEF CloseStops, CloseConnection, requestVars, turnVars, workerVars,
         closeVars, storeVars
<1>15. ASSUME NEW r \in Requests,
              ReadControl(r) \/ EnterControl(r) \/ Prompt(r) \/ CheckOpen(r)
                 \/ TakeGpu(r) \/ Begin(r) \/ BeginRaises(r) \/ Register(r) \/
                    CancelCloses(r)
      PROVE  UNCHANGED <<thread, cancel, failed, decoding, failure, overrun>>
      BY <1>15 DEF ReadControl, EnterControl, Prompt, CheckOpen, Unlocked, TakeGpu,
         Begin, BeginRaises, Strands, SaveRaises, Register, CanLock, CancelCloses,
         CloseConnection, Asks, requestVars, turnVars, workerVars, closeVars, storeVars
<1>16. ASSUME CloseBegins \/ CloseCollects \/ CloseJoins
      PROVE  UNCHANGED <<thread, cancel, failed, decoding, failure, overrun>>
      BY <1>16 DEF CloseBegins, CloseCollects, CloseJoins, requestVars, turnVars,
         workerVars, closeVars, storeVars
<1>17. ASSUME UNCHANGED vars PROVE UNCHANGED <<thread, cancel, failed, decoding,
   failure, overrun>>
      BY <1>17 DEF vars, requestVars, turnVars, workerVars, closeVars, storeVars
<1>18. QED
      BY <1>1, <1>2, <1>3, <1>4, <1>5, <1>6, <1>7, <1>8, <1>9, <1>10, <1>11, <1>12,
         <1>13, <1>14, <1>15, <1>16, <1>17 DEF Next, Submit, Run, Close

\* The store refuses only turns that are still active in it.
LEMMA RefusingStep ==
  TypeOK /\ ThreadInv /\ CidInv /\ BusyIsReal /\ RefusingInv /\ [Next]_vars => RefusingInv'
<1> SUFFICES ASSUME TypeOK, ThreadInv, CidInv, BusyIsReal, RefusingInv,
   [Next]_vars PROVE RefusingInv'
    OBVIOUS
<1> USE RequestAssumption DEF TypeOK, ThreadInv, CidInv, BusyIsReal,
   RefusingInv, Alive, Cids
<1>1. ASSUME NEW r \in Requests, StartThread(r) PROVE RefusingInv'
      BY <1>1 DEF StartThread, Asks, Unlocked, requestVars, turnVars, workerVars,
         closeVars, storeVars
<1>2. ASSUME NEW r \in Requests, StartFails(r) PROVE RefusingInv'
      BY <1>2 DEF StartFails, Asks, Unlocked, requestVars, turnVars, workerVars,
         closeVars, storeVars
<1>3. ASSUME NEW r \in Requests, Open(r) PROVE RefusingInv'
      BY <1>3 DEF Open, Goes, requestVars, turnVars, workerVars, closeVars,
         storeVars
<1>4. ASSUME NEW r \in Requests, Connect(r) PROVE RefusingInv'
      BY <1>4 DEF Connect, Goes, requestVars, turnVars, workerVars, closeVars,
         storeVars
<1>5. ASSUME NEW r \in Requests, Request(r) PROVE RefusingInv'
      BY <1>5 DEF Request, Goes, requestVars, turnVars, workerVars, closeVars,
         storeVars
<1>6. ASSUME NEW r \in Requests, StreamEnds(r) \/ StreamStops(r) PROVE RefusingInv'
      BY <1>6 DEF StreamEnds, StreamStops, EndsOrRaises, Goes, CloseConnection,
         requestVars, turnVars, workerVars, closeVars, storeVars
<1>7. ASSUME NEW r \in Requests, StreamCancelled(r) PROVE RefusingInv'
      BY <1>7 DEF StreamCancelled, Goes, CloseConnection, requestVars, turnVars,
         workerVars, closeVars, storeVars
<1>8. ASSUME NEW r \in Requests, StreamRaises(r) PROVE RefusingInv'
      BY <1>8 DEF StreamRaises, Goes, CloseConnection, requestVars, turnVars,
         workerVars, closeVars, storeVars
<1>9. ASSUME NEW r \in Requests, Release(r) \/ ReleaseRaises(r) PROVE RefusingInv'
      BY <1>9 DEF Release, ReleaseRaises, Strands, SaveRaises, StopsWorkers, Goes,
         StopsWorkers, requestVars, turnVars, workerVars, closeVars, storeVars
<1>10. ASSUME NEW r \in Requests, Finish(r) \/ FinishRaises(r) PROVE RefusingInv'
      BY <1>10 DEF Finish, FinishRaises, Strands, SaveRaises, Goes, requestVars,
         turnVars, workerVars, closeVars, storeVars
<1>11. ASSUME NEW r \in Requests, Exit(r) PROVE RefusingInv'
      BY <1>11 DEF Exit, Goes, CanLock, requestVars, turnVars, workerVars,
         closeVars, storeVars
<1>12. ASSUME NEW r \in Requests, Cancel(r) \/ CancelRaises(r) PROVE RefusingInv'
      BY <1>12 DEF Cancel, CancelRaises, SaveRaises, requestVars, turnVars,
         workerVars, closeVars, storeVars
<1>13. ASSUME CloseCancels \/ CloseCancelRaises PROVE RefusingInv'
      BY <1>13 DEF CloseCancels, CloseCancelRaises, SaveRaises, requestVars,
         turnVars, workerVars, closeVars, storeVars
<1>13a. ASSUME NEW r \in Requests, BeginRaises(r) PROVE RefusingInv'
      BY <1>13a DEF BeginRaises, Strands, SaveRaises, Asks, turnVars
<1>14. ASSUME NEW r \in Requests,
              ReadControl(r) \/ EnterControl(r) \/ Prompt(r) \/ CheckOpen(r)
                 \/ TakeGpu(r) \/ Begin(r) \/ Register(r) \/ CancelCloses(r)
      PROVE  UNCHANGED <<thread, cancel, refusing, shown, stranded>>
      BY <1>14 DEF ReadControl, EnterControl, Prompt, CheckOpen, Unlocked, TakeGpu,
         Begin, Register, CanLock, CancelCloses, CloseConnection, Asks, requestVars,
         turnVars, workerVars, closeVars, storeVars
<1>15. ASSUME CloseBegins \/ CloseCollects \/ CloseJoins \/ CloseStops
      PROVE  UNCHANGED <<thread, cancel, refusing, shown, stranded>>
      BY <1>15 DEF CloseBegins, CloseCollects, CloseJoins, CloseStops,
         CloseConnection, requestVars, turnVars, workerVars, closeVars, storeVars
<1>16. ASSUME UNCHANGED vars PROVE UNCHANGED <<thread, cancel, refusing, shown, stranded>>
      BY <1>16 DEF vars, requestVars, turnVars, workerVars, closeVars, storeVars
<1>17. QED
      BY <1>1, <1>2, <1>3, <1>4, <1>5, <1>6, <1>7, <1>8, <1>9, <1>10, <1>11, <1>12,
         <1>13, <1>13a, <1>14, <1>15, <1>16 DEF Next, Submit, Run, Close

\* A dead thread stays dead.
LEMMA JobsStep ==
  TypeOK /\ ThreadInv /\ JobsInv /\ [Next]_vars => JobsInv'
<1> SUFFICES ASSUME TypeOK, ThreadInv, JobsInv, [Next]_vars PROVE JobsInv'
    OBVIOUS
<1> USE RequestAssumption DEF TypeOK, ThreadInv, JobsInv, Alive
<1>1. ASSUME NEW r \in Requests, StartThread(r) PROVE JobsInv'
      BY <1>1 DEF StartThread, Asks, Unlocked, requestVars, turnVars, workerVars,
         closeVars, storeVars
<1>2. ASSUME NEW r \in Requests, StartFails(r) PROVE JobsInv'
      BY <1>2 DEF StartFails, Asks, Unlocked, requestVars, turnVars, workerVars,
         closeVars, storeVars
<1>3. ASSUME NEW r \in Requests, Open(r) PROVE JobsInv'
      BY <1>3 DEF Open, Goes, requestVars, turnVars, workerVars, closeVars,
         storeVars
<1>4. ASSUME NEW r \in Requests, Connect(r) PROVE JobsInv'
      BY <1>4 DEF Connect, Goes, requestVars, turnVars, workerVars, closeVars,
         storeVars
<1>5. ASSUME NEW r \in Requests, Request(r) PROVE JobsInv'
      BY <1>5 DEF Request, Goes, requestVars, turnVars, workerVars, closeVars,
         storeVars
<1>6. ASSUME NEW r \in Requests, StreamEnds(r) \/ StreamStops(r) PROVE JobsInv'
      BY <1>6 DEF StreamEnds, StreamStops, EndsOrRaises, Goes, CloseConnection,
         requestVars, turnVars, workerVars, closeVars, storeVars
<1>7. ASSUME NEW r \in Requests, StreamCancelled(r) PROVE JobsInv'
      BY <1>7 DEF StreamCancelled, Goes, CloseConnection, requestVars, turnVars,
         workerVars, closeVars, storeVars
<1>8. ASSUME NEW r \in Requests, StreamRaises(r) PROVE JobsInv'
      BY <1>8 DEF StreamRaises, Goes, CloseConnection, requestVars, turnVars,
         workerVars, closeVars, storeVars
<1>9. ASSUME NEW r \in Requests, Release(r) \/ ReleaseRaises(r) PROVE JobsInv'
      BY <1>9 DEF Release, ReleaseRaises, Strands, SaveRaises, StopsWorkers, Goes,
         StopsWorkers, requestVars, turnVars, workerVars, closeVars, storeVars
<1>10. ASSUME NEW r \in Requests, Finish(r) \/ FinishRaises(r) PROVE JobsInv'
      BY <1>10 DEF Finish, FinishRaises, Strands, SaveRaises, Goes, requestVars,
         turnVars, workerVars, closeVars, storeVars
<1>11. ASSUME NEW r \in Requests, Exit(r) PROVE JobsInv'
      BY <1>11 DEF Exit, Goes, CanLock, requestVars, turnVars, workerVars,
         closeVars, storeVars
<1>12. ASSUME CloseBegins PROVE JobsInv'
      BY <1>12 DEF CloseBegins, requestVars, turnVars, workerVars, closeVars,
         storeVars
<1>13. ASSUME CloseCollects PROVE JobsInv'
      BY <1>13 DEF CloseCollects, requestVars, turnVars, workerVars, closeVars,
         storeVars
<1>14. ASSUME CloseCancels \/ CloseCancelRaises PROVE JobsInv'
      BY <1>14 DEF CloseCancels, CloseCancelRaises, SaveRaises, requestVars,
         turnVars, workerVars, closeVars, storeVars
<1>15. ASSUME CloseJoins PROVE JobsInv'
      BY <1>15 DEF CloseJoins, requestVars, turnVars, workerVars, closeVars,
         storeVars
<1>16. ASSUME CloseStops PROVE JobsInv'
      BY <1>16 DEF CloseStops, CloseConnection, requestVars, turnVars, workerVars,
         closeVars, storeVars
<1>17. ASSUME NEW r \in Requests,
              ReadControl(r) \/ EnterControl(r) \/ Prompt(r) \/ CheckOpen(r)
                 \/ TakeGpu(r) \/ Begin(r) \/ BeginRaises(r) \/ Register(r) \/
                    Cancel(r) \/ CancelRaises(r)
      PROVE  UNCHANGED <<thread, closer, jobs>>
      BY <1>17 DEF ReadControl, EnterControl, Prompt, CheckOpen, Unlocked, TakeGpu,
         Begin, BeginRaises, Strands, SaveRaises, Register, CanLock, Cancel,
         CancelRaises, SaveRaises, Asks, requestVars, turnVars, workerVars, closeVars,
         storeVars
<1>18. ASSUME NEW r \in Requests,
              CancelCloses(r)
      PROVE  UNCHANGED <<thread, closer, jobs>>
      BY <1>18 DEF CancelCloses, CloseConnection, requestVars, turnVars, workerVars,
         closeVars, storeVars
<1>19. ASSUME UNCHANGED vars PROVE UNCHANGED <<thread, closer, jobs>>
      BY <1>19 DEF vars, requestVars, turnVars, workerVars, closeVars, storeVars
<1>20. QED
      BY <1>1, <1>2, <1>3, <1>4, <1>5, <1>6, <1>7, <1>8, <1>9, <1>10, <1>11, <1>12,
         <1>13, <1>14, <1>15, <1>16, <1>17, <1>18, <1>19 DEF Next, Submit, Run, Close

\* Together they are inductive.
LEMMA Inductive == Spec => []IInv
<1>1. IInv /\ [Next]_vars => IInv'
      BY TypeStep, ThreadStep, OwnerStep, LockStep, OnceStep, CidStep, BusyStep,
         StreamStep, RefusingStep, JobsStep DEF IInv
<1>2. QED
      BY InitInv, <1>1, PTL DEF Spec

-----------------------------------------------------------------------------
\* Every state has the declared shape.
THEOREM TypeCorrect == Spec => []TypeOK
<1>1. IInv => TypeOK
      BY DEF IInv
<1>2. QED
      BY Inductive, <1>1, PTL

\* From the grant in submit to the end of its thread a turn is the one holder of
\* the GPU lock, and nobody else ever holds it (submit, _release_turn).
THEOREM OwnerAlways == Spec => []GpuHasOneOwner
<1>1. IInv => GpuHasOneOwner
      BY DEF IInv
<1>2. QED
      BY Inductive, <1>1, PTL

\* Of any number of requests with one action id, at most one is carried out
\* (action: "This action was already submitted").
THEOREM ActionOnceAlways == Spec => []ActionOnce
<1>1. IInv => ActionOnce
      BY DEF IInv, ThreadInv, OnceInv, ActionOnce, Requests
<1>2. QED
      BY Inductive, <1>1, PTL

\* A conversation is busy only while its turn is on its way to an end, or when
\* that turn's thread could not be started, or when a save raised in the very step
\* that should have ended it or kept it from beginning (store.begin, store.finish).
THEOREM BusyAlways == Spec => []BusyIsReal
<1>1. IInv => BusyIsReal
      BY DEF IInv
<1>2. QED
      BY Inductive, <1>1, PTL

\* No worker generates for a turn that gave the GPU back, unless a stop of the
\* workers has failed and every further turn is refused, or that turn stopped
\* reading a draft or a repair at its limit (_release_turn, _run_draft).
THEOREM QuietAlways == Spec => []QuietGpu
<1>1. IInv => QuietGpu
      BY RequestAssumption DEF IInv, TypeOK, StreamInv, GpuHasOneOwner, Alive,
         QuietGpu
<1>2. QED
      BY Inductive, <1>1, PTL

\* A step never ends a turn as complete that the store has marked as cancelled,
\* whichever of the saves on the way raise (store.cancel, store.finish).
THEOREM StoppedAlways == Spec => CancelledIsStopped
<1> DEFINE Kept == \A r \in refusing \ stranded : shown'[r] # "complete"
<1>1. IInv /\ [Next]_vars => [Kept]_vars
  <2> SUFFICES ASSUME IInv, [Next]_vars PROVE Kept \/ UNCHANGED vars
      OBVIOUS
  <2>1. \A r \in refusing \ stranded : r \in Requests /\ shown[r] = "none"
        BY DEF IInv, TypeOK, RefusingInv
  <2>2. ASSUME NEW r \in Requests, Finish(r) \/ FinishRaises(r) PROVE Kept
        BY <2>1, <2>2 DEF Finish, FinishRaises, Strands, SaveRaises, IInv, TypeOK
  <2>3. ASSUME NEW r \in Requests, Submit(r) \/ Cancel(r) \/ CancelRaises(r)
               \/ CancelCloses(r)
        PROVE  UNCHANGED shown
        BY <2>3 DEF Submit, ReadControl, EnterControl, Prompt, CheckOpen, TakeGpu,
           Begin, BeginRaises, Strands, SaveRaises, Register, StartThread, StartFails,
           Cancel, CancelRaises, SaveRaises, CancelCloses, storeVars
  <2>4. ASSUME NEW r \in Requests, Run(r), ~Finish(r), ~FinishRaises(r)
        PROVE  UNCHANGED shown
        BY <2>4 DEF Run, Open, Connect, Request, StreamEnds, StreamStops,
           EndsOrRaises, StreamCancelled, StreamRaises, Release, ReleaseRaises,
           Strands, SaveRaises, StopsWorkers, Exit, storeVars
  <2>5. ASSUME Close PROVE UNCHANGED shown
        BY <2>5 DEF Close, CloseBegins, CloseCollects, CloseCancels,
           CloseCancelRaises, SaveRaises, CloseJoins, CloseStops, storeVars
  <2>6. ASSUME UNCHANGED shown PROVE Kept
        BY <2>1, <2>6
  <2>7. QED
        BY <2>2, <2>3, <2>4, <2>5, <2>6 DEF Next
<1>2. QED
      BY Inductive, <1>1, PTL DEF Spec, CancelledIsStopped

\* close() returns quietly only when every turn that it found has ended (close).
THEOREM CloseAlways == Spec => []CloseIsHonest
<1>1. IInv => CloseIsHonest
      BY DEF IInv, JobsInv, CloseIsHonest
<1>2. QED
      BY Inductive, <1>1, PTL
=============================================================================
