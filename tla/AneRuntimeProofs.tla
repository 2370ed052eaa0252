-------------------------- MODULE AneRuntimeProofs --------------------------
(***************************************************************************)
(* The Neural Engine runtime keeps the promise of AneDevice for any number *)
(* of runtimes, calls, programs and reboots, provided all of them open the *)
(* same lock (SoleFile); that a quarantine has its reason, that a receipt  *)
(* is honest and that outputs belong to their inputs needs no such         *)
(* assumption.                                                             *)
(***************************************************************************)
EXTENDS AneRuntime, TLAPS

----------------------------------------------------------------------------
(* The inductive invariant.                                                *)

Armed == {"owned", "starting", "usable"}
Serving == {"packing", "submitting", "executing"}

\* A call of r waits for the worker's reply.
Sent(r) == tx[r] # None /\ call[tx[r]] = "sent"

TypeInv ==
  /\ TypeOK
  /\ \A r \in Runtimes : worker[r] = "submitting" => todo[r] > 0

\* A lock has one holder, and every process that should hold it does.
Sole ==
  \A r, q \in Runtimes :
    (File(r) = File(q) /\ fds[r] # {} /\ fds[q] # {}) => r = q

Holds(r) ==
  /\ "worker" \in fds[r] <=> Alive(r)
  /\ host[r] \in {"new", "gone"} => "host" \notin fds[r]
  /\ host[r] \in {"locked"} \cup Armed => "host" \in fds[r]

\* The socket is open as long as the host wants it, and clean before.
Wired(r) ==
  /\ host[r] \in {"new", "locked", "owned"} =>
       ~Alive(r) /\ command[r] = None /\ reply[r] = "none"
  /\ host[r] \in {"starting", "usable"} => control[r]
  /\ control[r] => host[r] \in {"starting", "usable"} \/ ~Alive(r)

LockInv == Sole /\ \A r \in Runtimes : Holds(r) /\ Wired(r)

\* A call past the mutex is the one inside, on a runtime still usable.
Inside(c) ==
  /\ call[c] \in {"filled", "sent", "exiting"} =>
       tx[Target[c]] = c /\ host[Target[c]] = "usable"
  /\ call[c] # "new" => host[Target[c]] \in {"usable", "unusable", "gone"}
  /\ call[c] = "exiting" => Op[c] = "shutdown"

CallInv ==
  /\ \A c \in Calls : Inside(c)
  /\ \A r \in Runtimes : tx[r] # None => Target[tx[r]] = r

\* What can be on the socket, and where the worker is, as the host goes on.
Socket(r) ==
  /\ host[r] = "starting" =>
       /\ command[r] = None
       /\ worker[r] \notin Serving
       /\ reply[r] = "ready" => worker[r] \in {"idle", "none"}
  /\ host[r] = "usable" => worker[r] # "loading"
  /\ (host[r] = "usable" /\ ~Sent(r)) =>
       command[r] = None /\ reply[r] = "none" /\ worker[r] \notin Serving
  /\ (host[r] = "usable" /\ worker[r] \in Serving) =>
       /\ command[r] = None /\ reply[r] = "none"
       /\ Op[tx[r]] = "execute"
  /\ (host[r] = "usable" /\ command[r] # None) =>
       command[r] = tx[r] /\ reply[r] = "none"

SocketInv == \A r \in Runtimes : Socket(r)

\* The record names this boot while something may still reach the device.
Recorded(r) ==
  (host[r] \in Armed \/ worker[r] \in Serving \/ (Alive(r) /\ command[r] # None)) =>
    record[File(r)] = boot

RecordInv ==
  /\ boot > 0 /\ \A f \in Files : record[f] <= boot
  /\ \A r \in Runtimes : Recorded(r)

\* Once a completion is unknown the record stays: nobody is left who would
\* clear it, and a call still inside can only come to the same conclusion.
Doubted(r) ==
  /\ record[File(r)] = boot
  /\ host[r] \notin {"owned", "starting"}
  /\ host[r] = "usable" =>
       /\ Sent(r) /\ Op[tx[r]] = "execute"
       /\ command[r] = None
       /\ worker[r] \in {"leaving", "none"}
       /\ reply[r] \in {"none", "uncertain"}

UnknownInv == unknown => \A r \in Runtimes : Doubted(r)

\* A record of this boot has its reason.
Reason(f) ==
  record[f] = boot =>
    \/ unknown \/ f \in excused
    \/ \E r \in Runtimes : File(r) = f /\ host[r] \in Armed

ReasonInv == \A f \in Files : Reason(f)

\* Inside the mutex the staging buffer and the worker's copy are the call's.
Own(c) ==
  Op[c] = "execute" =>
    /\ call[c] \in {"filled", "sent"} => staging[Target[c]] = c
    /\ call[c] = "ok" => answer[c] = c

OwnInv ==
  /\ \A c \in Calls : Own(c)
  /\ \A r \in Runtimes :
       (host[r] = "usable" /\ worker[r] \in Serving) => dense[r] = tx[r]

\* Every runtime opens the same lock and record.
SoleFile == \A r, q \in Runtimes : File(r) = File(q)

----------------------------------------------------------------------------
(* One lemma per part of the invariant, one step per action.               *)

\* Every action keeps the types.
LEMMA TypeStep ==
  ASSUME TypeInv, Next
  PROVE  TypeInv'
<1> USE AneAssumption DEF TypeInv, TypeOK, File, vars, diskVars, hostVars,
       workerVars, socketVars, historyVars
<1>1. ASSUME NEW r \in Runtimes, TakeLock(r) PROVE TypeInv'
  BY <1>1 DEF TakeLock, HostIs, Holders
<1>2. ASSUME NEW r \in Runtimes, WriteRecord(r) PROVE TypeInv'
  <2>1. CASE record[File(r)] = boot
    BY <2>1, <1>2 DEF WriteRecord, HostIs, Closes
  <2>2. CASE record[File(r)] # boot
    BY <2>2, <1>2 DEF WriteRecord, HostIs, Closes
  <2> QED
    BY <2>1, <2>2
<1>3. ASSUME NEW r \in Runtimes, StartFails(r) PROVE TypeInv'
  BY <1>3 DEF StartFails, HostIs, Closes
<1>4. ASSUME NEW r \in Runtimes, Spawn(r) PROVE TypeInv'
  BY <1>4 DEF Spawn, HostIs, Becomes
<1>5. ASSUME NEW r \in Runtimes, Started(r) PROVE TypeInv'
  BY <1>5 DEF Started, HostIs
<1>6. ASSUME NEW r \in Runtimes, StartGivesUp(r) PROVE TypeInv'
  BY <1>6 DEF StartGivesUp, MarkUnusable, Closes
<1>7. ASSUME NEW c \in Calls, Begin(c) PROVE TypeInv'
  BY <1>7 DEF Begin, Ends
<1>8. ASSUME NEW c \in Calls, Expire(c) PROVE TypeInv'
  BY <1>8 DEF Expire, Open
<1>9. ASSUME NEW c \in Calls, Enter(c) PROVE TypeInv'
  <2>1. Target[c] \in Runtimes
    OBVIOUS
  <2>2. CASE host[Target[c]] = "usable" /\ Op[c] = "execute"
    BY <2>1, <2>2, <1>9, SMTT(30) DEF Enter, Ends
  <2>3. CASE host[Target[c]] = "usable" /\ Op[c] # "execute"
    <3>1. staging' = staging
      BY <2>1, <2>3, <1>9 DEF Enter
    <3> QED
      BY <2>1, <2>3, <3>1, <1>9 DEF Enter, Ends
  <2>4. CASE host[Target[c]] # "usable"
    BY <2>1, <2>4, <1>9 DEF Enter, Ends
  <2> QED
    BY <2>2, <2>3, <2>4
<1>10. ASSUME NEW c \in Calls, NeverEnters(c) PROVE TypeInv'
  BY <1>10 DEF NeverEnters, Ends
<1>11. ASSUME NEW c \in Calls, TooLate(c) PROVE TypeInv'
  BY <1>11 DEF TooLate, Returns, Ends
<1>12. ASSUME NEW c \in Calls, Send(c) PROVE TypeInv'
  BY <1>12 DEF Send, Ends
<1>13. ASSUME NEW c \in Calls, SendFails(c) PROVE TypeInv'
  BY <1>13, SMTT(30) DEF SendFails, MarkUnusable, Closes, Returns, Ends
<1>14. ASSUME NEW c \in Calls, Answered(c) PROVE TypeInv'
  BY <1>14, SMTT(30) DEF Answered, Returns, Ends
<1>15. ASSUME NEW c \in Calls, FailedBefore(c) PROVE TypeInv'
  BY <1>15, SMTT(30) DEF FailedBefore, MarkUnusable, Closes, Returns, Ends
<1>16. ASSUME NEW c \in Calls, NeverAnswered(c) PROVE TypeInv'
  BY <1>16, SMTT(30) DEF NeverAnswered, MarkUnusable, Closes, Returns, Ends
<1>17. ASSUME NEW c \in Calls, Stopped(c) PROVE TypeInv'
  BY <1>17 DEF Stopped, Ends
<1>18. ASSUME NEW c \in Calls, ExitSeen(c) PROVE TypeInv'
  <2>1. Target[c] \in Runtimes /\ File(Target[c]) \in Files
    OBVIOUS
  <2>2. record' \in [Files -> Nat] /\ fds' \in [Runtimes -> SUBSET {"host", "worker"}]
        /\ excused' \in SUBSET Files
    BY <2>1, <1>18 DEF ExitSeen, Closes, Returns, Ends
  <2>3. \E how \in {"ok", "failed"} : Returns(c, how)
    BY <1>18 DEF ExitSeen
  <2>4. call' \in [Calls -> {"new", "waiting", "filled", "sent", "exiting", "ok", "failed"}]
        /\ tx' \in [Runtimes -> Calls \cup {None}]
    BY <2>1, <2>3 DEF Returns, Ends
  <2> QED
    BY <2>1, <2>2, <2>4, <1>18 DEF ExitSeen
<1>19. ASSUME NEW c \in Calls, ExitTooLate(c) PROVE TypeInv'
  BY <1>19 DEF ExitTooLate, MarkUnusable, Closes, Returns, Ends
<1>20. ASSUME NEW r \in Runtimes, Destroy(r) PROVE TypeInv'
  BY <1>20 DEF Destroy, Closes, Open
<1>21. ASSUME NEW r \in Runtimes, HostDies(r) PROVE TypeInv'
  BY <1>21 DEF HostDies, Closes, Open
<1>22. ASSUME NEW r \in Runtimes, Load(r) PROVE TypeInv'
  BY <1>22 DEF Load, Becomes, Sends
<1>23. ASSUME NEW r \in Runtimes, Receive(r) PROVE TypeInv'
  <2>1. CASE command[r] # None
    <3>1. command[r] \in Calls
      BY <2>1
    <3>2. reply' \in [Runtimes -> {"none", "ready", "failed", "uncertain", "executed", "stopped"}]
      BY <2>1, <1>23 DEF Receive, TakeCommand, Sends
    <3>3. worker' \in [Runtimes -> {"none", "loading", "idle", "packing", "submitting", "executing", "leaving"}]
          /\ \A q \in Runtimes : worker'[q] = "submitting" => worker[q] = "submitting" /\ q # r
      BY <2>1, <1>23 DEF Receive, TakeCommand, Becomes
    <3> QED
      BY <2>1, <3>1, <3>2, <3>3, <1>23 DEF Receive, TakeCommand
  <2>2. CASE command[r] = None
    BY <2>2, <1>23 DEF Receive, TakeCommand, Becomes
  <2> QED
    BY <2>1, <2>2
<1>24. ASSUME NEW r \in Runtimes, CheckDeadline(r) PROVE TypeInv'
  <2>1. CASE serving[r] \in late
    BY <2>1, <1>24 DEF CheckDeadline, Becomes, Sends, Dispatched
  <2>2. CASE serving[r] \notin late
    BY <2>2, <1>24 DEF CheckDeadline, Becomes, Sends, Dispatched
  <2> QED
    BY <2>1, <2>2
<1>25. ASSUME NEW r \in Runtimes, Submit(r) PROVE TypeInv'
  BY <1>25 DEF Submit, Becomes
<1>26. ASSUME NEW r \in Runtimes, ExecReturns(r) PROVE TypeInv'
  <2>1. reply' \in [Runtimes -> {"none", "ready", "failed", "uncertain", "executed", "stopped"}]
    BY <1>26 DEF ExecReturns, Sends
  <2>2. worker' \in [Runtimes -> {"none", "loading", "idle", "packing", "submitting", "executing", "leaving"}]
        /\ \A q \in Runtimes : worker'[q] = "submitting" => worker[q] = "submitting"
    BY <1>26 DEF ExecReturns, Becomes
  <2> QED
    BY <2>1, <2>2, <1>26 DEF ExecReturns
<1>27. ASSUME NEW r \in Runtimes, Finish(r) PROVE TypeInv'
  BY <1>27 DEF Finish, Becomes, Sends
<1>28. ASSUME NEW r \in Runtimes, Exit(r) PROVE TypeInv'
  BY <1>28 DEF Exit, Becomes, Closes
<1>29. ASSUME NEW r \in Runtimes, Crash(r) PROVE TypeInv'
  BY <1>29 DEF Crash, Becomes, Closes, Dispatched
<1>30. ASSUME Reboot PROVE TypeInv'
  <2>1. record' \in [Files -> Nat] /\ boot' \in Nat
    BY <1>30 DEF Reboot
  <2>2. call' \in [Calls -> {"new", "waiting", "filled", "sent", "exiting", "ok", "failed"}]
    BY <1>30 DEF Reboot
  <2> QED
    BY <2>1, <2>2, <1>30 DEF Reboot
<1> QED
  BY <1>1, <1>2, <1>3, <1>4, <1>5, <1>6, <1>7, <1>8, <1>9, <1>10, <1>11,
     <1>12, <1>13, <1>14, <1>15, <1>16, <1>17, <1>18, <1>19, <1>20, <1>21,
     <1>22, <1>23, <1>24, <1>25, <1>26, <1>27, <1>28, <1>29, <1>30 DEF Next,
     Loading, Calling, Working

\* The lock.  Only a runtime that found no holder becomes one.
LEMMA LockStep ==
  ASSUME TypeInv, LockInv, CallInv, Next
  PROVE  LockInv'
<1> USE AneAssumption DEF LockInv, Sole, Holds, Wired, Armed, File, Alive,
       vars, diskVars, hostVars, workerVars, socketVars, historyVars
<1>t. /\ fds \in [Runtimes -> SUBSET {"host", "worker"}]
      /\ host \in [Runtimes -> {"new", "locked", "owned", "starting", "usable",
                                "unusable", "gone"}]
      /\ worker \in [Runtimes -> {"none", "loading", "idle", "packing", "submitting",
                                  "executing", "leaving"}]
      /\ control \in [Runtimes -> BOOLEAN] /\ command \in [Runtimes -> Calls \cup {None}]
      /\ reply \in [Runtimes -> {"none", "ready", "failed", "uncertain", "executed",
                                 "stopped"}]
  BY DEF TypeInv, TypeOK
<1>1. ASSUME NEW c \in Calls,
             Begin(c) \/ Expire(c) \/ Enter(c) \/ NeverEnters(c) \/ TooLate(c)
      PROVE  LockInv'
  <2>1. UNCHANGED <<fds, host, worker, control, command, reply>>
    BY <1>1 DEF Begin, Expire, Enter, NeverEnters, TooLate
  <2> QED
    BY <1>t, <2>1
<1>2. ASSUME NEW r \in Runtimes, TakeLock(r) PROVE LockInv'
  BY <1>t, <1>2 DEF TakeLock, HostIs, Holders
<1>3. ASSUME NEW r \in Runtimes, WriteRecord(r) PROVE LockInv'
  BY <1>t, <1>3 DEF WriteRecord, HostIs, Closes
<1>4. ASSUME NEW r \in Runtimes, StartFails(r) PROVE LockInv'
  BY <1>t, <1>4 DEF StartFails, HostIs, Closes
<1>5. ASSUME NEW r \in Runtimes, Spawn(r) PROVE LockInv'
  BY <1>t, <1>5 DEF Spawn, HostIs, Becomes
<1>6. ASSUME NEW r \in Runtimes, Started(r) PROVE LockInv'
  BY <1>t, <1>6 DEF Started, HostIs
<1>7. ASSUME NEW r \in Runtimes, StartGivesUp(r) PROVE LockInv'
  BY <1>t, <1>7 DEF StartGivesUp, MarkUnusable, Closes
<1>8. ASSUME NEW c \in Calls, Send(c) PROVE LockInv'
  BY <1>t, <1>8 DEF Send, Ends, CallInv, Inside
<1>9. ASSUME NEW c \in Calls, SendFails(c) PROVE LockInv'
  BY <1>t, <1>9 DEF SendFails, MarkUnusable, Closes, Returns, Ends
<1>10. ASSUME NEW c \in Calls, Answered(c) PROVE LockInv'
  BY <1>t, <1>10 DEF Answered, Returns, Ends
<1>11. ASSUME NEW c \in Calls, FailedBefore(c) PROVE LockInv'
  BY <1>t, <1>11 DEF FailedBefore, MarkUnusable, Closes, Returns, Ends
<1>12. ASSUME NEW c \in Calls, NeverAnswered(c) PROVE LockInv'
  BY <1>t, <1>12 DEF NeverAnswered, MarkUnusable, Closes, Returns, Ends
<1>13. ASSUME NEW c \in Calls, Stopped(c) PROVE LockInv'
  BY <1>t, <1>13 DEF Stopped, Ends
<1>14. ASSUME NEW c \in Calls, ExitSeen(c) PROVE LockInv'
  BY <1>t, <1>14 DEF ExitSeen, Closes, Returns, Ends
<1>15. ASSUME NEW c \in Calls, ExitTooLate(c) PROVE LockInv'
  BY <1>t, <1>15 DEF ExitTooLate, MarkUnusable, Closes, Returns, Ends
<1>16. ASSUME NEW r \in Runtimes, Destroy(r) PROVE LockInv'
  BY <1>t, <1>16 DEF Destroy, Closes, Open
<1>17. ASSUME NEW r \in Runtimes, HostDies(r) PROVE LockInv'
  BY <1>t, <1>17 DEF HostDies, Closes, Open
<1>18. ASSUME NEW r \in Runtimes, Load(r) PROVE LockInv'
  BY <1>t, <1>18 DEF Load, Becomes, Sends
<1>19. ASSUME NEW r \in Runtimes, Receive(r) PROVE LockInv'
  BY <1>t, <1>19, SMTT(30) DEF Receive, TakeCommand, Becomes, Sends
<1>20. ASSUME NEW r \in Runtimes, CheckDeadline(r) PROVE LockInv'
  BY <1>t, <1>20 DEF CheckDeadline, Becomes, Sends, Dispatched
<1>21. ASSUME NEW r \in Runtimes, Submit(r) PROVE LockInv'
  BY <1>t, <1>21 DEF Submit, Becomes
<1>22. ASSUME NEW r \in Runtimes, ExecReturns(r) PROVE LockInv'
  BY <1>t, <1>22 DEF ExecReturns, Becomes, Sends
<1>23. ASSUME NEW r \in Runtimes, Finish(r) PROVE LockInv'
  BY <1>t, <1>23 DEF Finish, Becomes, Sends
<1>24. ASSUME NEW r \in Runtimes, Exit(r) PROVE LockInv'
  BY <1>t, <1>24 DEF Exit, Becomes, Closes
<1>25. ASSUME NEW r \in Runtimes, Crash(r) PROVE LockInv'
  BY <1>t, <1>25 DEF Crash, Becomes, Closes, Dispatched
<1>26. ASSUME Reboot PROVE LockInv'
  BY <1>t, <1>26 DEF Reboot, Open
<1> QED
  BY <1>1, <1>2, <1>3, <1>4, <1>5, <1>6, <1>7, <1>8, <1>9, <1>10, <1>11,
     <1>12, <1>13, <1>14, <1>15, <1>16, <1>17, <1>18, <1>19, <1>20, <1>21,
     <1>22, <1>23, <1>24, <1>25, <1>26 DEF Next, Loading, Calling, Working

\* The transaction mutex.
LEMMA CallStep ==
  ASSUME TypeInv, LockInv, CallInv, Next
  PROVE  CallInv'
<1> USE AneAssumption DEF CallInv, Inside, Alive, vars, diskVars, hostVars,
       workerVars, socketVars, historyVars
<1>t. /\ host \in [Runtimes -> {"new", "locked", "owned", "starting", "usable",
                                "unusable", "gone"}]
      /\ tx \in [Runtimes -> Calls \cup {None}]
      /\ call \in [Calls -> {"new", "waiting", "filled", "sent", "exiting", "ok",
                             "failed"}]
  BY DEF TypeInv, TypeOK
<1>1. ASSUME NEW r \in Runtimes,
             Load(r) \/ Receive(r) \/ CheckDeadline(r) \/ Submit(r) \/
             ExecReturns(r) \/ Finish(r) \/ Exit(r) \/ Crash(r)
      PROVE  CallInv'
  <2>1. UNCHANGED <<call, tx, host>>
    BY <1>1 DEF Load, Receive, CheckDeadline, Submit, ExecReturns, Finish,
       Exit, Crash, TakeCommand
  <2> QED
    BY <1>t, <2>1
<1>2. ASSUME NEW r \in Runtimes, TakeLock(r) PROVE CallInv'
  BY <1>t, <1>2 DEF TakeLock, HostIs, Holders
<1>3. ASSUME NEW r \in Runtimes, WriteRecord(r) PROVE CallInv'
  BY <1>t, <1>3 DEF WriteRecord, HostIs, Closes
<1>4. ASSUME NEW r \in Runtimes, StartFails(r) PROVE CallInv'
  BY <1>t, <1>4 DEF StartFails, HostIs, Closes
<1>5. ASSUME NEW r \in Runtimes, Spawn(r) PROVE CallInv'
  BY <1>t, <1>5 DEF Spawn, HostIs, Becomes
<1>6. ASSUME NEW r \in Runtimes, Started(r) PROVE CallInv'
  BY <1>t, <1>6 DEF Started, HostIs
<1>7. ASSUME NEW r \in Runtimes, StartGivesUp(r) PROVE CallInv'
  BY <1>t, <1>7 DEF StartGivesUp, MarkUnusable, Closes
<1>8. ASSUME NEW c \in Calls, Begin(c) PROVE CallInv'
  BY <1>t, <1>8 DEF Begin, Ends
<1>9. ASSUME NEW c \in Calls, Expire(c) PROVE CallInv'
  BY <1>t, <1>9 DEF Expire, Open
<1>10. ASSUME NEW c \in Calls, Enter(c) PROVE CallInv'
  BY <1>t, <1>10 DEF Enter, Ends
<1>11. ASSUME NEW c \in Calls, NeverEnters(c) PROVE CallInv'
  BY <1>t, <1>11 DEF NeverEnters, Ends
<1>12. ASSUME NEW c \in Calls, TooLate(c) PROVE CallInv'
  BY <1>t, <1>12 DEF TooLate, Returns, Ends
<1>13. ASSUME NEW c \in Calls, Send(c) PROVE CallInv'
  BY <1>t, <1>13 DEF Send, Ends
<1>14. ASSUME NEW c \in Calls, SendFails(c) PROVE CallInv'
  BY <1>t, <1>14 DEF SendFails, MarkUnusable, Closes, Returns, Ends
<1>15. ASSUME NEW c \in Calls, Answered(c) PROVE CallInv'
  BY <1>t, <1>15 DEF Answered, Returns, Ends
<1>16. ASSUME NEW c \in Calls, FailedBefore(c) PROVE CallInv'
  BY <1>t, <1>16 DEF FailedBefore, MarkUnusable, Closes, Returns, Ends
<1>17. ASSUME NEW c \in Calls, NeverAnswered(c) PROVE CallInv'
  BY <1>t, <1>17 DEF NeverAnswered, MarkUnusable, Closes, Returns, Ends
<1>18. ASSUME NEW c \in Calls, Stopped(c) PROVE CallInv'
  BY <1>t, <1>18 DEF Stopped, Ends
<1>19. ASSUME NEW c \in Calls, ExitSeen(c) PROVE CallInv'
  BY <1>t, <1>19 DEF ExitSeen, Closes, Returns, Ends
<1>20. ASSUME NEW c \in Calls, ExitTooLate(c) PROVE CallInv'
  BY <1>t, <1>20 DEF ExitTooLate, MarkUnusable, Closes, Returns, Ends
<1>21. ASSUME NEW r \in Runtimes, Destroy(r) PROVE CallInv'
  BY <1>t, <1>21 DEF Destroy, Closes, Open
<1>22. ASSUME NEW r \in Runtimes, HostDies(r) PROVE CallInv'
  BY <1>t, <1>22 DEF HostDies, Closes, Open
<1>23. ASSUME Reboot PROVE CallInv'
  BY <1>t, <1>23 DEF Reboot, Open
<1> QED
  BY <1>1, <1>2, <1>3, <1>4, <1>5, <1>6, <1>7, <1>8, <1>9, <1>10, <1>11,
     <1>12, <1>13, <1>14, <1>15, <1>16, <1>17, <1>18, <1>19, <1>20, <1>21,
     <1>22, <1>23 DEF Next, Loading, Calling, Working

\* The protocol between host and worker.
LEMMA SocketStep ==
  ASSUME TypeInv, LockInv, CallInv, SocketInv, Next
  PROVE  SocketInv'
<1> USE AneAssumption DEF Socket, Wired, Sent, Serving, Alive, vars, diskVars,
       hostVars, workerVars, socketVars, historyVars
<1>t. /\ host \in [Runtimes -> {"new", "locked", "owned", "starting", "usable",
                                "unusable", "gone"}]
      /\ worker \in [Runtimes -> {"none", "loading", "idle", "packing", "submitting",
                                  "executing", "leaving"}]
      /\ control \in [Runtimes -> BOOLEAN] /\ command \in [Runtimes -> Calls \cup {None}]
      /\ tx \in [Runtimes -> Calls \cup {None}]
      /\ call \in [Calls -> {"new", "waiting", "filled", "sent", "exiting", "ok",
                             "failed"}]
      /\ reply \in [Runtimes -> {"none", "ready", "failed", "uncertain", "executed",
                                 "stopped"}]
  BY DEF TypeInv, TypeOK
<1>l. \A r \in Runtimes : Wired(r) /\ Socket(r)
  BY DEF LockInv, SocketInv
<1>c. /\ \A c \in Calls : call[c] \in {"filled", "sent", "exiting"} =>
              tx[Target[c]] = c /\ host[Target[c]] = "usable"
      /\ \A r \in Runtimes : tx[r] # None => Target[tx[r]] = r
  BY DEF CallInv, Inside
<1>1. ASSUME NEW r \in Runtimes, TakeLock(r) PROVE SocketInv'
  BY <1>t, <1>l, <1>c, <1>1 DEF TakeLock, HostIs, Holders, SocketInv
<1>2. ASSUME NEW r \in Runtimes, WriteRecord(r) PROVE SocketInv'
  BY <1>t, <1>l, <1>c, <1>2 DEF WriteRecord, HostIs, Closes, SocketInv
<1>3. ASSUME NEW r \in Runtimes, StartFails(r) PROVE SocketInv'
  BY <1>t, <1>l, <1>c, <1>3 DEF StartFails, HostIs, Closes, SocketInv
<1>4. ASSUME NEW r \in Runtimes, Spawn(r) PROVE SocketInv'
  BY <1>t, <1>l, <1>c, <1>4 DEF Spawn, HostIs, Becomes, SocketInv
<1>5. ASSUME NEW r \in Runtimes, Started(r) PROVE SocketInv'
  BY <1>t, <1>l, <1>c, <1>5 DEF Started, HostIs, SocketInv
<1>6. ASSUME NEW r \in Runtimes, StartGivesUp(r) PROVE SocketInv'
  BY <1>t, <1>l, <1>c, <1>6 DEF StartGivesUp, MarkUnusable, Closes, SocketInv
<1>7. ASSUME NEW c \in Calls, Begin(c) PROVE SocketInv'
  BY <1>t, <1>l, <1>c, <1>7 DEF Begin, Ends, SocketInv
<1>8. ASSUME NEW c \in Calls, Expire(c) PROVE SocketInv'
  BY <1>t, <1>l, <1>c, <1>8 DEF Expire, Open, SocketInv
<1>9. ASSUME NEW c \in Calls, Enter(c) PROVE SocketInv'
  BY <1>t, <1>l, <1>c, <1>9 DEF Enter, Ends, SocketInv
<1>10. ASSUME NEW c \in Calls, NeverEnters(c) PROVE SocketInv'
  BY <1>t, <1>l, <1>c, <1>10 DEF NeverEnters, Ends, SocketInv
<1>11. ASSUME NEW c \in Calls, TooLate(c) PROVE SocketInv'
  BY <1>t, <1>l, <1>c, <1>11 DEF TooLate, Returns, Ends, SocketInv
<1>12. ASSUME NEW c \in Calls, Send(c) PROVE SocketInv'
  BY <1>t, <1>l, <1>c, <1>12 DEF Send, Ends, SocketInv
<1>13. ASSUME NEW c \in Calls, SendFails(c) PROVE SocketInv'
  BY <1>t, <1>l, <1>c, <1>13 DEF SendFails, MarkUnusable, Closes, Returns,
     Ends, SocketInv
<1>14. ASSUME NEW c \in Calls, Answered(c) PROVE SocketInv'
  BY <1>t, <1>l, <1>c, <1>14 DEF Answered, Returns, Ends, SocketInv
<1>15. ASSUME NEW c \in Calls, FailedBefore(c) PROVE SocketInv'
  BY <1>t, <1>l, <1>c, <1>15 DEF FailedBefore, MarkUnusable, Closes, Returns,
     Ends, SocketInv
<1>16. ASSUME NEW c \in Calls, NeverAnswered(c) PROVE SocketInv'
  BY <1>t, <1>l, <1>c, <1>16 DEF NeverAnswered, MarkUnusable, Closes, Returns,
     Ends, SocketInv
<1>17. ASSUME NEW c \in Calls, Stopped(c) PROVE SocketInv'
  BY <1>t, <1>l, <1>c, <1>17 DEF Stopped, Ends, SocketInv
<1>18. ASSUME NEW c \in Calls, ExitSeen(c) PROVE SocketInv'
  BY <1>t, <1>l, <1>c, <1>18 DEF ExitSeen, Closes, Returns, Ends, SocketInv
<1>19. ASSUME NEW c \in Calls, ExitTooLate(c) PROVE SocketInv'
  BY <1>t, <1>l, <1>c, <1>19 DEF ExitTooLate, MarkUnusable, Closes, Returns,
     Ends, SocketInv
<1>20. ASSUME NEW r \in Runtimes, Destroy(r) PROVE SocketInv'
  BY <1>t, <1>l, <1>c, <1>20 DEF Destroy, Closes, Open, SocketInv
<1>21. ASSUME NEW r \in Runtimes, HostDies(r) PROVE SocketInv'
  BY <1>t, <1>l, <1>c, <1>21 DEF HostDies, Closes, Open, SocketInv
<1>22. ASSUME NEW r \in Runtimes, Load(r) PROVE SocketInv'
  BY <1>t, <1>l, <1>c, <1>22 DEF Load, Becomes, Sends, SocketInv
<1>23. ASSUME NEW r \in Runtimes, Receive(r) PROVE SocketInv'
  BY <1>t, <1>l, <1>c, <1>23 DEF Receive, TakeCommand, Becomes, Sends,
     SocketInv
<1>24. ASSUME NEW r \in Runtimes, CheckDeadline(r) PROVE SocketInv'
  BY <1>t, <1>l, <1>c, <1>24 DEF CheckDeadline, Becomes, Sends, Dispatched,
     SocketInv
<1>25. ASSUME NEW r \in Runtimes, Submit(r) PROVE SocketInv'
  BY <1>t, <1>l, <1>c, <1>25 DEF Submit, Becomes, SocketInv
<1>26. ASSUME NEW r \in Runtimes, ExecReturns(r) PROVE SocketInv'
  BY <1>t, <1>l, <1>c, <1>26 DEF ExecReturns, Becomes, Sends, SocketInv
<1>27. ASSUME NEW r \in Runtimes, Finish(r) PROVE SocketInv'
  BY <1>t, <1>l, <1>c, <1>27 DEF Finish, Becomes, Sends, SocketInv
<1>28. ASSUME NEW r \in Runtimes, Exit(r) PROVE SocketInv'
  BY <1>t, <1>l, <1>c, <1>28 DEF Exit, Becomes, Closes, SocketInv
<1>29. ASSUME NEW r \in Runtimes, Crash(r) PROVE SocketInv'
  BY <1>t, <1>l, <1>c, <1>29 DEF Crash, Becomes, Closes, Dispatched, SocketInv
<1>30. ASSUME Reboot PROVE SocketInv'
  BY <1>t, <1>l, <1>c, <1>30 DEF Reboot, Open, SocketInv
<1> QED
  BY <1>1, <1>2, <1>3, <1>4, <1>5, <1>6, <1>7, <1>8, <1>9, <1>10, <1>11,
     <1>12, <1>13, <1>14, <1>15, <1>16, <1>17, <1>18, <1>19, <1>20, <1>21,
     <1>22, <1>23, <1>24, <1>25, <1>26, <1>27, <1>28, <1>29, <1>30 DEF Next,
     Loading, Calling, Working

\* The record.  Who clears it holds the lock, and nothing of this runtime is
\* on its way to the device.
LEMMA RecordStep ==
  ASSUME TypeInv, LockInv, CallInv, SocketInv, RecordInv, Next
  PROVE  RecordInv'
<1> USE AneAssumption DEF Recorded, Sole, Holds, Wired, Socket, Serving,
       Armed, Sent, File, Alive, vars, diskVars, hostVars, workerVars,
       socketVars, historyVars
<1>t. /\ fds \in [Runtimes -> SUBSET {"host", "worker"}]
      /\ host \in [Runtimes -> {"new", "locked", "owned", "starting", "usable",
                                "unusable", "gone"}]
      /\ worker \in [Runtimes -> {"none", "loading", "idle", "packing", "submitting",
                                  "executing", "leaving"}]
      /\ command \in [Runtimes -> Calls \cup {None}] /\ tx \in [Runtimes -> Calls \cup {None}]
      /\ call \in [Calls -> {"new", "waiting", "filled", "sent", "exiting", "ok",
                             "failed"}]
      /\ boot \in Nat /\ record \in [Files -> Nat] /\ excused \in SUBSET Files
  BY DEF TypeInv, TypeOK
<1>l. Sole /\ \A r \in Runtimes : Holds(r) /\ Wired(r) /\ Socket(r)
  BY DEF LockInv, SocketInv
<1>c. \A c \in Calls : call[c] \in {"filled", "sent", "exiting"} =>
        tx[Target[c]] = c /\ host[Target[c]] = "usable"
  BY DEF CallInv, Inside
<1>r. boot > 0 /\ (\A f \in Files : record[f] <= boot) /\ \A r \in Runtimes : Recorded(r)
  BY DEF RecordInv
<1>1. ASSUME NEW c \in Calls,
             Begin(c) \/ Expire(c) \/ Enter(c) \/ NeverEnters(c) \/ TooLate(c)
             \/ Answered(c) \/ Stopped(c)
      PROVE  RecordInv'
  <2>1. UNCHANGED <<boot, record, host, worker, command>>
    BY <1>1 DEF Begin, Expire, Enter, NeverEnters, TooLate, Answered, Stopped
  <2> QED
    BY <1>t, <1>l, <1>c, <1>r, <2>1 DEF RecordInv
<1>2. ASSUME NEW r \in Runtimes, TakeLock(r) PROVE RecordInv'
  BY <1>t, <1>l, <1>c, <1>r, <1>2 DEF TakeLock, HostIs, Holders, RecordInv
<1>3. ASSUME NEW r \in Runtimes, WriteRecord(r) PROVE RecordInv'
  BY <1>t, <1>l, <1>c, <1>r, <1>3 DEF WriteRecord, HostIs, Closes, RecordInv
<1>4. ASSUME NEW r \in Runtimes, StartFails(r) PROVE RecordInv'
  BY <1>t, <1>l, <1>c, <1>r, <1>4 DEF StartFails, HostIs, Closes, RecordInv
<1>5. ASSUME NEW r \in Runtimes, Spawn(r) PROVE RecordInv'
  BY <1>t, <1>l, <1>c, <1>r, <1>5 DEF Spawn, HostIs, Becomes, RecordInv
<1>6. ASSUME NEW r \in Runtimes, Started(r) PROVE RecordInv'
  BY <1>t, <1>l, <1>c, <1>r, <1>6 DEF Started, HostIs, RecordInv
<1>7. ASSUME NEW r \in Runtimes, StartGivesUp(r) PROVE RecordInv'
  BY <1>t, <1>l, <1>c, <1>r, <1>7 DEF StartGivesUp, MarkUnusable, Closes,
     RecordInv
<1>8. ASSUME NEW c \in Calls, Send(c) PROVE RecordInv'
  BY <1>t, <1>l, <1>c, <1>r, <1>8 DEF Send, Ends, RecordInv
<1>9. ASSUME NEW c \in Calls, SendFails(c) PROVE RecordInv'
  BY <1>t, <1>l, <1>c, <1>r, <1>9, SMTT(30) DEF SendFails, MarkUnusable, Closes,
     Returns, Ends, RecordInv
<1>10. ASSUME NEW c \in Calls, FailedBefore(c) PROVE RecordInv'
  BY <1>t, <1>l, <1>c, <1>r, <1>10, SMTT(30) DEF FailedBefore, MarkUnusable, Closes,
     Returns, Ends, RecordInv
<1>11. ASSUME NEW c \in Calls, NeverAnswered(c) PROVE RecordInv'
  BY <1>t, <1>l, <1>c, <1>r, <1>11 DEF NeverAnswered, MarkUnusable, Closes,
     Returns, Ends, RecordInv
<1>12. ASSUME NEW c \in Calls, ExitSeen(c) PROVE RecordInv'
  BY <1>t, <1>l, <1>c, <1>r, <1>12, SMTT(30) DEF ExitSeen, Closes, Returns, Ends,
     RecordInv
<1>13. ASSUME NEW c \in Calls, ExitTooLate(c) PROVE RecordInv'
  BY <1>t, <1>l, <1>c, <1>r, <1>13 DEF ExitTooLate, MarkUnusable, Closes,
     Returns, Ends, RecordInv
<1>14. ASSUME NEW r \in Runtimes, Destroy(r) PROVE RecordInv'
  BY <1>t, <1>l, <1>c, <1>r, <1>14 DEF Destroy, Closes, Open, RecordInv
<1>15. ASSUME NEW r \in Runtimes, HostDies(r) PROVE RecordInv'
  BY <1>t, <1>l, <1>c, <1>r, <1>15 DEF HostDies, Closes, Open, RecordInv
<1>16. ASSUME NEW r \in Runtimes, Load(r) PROVE RecordInv'
  BY <1>t, <1>l, <1>c, <1>r, <1>16 DEF Load, Becomes, Sends, RecordInv
<1>17. ASSUME NEW r \in Runtimes, Receive(r) PROVE RecordInv'
  BY <1>t, <1>l, <1>c, <1>r, <1>17 DEF Receive, TakeCommand, Becomes, Sends,
     RecordInv
<1>18. ASSUME NEW r \in Runtimes, CheckDeadline(r) PROVE RecordInv'
  BY <1>t, <1>l, <1>c, <1>r, <1>18 DEF CheckDeadline, Becomes, Sends,
     Dispatched, RecordInv
<1>19. ASSUME NEW r \in Runtimes, Submit(r) PROVE RecordInv'
  BY <1>t, <1>l, <1>c, <1>r, <1>19 DEF Submit, Becomes, RecordInv
<1>20. ASSUME NEW r \in Runtimes, ExecReturns(r) PROVE RecordInv'
  BY <1>t, <1>l, <1>c, <1>r, <1>20 DEF ExecReturns, Becomes, Sends, RecordInv
<1>21. ASSUME NEW r \in Runtimes, Finish(r) PROVE RecordInv'
  BY <1>t, <1>l, <1>c, <1>r, <1>21 DEF Finish, Becomes, Sends, RecordInv
<1>22. ASSUME NEW r \in Runtimes, Exit(r) PROVE RecordInv'
  BY <1>t, <1>l, <1>c, <1>r, <1>22 DEF Exit, Becomes, Closes, RecordInv
<1>23. ASSUME NEW r \in Runtimes, Crash(r) PROVE RecordInv'
  BY <1>t, <1>l, <1>c, <1>r, <1>23 DEF Crash, Becomes, Closes, Dispatched,
     RecordInv
<1>24. ASSUME Reboot PROVE RecordInv'
  BY <1>t, <1>l, <1>c, <1>r, <1>24 DEF Reboot, Open, RecordInv
<1> QED
  BY <1>1, <1>2, <1>3, <1>4, <1>5, <1>6, <1>7, <1>8, <1>9, <1>10, <1>11,
     <1>12, <1>13, <1>14, <1>15, <1>16, <1>17, <1>18, <1>19, <1>20, <1>21,
     <1>22, <1>23, <1>24 DEF Next, Loading, Calling, Working

\* A record has its reason.
LEMMA ReasonStep ==
  ASSUME TypeInv, LockInv, RecordInv, ReasonInv, Next
  PROVE  ReasonInv'
<1> USE AneAssumption DEF Reason, Armed, File, Alive, vars, diskVars,
       hostVars, workerVars, socketVars, historyVars
<1>t. /\ fds \in [Runtimes -> SUBSET {"host", "worker"}]
      /\ host \in [Runtimes -> {"new", "locked", "owned", "starting", "usable",
                                "unusable", "gone"}]
      /\ worker \in [Runtimes -> {"none", "loading", "idle", "packing", "submitting",
                                  "executing", "leaving"}]
      /\ command \in [Runtimes -> Calls \cup {None}] /\ tx \in [Runtimes -> Calls \cup {None}]
      /\ call \in [Calls -> {"new", "waiting", "filled", "sent", "exiting", "ok",
                             "failed"}]
      /\ boot \in Nat /\ record \in [Files -> Nat] /\ excused \in SUBSET Files
  BY DEF TypeInv, TypeOK
<1>r. boot > 0 /\ (\A f \in Files : record[f] <= boot) /\ \A f \in Files : Reason(f)
  BY DEF RecordInv, ReasonInv
<1>1. ASSUME NEW r \in Runtimes,
             Load(r) \/ Receive(r) \/ Submit(r) \/ Finish(r) \/ Exit(r)
      PROVE  ReasonInv'
  <2>1. UNCHANGED <<record, boot, unknown, excused, host>>
    BY <1>1 DEF Load, Receive, Submit, Finish, Exit, TakeCommand
  <2> QED
    BY <1>t, <1>r, <2>1 DEF ReasonInv
<1>2. ASSUME NEW c \in Calls,
             Begin(c) \/ Expire(c) \/ Enter(c) \/ NeverEnters(c) \/ TooLate(c)
             \/ Send(c) \/ Answered(c) \/ Stopped(c)
      PROVE  ReasonInv'
  <2>1. UNCHANGED <<record, boot, unknown, excused, host>>
    BY <1>2 DEF Begin, Expire, Enter, NeverEnters, TooLate, Send, Answered,
       Stopped
  <2> QED
    BY <1>t, <1>r, <2>1 DEF ReasonInv
<1>3. ASSUME NEW r \in Runtimes, TakeLock(r) PROVE ReasonInv'
  BY <1>t, <1>r, <1>3 DEF TakeLock, HostIs, Holders, ReasonInv
<1>4. ASSUME NEW r \in Runtimes, WriteRecord(r) PROVE ReasonInv'
  BY <1>t, <1>r, <1>4 DEF WriteRecord, HostIs, Closes, ReasonInv
<1>5. ASSUME NEW r \in Runtimes, StartFails(r) PROVE ReasonInv'
  BY <1>t, <1>r, <1>5 DEF StartFails, HostIs, Closes, ReasonInv
<1>6. ASSUME NEW r \in Runtimes, Spawn(r) PROVE ReasonInv'
  BY <1>t, <1>r, <1>6 DEF Spawn, HostIs, Becomes, ReasonInv
<1>7. ASSUME NEW r \in Runtimes, Started(r) PROVE ReasonInv'
  BY <1>t, <1>r, <1>7 DEF Started, HostIs, ReasonInv
<1>8. ASSUME NEW r \in Runtimes, StartGivesUp(r) PROVE ReasonInv'
  <2> SUFFICES ASSUME NEW f \in Files PROVE Reason(f)'
    BY DEF ReasonInv
  <2>1. CASE f = File(r)
    BY <1>t, <1>r, <2>1, <1>8 DEF StartGivesUp, MarkUnusable, Closes
  <2>2. CASE f # File(r)
    <3>1. record'[f] = record[f] /\ excused \subseteq excused' /\ boot' = boot
          /\ (unknown => unknown')
      BY <1>t, <2>2, <1>8 DEF StartGivesUp, MarkUnusable, Closes
    <3>2. \A q \in Runtimes : File(q) = f => host'[q] = host[q]
      BY <1>t, <2>2, <1>8 DEF StartGivesUp, MarkUnusable, Closes
    <3> QED
      <4>1. CASE unknown
        BY <4>1, <3>1
      <4>2. CASE f \in excused
        BY <4>2, <3>1
      <4>3. CASE \E q \in Runtimes : File(q) = f /\ host[q] \in Armed
        BY <4>3, <3>2
      <4>4. CASE record[f] # boot
        BY <4>4, <3>1
      <4> QED
        BY <1>r, <4>1, <4>2, <4>3, <4>4
  <2> QED
    BY <2>1, <2>2
<1>9. ASSUME NEW c \in Calls, SendFails(c) PROVE ReasonInv'
  <2> SUFFICES ASSUME NEW f \in Files PROVE Reason(f)'
    BY DEF ReasonInv
  <2>1. CASE f = File(Target[c])
    BY <1>t, <1>r, <2>1, <1>9 DEF SendFails, MarkUnusable, Closes, Returns,
       Ends
  <2>2. CASE f # File(Target[c])
    <3>1. record'[f] = record[f] /\ excused \subseteq excused' /\ boot' = boot
          /\ (unknown => unknown')
      BY <1>t, <2>2, <1>9 DEF SendFails, MarkUnusable, Closes, Returns, Ends
    <3>2. \A q \in Runtimes : File(q) = f => host'[q] = host[q]
      BY <1>t, <2>2, <1>9 DEF SendFails, MarkUnusable, Closes, Returns, Ends
    <3> QED
      <4>1. CASE unknown
        BY <4>1, <3>1
      <4>2. CASE f \in excused
        BY <4>2, <3>1
      <4>3. CASE \E q \in Runtimes : File(q) = f /\ host[q] \in Armed
        BY <4>3, <3>2
      <4>4. CASE record[f] # boot
        BY <4>4, <3>1
      <4> QED
        BY <1>r, <4>1, <4>2, <4>3, <4>4
  <2> QED
    BY <2>1, <2>2
<1>10. ASSUME NEW c \in Calls, FailedBefore(c) PROVE ReasonInv'
  <2> SUFFICES ASSUME NEW f \in Files PROVE Reason(f)'
    BY DEF ReasonInv
  <2>1. CASE f = File(Target[c])
    BY <1>t, <1>r, <2>1, <1>10 DEF FailedBefore, MarkUnusable, Closes,
       Returns, Ends
  <2>2. CASE f # File(Target[c])
    <3>1. record'[f] = record[f] /\ excused \subseteq excused' /\ boot' = boot
          /\ (unknown => unknown')
      BY <1>t, <2>2, <1>10 DEF FailedBefore, MarkUnusable, Closes, Returns,
         Ends
    <3>2. \A q \in Runtimes : File(q) = f => host'[q] = host[q]
      BY <1>t, <2>2, <1>10 DEF FailedBefore, MarkUnusable, Closes, Returns,
         Ends
    <3> QED
      <4>1. CASE unknown
        BY <4>1, <3>1
      <4>2. CASE f \in excused
        BY <4>2, <3>1
      <4>3. CASE \E q \in Runtimes : File(q) = f /\ host[q] \in Armed
        BY <4>3, <3>2
      <4>4. CASE record[f] # boot
        BY <4>4, <3>1
      <4> QED
        BY <1>r, <4>1, <4>2, <4>3, <4>4
  <2> QED
    BY <2>1, <2>2
<1>11. ASSUME NEW c \in Calls, NeverAnswered(c) PROVE ReasonInv'
  BY <1>t, <1>r, <1>11 DEF NeverAnswered, MarkUnusable, Closes, Returns, Ends,
     ReasonInv
<1>12. ASSUME NEW c \in Calls, ExitSeen(c) PROVE ReasonInv'
  BY <1>t, <1>r, <1>12 DEF ExitSeen, Closes, Returns, Ends, ReasonInv
<1>13. ASSUME NEW c \in Calls, ExitTooLate(c) PROVE ReasonInv'
  BY <1>t, <1>r, <1>13 DEF ExitTooLate, MarkUnusable, Closes, Returns, Ends,
     ReasonInv
<1>14. ASSUME NEW r \in Runtimes, Destroy(r) PROVE ReasonInv'
  BY <1>t, <1>r, <1>14 DEF Destroy, Closes, Open, ReasonInv
<1>15. ASSUME NEW r \in Runtimes, HostDies(r) PROVE ReasonInv'
  BY <1>t, <1>r, <1>15 DEF HostDies, Closes, Open, ReasonInv
<1>16. ASSUME NEW r \in Runtimes, CheckDeadline(r) PROVE ReasonInv'
  <2>1. unknown => unknown'
    BY <1>16 DEF CheckDeadline
  <2>2. UNCHANGED <<record, boot, host, excused>>
    BY <1>16 DEF CheckDeadline
  <2> QED
    BY <1>r, <2>1, <2>2 DEF ReasonInv
<1>17. ASSUME NEW r \in Runtimes, ExecReturns(r) PROVE ReasonInv'
  BY <1>t, <1>r, <1>17 DEF ExecReturns, Becomes, Sends, ReasonInv
<1>18. ASSUME NEW r \in Runtimes, Crash(r) PROVE ReasonInv'
  BY <1>t, <1>r, <1>18 DEF Crash, Becomes, Closes, Dispatched, ReasonInv
<1>19. ASSUME Reboot PROVE ReasonInv'
  BY <1>t, <1>r, <1>19 DEF Reboot, Open, ReasonInv
<1> QED
  BY <1>1, <1>2, <1>3, <1>4, <1>5, <1>6, <1>7, <1>8, <1>9, <1>10, <1>11,
     <1>12, <1>13, <1>14, <1>15, <1>16, <1>17, <1>18, <1>19 DEF Next, Loading,
     Calling, Working

\* What is in staging.
LEMMA OwnStep ==
  ASSUME TypeInv, LockInv, CallInv, SocketInv, OwnInv, Next
  PROVE  OwnInv'
<1> USE AneAssumption DEF Own, Socket, Wired, Sent, Serving, Alive, vars,
       diskVars, hostVars, workerVars, socketVars, historyVars
<1>t. /\ host \in [Runtimes -> {"new", "locked", "owned", "starting", "usable",
                                "unusable", "gone"}]
      /\ worker \in [Runtimes -> {"none", "loading", "idle", "packing", "submitting",
                                  "executing", "leaving"}]
      /\ control \in [Runtimes -> BOOLEAN] /\ command \in [Runtimes -> Calls \cup {None}]
      /\ tx \in [Runtimes -> Calls \cup {None}]
      /\ call \in [Calls -> {"new", "waiting", "filled", "sent", "exiting", "ok",
                             "failed"}]
      /\ reply \in [Runtimes -> {"none", "ready", "failed", "uncertain", "executed",
                                 "stopped"}]
      /\ staging \in [Runtimes -> Calls \cup {None}] /\ dense \in [Runtimes -> Calls \cup {None}]
      /\ answer \in [Calls -> Calls \cup {None}]
  BY DEF TypeInv, TypeOK
<1>c. /\ \A c \in Calls : call[c] \in {"filled", "sent", "exiting"} =>
              tx[Target[c]] = c /\ host[Target[c]] = "usable"
      /\ \A c \in Calls : call[c] = "exiting" => Op[c] = "shutdown"
      /\ \A r \in Runtimes : tx[r] # None => Target[tx[r]] = r
  BY DEF CallInv, Inside
<1>l. \A r \in Runtimes : Wired(r) /\ Socket(r)
  BY DEF LockInv, SocketInv
<1>o. /\ \A c \in Calls : Own(c)
      /\ \A r \in Runtimes : host[r] = "usable" /\ worker[r] \in Serving => dense[r] = tx[r]
  BY DEF OwnInv
<1>1. ASSUME NEW r \in Runtimes, TakeLock(r) PROVE OwnInv'
  BY <1>t, <1>c, <1>l, <1>o, <1>1 DEF TakeLock, HostIs, Holders, OwnInv
<1>2. ASSUME NEW r \in Runtimes, WriteRecord(r) PROVE OwnInv'
  BY <1>t, <1>c, <1>l, <1>o, <1>2 DEF WriteRecord, HostIs, Closes, OwnInv
<1>3. ASSUME NEW r \in Runtimes, StartFails(r) PROVE OwnInv'
  BY <1>t, <1>c, <1>l, <1>o, <1>3 DEF StartFails, HostIs, Closes, OwnInv
<1>4. ASSUME NEW r \in Runtimes, Spawn(r) PROVE OwnInv'
  BY <1>t, <1>c, <1>l, <1>o, <1>4 DEF Spawn, HostIs, Becomes, OwnInv
<1>5. ASSUME NEW r \in Runtimes, Started(r) PROVE OwnInv'
  BY <1>t, <1>c, <1>l, <1>o, <1>5 DEF Started, HostIs, OwnInv
<1>6. ASSUME NEW r \in Runtimes, StartGivesUp(r) PROVE OwnInv'
  BY <1>t, <1>c, <1>l, <1>o, <1>6 DEF StartGivesUp, MarkUnusable, Closes,
     OwnInv
<1>7. ASSUME NEW c \in Calls, Begin(c) PROVE OwnInv'
  BY <1>t, <1>c, <1>l, <1>o, <1>7 DEF Begin, Ends, OwnInv
<1>8. ASSUME NEW c \in Calls, Expire(c) PROVE OwnInv'
  BY <1>t, <1>c, <1>l, <1>o, <1>8 DEF Expire, Open, OwnInv
<1>9. ASSUME NEW c \in Calls, Enter(c) PROVE OwnInv'
  BY <1>t, <1>c, <1>l, <1>o, <1>9 DEF Enter, Ends, OwnInv
<1>10. ASSUME NEW c \in Calls, NeverEnters(c) PROVE OwnInv'
  BY <1>t, <1>c, <1>l, <1>o, <1>10 DEF NeverEnters, Ends, OwnInv
<1>11. ASSUME NEW c \in Calls, TooLate(c) PROVE OwnInv'
  BY <1>t, <1>c, <1>l, <1>o, <1>11 DEF TooLate, Returns, Ends, OwnInv
<1>12. ASSUME NEW c \in Calls, Send(c) PROVE OwnInv'
  BY <1>t, <1>c, <1>l, <1>o, <1>12 DEF Send, Ends, OwnInv
<1>13. ASSUME NEW c \in Calls, SendFails(c) PROVE OwnInv'
  BY <1>t, <1>c, <1>l, <1>o, <1>13 DEF SendFails, MarkUnusable, Closes,
     Returns, Ends, OwnInv
<1>14. ASSUME NEW c \in Calls, Answered(c) PROVE OwnInv'
  BY <1>t, <1>c, <1>l, <1>o, <1>14 DEF Answered, Returns, Ends, OwnInv
<1>15. ASSUME NEW c \in Calls, FailedBefore(c) PROVE OwnInv'
  BY <1>t, <1>c, <1>l, <1>o, <1>15 DEF FailedBefore, MarkUnusable, Closes,
     Returns, Ends, OwnInv
<1>16. ASSUME NEW c \in Calls, NeverAnswered(c) PROVE OwnInv'
  BY <1>t, <1>c, <1>l, <1>o, <1>16 DEF NeverAnswered, MarkUnusable, Closes,
     Returns, Ends, OwnInv
<1>17. ASSUME NEW c \in Calls, Stopped(c) PROVE OwnInv'
  BY <1>t, <1>c, <1>l, <1>o, <1>17 DEF Stopped, Ends, OwnInv
<1>18. ASSUME NEW c \in Calls, ExitSeen(c) PROVE OwnInv'
  BY <1>t, <1>c, <1>l, <1>o, <1>18 DEF ExitSeen, Closes, Returns, Ends, OwnInv
<1>19. ASSUME NEW c \in Calls, ExitTooLate(c) PROVE OwnInv'
  BY <1>t, <1>c, <1>l, <1>o, <1>19 DEF ExitTooLate, MarkUnusable, Closes,
     Returns, Ends, OwnInv
<1>20. ASSUME NEW r \in Runtimes, Destroy(r) PROVE OwnInv'
  BY <1>t, <1>c, <1>l, <1>o, <1>20 DEF Destroy, Closes, Open, OwnInv
<1>21. ASSUME NEW r \in Runtimes, HostDies(r) PROVE OwnInv'
  BY <1>t, <1>c, <1>l, <1>o, <1>21 DEF HostDies, Closes, Open, OwnInv
<1>22. ASSUME NEW r \in Runtimes, Load(r) PROVE OwnInv'
  BY <1>t, <1>c, <1>l, <1>o, <1>22 DEF Load, Becomes, Sends, OwnInv
<1>23. ASSUME NEW r \in Runtimes, Receive(r) PROVE OwnInv'
  BY <1>t, <1>c, <1>l, <1>o, <1>23 DEF Receive, TakeCommand, Becomes, Sends,
     OwnInv
<1>24. ASSUME NEW r \in Runtimes, CheckDeadline(r) PROVE OwnInv'
  BY <1>t, <1>c, <1>l, <1>o, <1>24 DEF CheckDeadline, Becomes, Sends,
     Dispatched, OwnInv
<1>25. ASSUME NEW r \in Runtimes, Submit(r) PROVE OwnInv'
  BY <1>t, <1>c, <1>l, <1>o, <1>25 DEF Submit, Becomes, OwnInv
<1>26. ASSUME NEW r \in Runtimes, ExecReturns(r) PROVE OwnInv'
  BY <1>t, <1>c, <1>l, <1>o, <1>26 DEF ExecReturns, Becomes, Sends, OwnInv
<1>27. ASSUME NEW r \in Runtimes, Finish(r) PROVE OwnInv'
  BY <1>t, <1>c, <1>l, <1>o, <1>27 DEF Finish, Becomes, Sends, OwnInv
<1>28. ASSUME NEW r \in Runtimes, Exit(r) PROVE OwnInv'
  BY <1>t, <1>c, <1>l, <1>o, <1>28 DEF Exit, Becomes, Closes, OwnInv
<1>29. ASSUME NEW r \in Runtimes, Crash(r) PROVE OwnInv'
  BY <1>t, <1>c, <1>l, <1>o, <1>29 DEF Crash, Becomes, Closes, Dispatched,
     OwnInv
<1>30. ASSUME Reboot PROVE OwnInv'
  BY <1>t, <1>c, <1>l, <1>o, <1>30 DEF Reboot, Open, OwnInv
<1> QED
  BY <1>1, <1>2, <1>3, <1>4, <1>5, <1>6, <1>7, <1>8, <1>9, <1>10, <1>11,
     <1>12, <1>13, <1>14, <1>15, <1>16, <1>17, <1>18, <1>19, <1>20, <1>21,
     <1>22, <1>23, <1>24, <1>25, <1>26, <1>27, <1>28, <1>29, <1>30 DEF Next,
     Loading, Calling, Working

\* What is unknown stays so until the reboot.
LEMMA UnknownStep ==
  ASSUME SoleFile, TypeInv, LockInv, CallInv, SocketInv, RecordInv,
         UnknownInv, Next
  PROVE  UnknownInv'
<1> USE AneAssumption DEF Doubted, Sole, Holds, Wired, Socket, Recorded, Sent,
       Serving, Armed, File, Alive, Dispatched, vars, diskVars, hostVars,
       workerVars, socketVars, historyVars
<1>t. /\ fds \in [Runtimes -> SUBSET {"host", "worker"}]
      /\ host \in [Runtimes -> {"new", "locked", "owned", "starting", "usable",
                                "unusable", "gone"}]
      /\ worker \in [Runtimes -> {"none", "loading", "idle", "packing", "submitting",
                                  "executing", "leaving"}]
      /\ command \in [Runtimes -> Calls \cup {None}] /\ tx \in [Runtimes -> Calls \cup {None}]
      /\ call \in [Calls -> {"new", "waiting", "filled", "sent", "exiting", "ok",
                             "failed"}]
      /\ boot \in Nat /\ record \in [Files -> Nat] /\ excused \in SUBSET Files
      /\ unknown \in BOOLEAN
      /\ reply \in [Runtimes -> {"none", "ready", "failed", "uncertain", "executed",
                                 "stopped"}]
      /\ control \in [Runtimes -> BOOLEAN]
  BY DEF TypeInv, TypeOK
<1>c. /\ \A c \in Calls : call[c] \in {"filled", "sent", "exiting"} =>
              tx[Target[c]] = c /\ host[Target[c]] = "usable"
      /\ \A c \in Calls : call[c] = "exiting" => Op[c] = "shutdown"
      /\ \A r \in Runtimes : tx[r] # None => Target[tx[r]] = r
  BY DEF CallInv, Inside
<1>l. Sole /\ \A r \in Runtimes : Holds(r) /\ Wired(r) /\ Socket(r) /\ Recorded(r)
  BY DEF LockInv, SocketInv, RecordInv
<1>u. unknown => \A r \in Runtimes : Doubted(r)
  BY DEF UnknownInv
<1>s. \A r, q \in Runtimes : FileOf[r] = FileOf[q]
  BY DEF SoleFile
<1>1. ASSUME NEW r \in Runtimes, TakeLock(r) PROVE UnknownInv'
  BY <1>t, <1>c, <1>l, <1>u, <1>s, <1>1 DEF TakeLock, HostIs, Holders,
     UnknownInv
<1>2. ASSUME NEW r \in Runtimes, WriteRecord(r) PROVE UnknownInv'
  BY <1>t, <1>c, <1>l, <1>u, <1>s, <1>2 DEF WriteRecord, HostIs, Closes,
     UnknownInv
<1>3. ASSUME NEW r \in Runtimes, StartFails(r) PROVE UnknownInv'
  BY <1>t, <1>c, <1>l, <1>u, <1>s, <1>3 DEF StartFails, HostIs, Closes,
     UnknownInv
<1>4. ASSUME NEW r \in Runtimes, Spawn(r) PROVE UnknownInv'
  BY <1>t, <1>c, <1>l, <1>u, <1>s, <1>4 DEF Spawn, HostIs, Becomes, UnknownInv
<1>5. ASSUME NEW r \in Runtimes, Started(r) PROVE UnknownInv'
  BY <1>t, <1>c, <1>l, <1>u, <1>s, <1>5 DEF Started, HostIs, UnknownInv
<1>6. ASSUME NEW r \in Runtimes, StartGivesUp(r) PROVE UnknownInv'
  BY <1>t, <1>c, <1>l, <1>u, <1>s, <1>6 DEF StartGivesUp, MarkUnusable,
     Closes, UnknownInv
<1>7. ASSUME NEW c \in Calls, Begin(c) PROVE UnknownInv'
  BY <1>t, <1>c, <1>l, <1>u, <1>s, <1>7 DEF Begin, Ends, UnknownInv
<1>8. ASSUME NEW c \in Calls, Expire(c) PROVE UnknownInv'
  BY <1>t, <1>c, <1>l, <1>u, <1>s, <1>8 DEF Expire, Open, UnknownInv
<1>9. ASSUME NEW c \in Calls, Enter(c) PROVE UnknownInv'
  BY <1>t, <1>c, <1>l, <1>u, <1>s, <1>9 DEF Enter, Ends, UnknownInv
<1>10. ASSUME NEW c \in Calls, NeverEnters(c) PROVE UnknownInv'
  BY <1>t, <1>c, <1>l, <1>u, <1>s, <1>10 DEF NeverEnters, Ends, UnknownInv
<1>11. ASSUME NEW c \in Calls, TooLate(c) PROVE UnknownInv'
  BY <1>t, <1>c, <1>l, <1>u, <1>s, <1>11 DEF TooLate, Returns, Ends,
     UnknownInv
<1>12. ASSUME NEW c \in Calls, Send(c) PROVE UnknownInv'
  BY <1>t, <1>c, <1>l, <1>u, <1>s, <1>12 DEF Send, Ends, UnknownInv
<1>13. ASSUME NEW c \in Calls, SendFails(c) PROVE UnknownInv'
  BY <1>t, <1>c, <1>l, <1>u, <1>s, <1>13 DEF SendFails, MarkUnusable, Closes,
     Returns, Ends, UnknownInv
<1>14. ASSUME NEW c \in Calls, Answered(c) PROVE UnknownInv'
  BY <1>t, <1>c, <1>l, <1>u, <1>s, <1>14 DEF Answered, Returns, Ends,
     UnknownInv
<1>15. ASSUME NEW c \in Calls, FailedBefore(c) PROVE UnknownInv'
  BY <1>t, <1>c, <1>l, <1>u, <1>s, <1>15 DEF FailedBefore, MarkUnusable,
     Closes, Returns, Ends, UnknownInv
<1>16. ASSUME NEW c \in Calls, NeverAnswered(c) PROVE UnknownInv'
  BY <1>t, <1>c, <1>l, <1>u, <1>s, <1>16 DEF NeverAnswered, MarkUnusable,
     Closes, Returns, Ends, UnknownInv
<1>17. ASSUME NEW c \in Calls, Stopped(c) PROVE UnknownInv'
  BY <1>t, <1>c, <1>l, <1>u, <1>s, <1>17 DEF Stopped, Ends, UnknownInv
<1>18. ASSUME NEW c \in Calls, ExitSeen(c) PROVE UnknownInv'
  BY <1>t, <1>c, <1>l, <1>u, <1>s, <1>18 DEF ExitSeen, Closes, Returns, Ends,
     UnknownInv
<1>19. ASSUME NEW c \in Calls, ExitTooLate(c) PROVE UnknownInv'
  BY <1>t, <1>c, <1>l, <1>u, <1>s, <1>19 DEF ExitTooLate, MarkUnusable,
     Closes, Returns, Ends, UnknownInv
<1>20. ASSUME NEW r \in Runtimes, Destroy(r) PROVE UnknownInv'
  BY <1>t, <1>c, <1>l, <1>u, <1>s, <1>20 DEF Destroy, Closes, Open, UnknownInv
<1>21. ASSUME NEW r \in Runtimes, HostDies(r) PROVE UnknownInv'
  BY <1>t, <1>c, <1>l, <1>u, <1>s, <1>21 DEF HostDies, Closes, Open,
     UnknownInv
<1>22. ASSUME NEW r \in Runtimes, Load(r) PROVE UnknownInv'
  BY <1>t, <1>c, <1>l, <1>u, <1>s, <1>22 DEF Load, Becomes, Sends, UnknownInv
<1>23. ASSUME NEW r \in Runtimes, Receive(r) PROVE UnknownInv'
  <2> SUFFICES ASSUME unknown', NEW q \in Runtimes PROVE Doubted(q)'
    BY DEF UnknownInv
  <2>1. UNCHANGED <<record, boot, host, unknown, tx, call>> /\ worker[r] = "idle"
    BY <1>23 DEF Receive, TakeCommand, Becomes, Sends
  <2>2. Doubted(q) /\ Doubted(r)
    BY <1>u, <2>1
  <2>3. q # r => worker'[q] = worker[q] /\ command'[q] = command[q] /\ reply'[q] = reply[q]
    <3>1. CASE command[r] = None
      BY <1>t, <3>1, <1>23 DEF Receive, TakeCommand, Becomes, Sends
    <3>2. CASE command[r] # None
      BY <1>t, <3>2, <1>23, ZenonT(40) DEF Receive, TakeCommand, Becomes,
         Sends
    <3> QED
      BY <3>1, <3>2
  <2>4. host[r] # "usable"
    BY <2>1, <2>2
  <2> QED
    BY <2>1, <2>2, <2>3, <2>4
<1>24. ASSUME NEW r \in Runtimes, CheckDeadline(r) PROVE UnknownInv'
  <2> SUFFICES ASSUME unknown', NEW q \in Runtimes PROVE Doubted(q)'
    BY DEF UnknownInv
  <2>1. CASE q = r
    <3>1. CASE serving[r] \notin late
      BY <1>t, <1>c, <1>l, <1>u, <1>s, <3>1, <2>1, <1>24 DEF CheckDeadline,
         Becomes, Sends, Dispatched
    <3>2. CASE serving[r] \in late /\ Dispatched(r)
      BY <1>t, <1>c, <1>l, <1>u, <1>s, <3>2, <2>1, <1>24 DEF CheckDeadline,
         Becomes, Sends, Dispatched
    <3>3. CASE serving[r] \in late /\ ~Dispatched(r)
      BY <1>t, <1>c, <1>l, <1>u, <1>s, <3>3, <2>1, <1>24 DEF CheckDeadline,
         Becomes, Sends, Dispatched
    <3> QED
      BY <3>1, <3>2, <3>3
  <2>2. CASE q # r
    BY <1>t, <1>c, <1>l, <1>u, <1>s, <2>2, <1>24 DEF CheckDeadline, Becomes,
       Sends, Dispatched
  <2> QED
    BY <2>1, <2>2
<1>25. ASSUME NEW r \in Runtimes, Submit(r) PROVE UnknownInv'
  BY <1>t, <1>c, <1>l, <1>u, <1>s, <1>25 DEF Submit, Becomes, UnknownInv
<1>26. ASSUME NEW r \in Runtimes, ExecReturns(r) PROVE UnknownInv'
  <2> SUFFICES ASSUME unknown', NEW q \in Runtimes PROVE Doubted(q)'
    BY DEF UnknownInv
  <2>1. UNCHANGED <<record, boot, host, tx, call, command>> /\ worker[r] = "executing"
    BY <1>26 DEF ExecReturns
  <2>2. record[File(r)] = boot /\ host[r] \notin {"owned", "starting"}
    BY <1>t, <1>l, <2>1
  <2>3. CASE q = r
    <3>1. host[r] = "usable" => Sent(r) /\ Op[tx[r]] = "execute" /\ command[r] = None
      BY <1>t, <1>l, <2>1
    <3>2. unknown => host[r] # "usable"
      BY <1>u, <2>1
    <3>3. CASE unknown' = unknown /\ reply' = reply
      BY <2>1, <2>2, <2>3, <3>2, <3>3
    <3>4. CASE worker' = [worker EXCEPT ![r] = "leaving"]
               /\ reply' = [reply EXCEPT ![r] = IF control[r] THEN "uncertain" ELSE "none"]
      BY <1>t, <2>1, <2>2, <2>3, <3>1, <3>4
    <3> QED
      BY <3>3, <3>4, <1>26 DEF ExecReturns, Becomes, Sends
  <2>4. CASE q # r
    BY <1>t, <1>c, <1>l, <1>u, <1>s, <2>4, <1>26 DEF ExecReturns, Becomes,
       Sends
  <2> QED
    BY <2>3, <2>4
<1>27. ASSUME NEW r \in Runtimes, Finish(r) PROVE UnknownInv'
  BY <1>t, <1>c, <1>l, <1>u, <1>s, <1>27 DEF Finish, Becomes, Sends,
     UnknownInv
<1>28. ASSUME NEW r \in Runtimes, Exit(r) PROVE UnknownInv'
  BY <1>t, <1>c, <1>l, <1>u, <1>s, <1>28 DEF Exit, Becomes, Closes, UnknownInv
<1>29. ASSUME NEW r \in Runtimes, Crash(r) PROVE UnknownInv'
  BY <1>t, <1>c, <1>l, <1>u, <1>s, <1>29 DEF Crash, Becomes, Closes,
     Dispatched, UnknownInv
<1>30. ASSUME Reboot PROVE UnknownInv'
  BY <1>t, <1>c, <1>l, <1>u, <1>s, <1>30 DEF Reboot, Open, UnknownInv
<1> QED
  BY <1>1, <1>2, <1>3, <1>4, <1>5, <1>6, <1>7, <1>8, <1>9, <1>10, <1>11,
     <1>12, <1>13, <1>14, <1>15, <1>16, <1>17, <1>18, <1>19, <1>20, <1>21,
     <1>22, <1>23, <1>24, <1>25, <1>26, <1>27, <1>28, <1>29, <1>30 DEF Next,
     Loading, Calling, Working

\* A receipt stays honest: a runtime that was shut down spawns no worker.
LEMMA ReceiptStep ==
  ASSUME TypeInv, CallInv, ReceiptIsHonest, Next
  PROVE  ReceiptIsHonest'
<1> USE AneAssumption DEF ReceiptIsHonest, Alive, vars, diskVars, hostVars,
       workerVars, socketVars, historyVars
<1>t. /\ host \in [Runtimes -> {"new", "locked", "owned", "starting", "usable",
                                "unusable", "gone"}]
      /\ worker \in [Runtimes -> {"none", "loading", "idle", "packing", "submitting",
                                  "executing", "leaving"}]
      /\ tx \in [Runtimes -> Calls \cup {None}]
      /\ call \in [Calls -> {"new", "waiting", "filled", "sent", "exiting", "ok",
                             "failed"}]
  BY DEF TypeInv, TypeOK
<1>c. \A c \in Calls : call[c] # "new" => host[Target[c]] \in {"usable", "unusable", "gone"}
  BY DEF CallInv, Inside
<1>1. ASSUME NEW r \in Runtimes,
             TakeLock(r) \/ WriteRecord(r) \/ StartFails(r) \/ Started(r) \/
             StartGivesUp(r) \/ Destroy(r)
      PROVE  ReceiptIsHonest'
  <2>1. UNCHANGED <<call, worker>>
    BY <1>1 DEF TakeLock, WriteRecord, StartFails, Started, StartGivesUp,
       Destroy
  <2> QED
    BY <1>t, <1>c, <2>1
<1>2. ASSUME NEW r \in Runtimes, Spawn(r) PROVE ReceiptIsHonest'
  BY <1>t, <1>c, <1>2 DEF Spawn, HostIs, Becomes
<1>3. ASSUME NEW c \in Calls, Begin(c) PROVE ReceiptIsHonest'
  BY <1>t, <1>c, <1>3 DEF Begin, Ends
<1>4. ASSUME NEW c \in Calls, Expire(c) PROVE ReceiptIsHonest'
  BY <1>t, <1>c, <1>4 DEF Expire, Open
<1>5. ASSUME NEW c \in Calls, Enter(c) PROVE ReceiptIsHonest'
  BY <1>t, <1>c, <1>5 DEF Enter, Ends
<1>6. ASSUME NEW c \in Calls, NeverEnters(c) PROVE ReceiptIsHonest'
  BY <1>t, <1>c, <1>6 DEF NeverEnters, Ends
<1>7. ASSUME NEW c \in Calls, TooLate(c) PROVE ReceiptIsHonest'
  BY <1>t, <1>c, <1>7 DEF TooLate, Returns, Ends
<1>8. ASSUME NEW c \in Calls, Send(c) PROVE ReceiptIsHonest'
  BY <1>t, <1>c, <1>8 DEF Send, Ends
<1>9. ASSUME NEW c \in Calls, SendFails(c) PROVE ReceiptIsHonest'
  BY <1>t, <1>c, <1>9 DEF SendFails, MarkUnusable, Closes, Returns, Ends
<1>10. ASSUME NEW c \in Calls, Answered(c) PROVE ReceiptIsHonest'
  BY <1>t, <1>c, <1>10 DEF Answered, Returns, Ends
<1>11. ASSUME NEW c \in Calls, FailedBefore(c) PROVE ReceiptIsHonest'
  BY <1>t, <1>c, <1>11 DEF FailedBefore, MarkUnusable, Closes, Returns, Ends
<1>12. ASSUME NEW c \in Calls, NeverAnswered(c) PROVE ReceiptIsHonest'
  BY <1>t, <1>c, <1>12 DEF NeverAnswered, MarkUnusable, Closes, Returns, Ends
<1>13. ASSUME NEW c \in Calls, Stopped(c) PROVE ReceiptIsHonest'
  BY <1>t, <1>c, <1>13 DEF Stopped, Ends
<1>14. ASSUME NEW c \in Calls, ExitSeen(c) PROVE ReceiptIsHonest'
  BY <1>t, <1>c, <1>14 DEF ExitSeen, Closes, Returns, Ends
<1>15. ASSUME NEW c \in Calls, ExitTooLate(c) PROVE ReceiptIsHonest'
  BY <1>t, <1>c, <1>15 DEF ExitTooLate, MarkUnusable, Closes, Returns, Ends
<1>16. ASSUME NEW r \in Runtimes, HostDies(r) PROVE ReceiptIsHonest'
  BY <1>t, <1>c, <1>16 DEF HostDies, Closes, Open
<1>17. ASSUME NEW r \in Runtimes, Load(r) PROVE ReceiptIsHonest'
  BY <1>t, <1>c, <1>17 DEF Load, Becomes, Sends
<1>18. ASSUME NEW r \in Runtimes, Receive(r) PROVE ReceiptIsHonest'
  BY <1>t, <1>c, <1>18 DEF Receive, TakeCommand, Becomes, Sends
<1>19. ASSUME NEW r \in Runtimes, CheckDeadline(r) PROVE ReceiptIsHonest'
  BY <1>t, <1>c, <1>19 DEF CheckDeadline, Becomes, Sends, Dispatched
<1>20. ASSUME NEW r \in Runtimes, Submit(r) PROVE ReceiptIsHonest'
  BY <1>t, <1>c, <1>20 DEF Submit, Becomes
<1>21. ASSUME NEW r \in Runtimes, ExecReturns(r) PROVE ReceiptIsHonest'
  BY <1>t, <1>c, <1>21 DEF ExecReturns, Becomes, Sends
<1>22. ASSUME NEW r \in Runtimes, Finish(r) PROVE ReceiptIsHonest'
  BY <1>t, <1>c, <1>22 DEF Finish, Becomes, Sends
<1>23. ASSUME NEW r \in Runtimes, Exit(r) PROVE ReceiptIsHonest'
  BY <1>t, <1>c, <1>23 DEF Exit, Becomes, Closes
<1>24. ASSUME NEW r \in Runtimes, Crash(r) PROVE ReceiptIsHonest'
  BY <1>t, <1>c, <1>24 DEF Crash, Becomes, Closes, Dispatched
<1>25. ASSUME Reboot PROVE ReceiptIsHonest'
  BY <1>t, <1>c, <1>25 DEF Reboot, Open
<1> QED
  BY <1>1, <1>2, <1>3, <1>4, <1>5, <1>6, <1>7, <1>8, <1>9, <1>10, <1>11,
     <1>12, <1>13, <1>14, <1>15, <1>16, <1>17, <1>18, <1>19, <1>20, <1>21,
     <1>22, <1>23, <1>24, <1>25 DEF Next, Loading, Calling, Working

----------------------------------------------------------------------------
(* The refinement.                                                         *)

\* With one lock there is one owner, and only the owner runs a program.
LEMMA OneOwner ==
  ASSUME SoleFile, TypeInv, LockInv
  PROVE  /\ \A r, q \in Runtimes : (fds[r] # {} /\ fds[q] # {}) => r = q
         /\ \A r \in Owners : Owners = {r}
         /\ Running \subseteq Owners
<1>1. \A r, q \in Runtimes : (fds[r] # {} /\ fds[q] # {}) => r = q
  BY DEF SoleFile, LockInv, Sole
<1>2. \A r \in Owners : Owners = {r}
  BY <1>1 DEF Owners
<1>3. Running \subseteq Owners
  BY DEF Running, Owners, LockInv, Holds, Wired, Alive
<1> QED
  BY <1>1, <1>2, <1>3

\* What an owner does to the device when it, or half of it, goes: it leaves, or
\* stays, and a completion becomes unknown, or not.
LEMMA Leaving ==
  ASSUME NEW r \in Runtimes, Owners = {r}, Owners' \in {{r}, {}},
         Running' \in {Running, {}}, Owners' = {} => Running' = {},
         Running' # Running => unknown', unknown => unknown',
         unknown \in BOOLEAN, unknown' \in BOOLEAN
  PROVE  [Device!Next]_<<Owners, Running, unknown>>
<1>1. CASE unknown' = TRUE
  BY <1>1 DEF Device!Next, Device!Lose
<1>2. CASE unknown' = FALSE
  BY <1>2 DEF Device!Next, Device!Leave
<1> QED
  BY <1>1, <1>2

\* Every step of the runtime is a step of the device, or none.
LEMMA StepImplements ==
  ASSUME SoleFile, TypeInv, TypeInv', LockInv, CallInv, SocketInv, RecordInv,
         UnknownInv, Next
  PROVE  [Device!Next]_<<Owners, Running, unknown>>
<1> USE AneAssumption DEF File, Alive, vars, diskVars, hostVars, workerVars,
        socketVars, historyVars
<1>t. /\ fds \in [Runtimes -> SUBSET {"host", "worker"}]
      /\ host \in [Runtimes -> {"new", "locked", "owned", "starting", "usable",
                                "unusable", "gone"}]
      /\ worker \in [Runtimes -> {"none", "loading", "idle", "packing", "submitting",
                                  "executing", "leaving"}]
      /\ command \in [Runtimes -> Calls \cup {None}] /\ tx \in [Runtimes -> Calls \cup {None}]
      /\ call \in [Calls -> {"new", "waiting", "filled", "sent", "exiting", "ok",
                             "failed"}]
      /\ boot \in Nat /\ record \in [Files -> Nat] /\ excused \in SUBSET Files
      /\ unknown \in BOOLEAN
      /\ reply \in [Runtimes -> {"none", "ready", "failed", "uncertain", "executed",
                                 "stopped"}]
      /\ control \in [Runtimes -> BOOLEAN]
  BY DEF TypeInv, TypeOK
<1>o. /\ \A q, s \in Runtimes : (fds[q] # {} /\ fds[s] # {}) => q = s
      /\ \A q \in Owners : Owners = {q}
      /\ Running \subseteq Owners
  BY OneOwner
<1>l. \A r \in Runtimes : Holds(r) /\ Wired(r)
  BY DEF LockInv
<1>c. \A c \in Calls : call[c] \in {"filled", "sent", "exiting"} =>
        host[Target[c]] = "usable"
  BY DEF CallInv, Inside
<1>1. ASSUME NEW r \in Runtimes, TakeLock(r) PROVE [Device!Next]_<<Owners, Running, unknown>>
  <2>1. Owners' = Owners
    BY <1>t, <1>l, <1>1 DEF TakeLock, HostIs, Holders, Owners, Holds, Wired, Armed
  <2>2. Running' = Running
    BY <1>t, <1>1 DEF TakeLock, HostIs, Holders, Running
  <2>3. unknown' = unknown
    BY <1>1 DEF TakeLock, HostIs, Holders
  <2> QED
    BY <2>1, <2>2, <2>3
<1>2. ASSUME NEW r \in Runtimes, WriteRecord(r) PROVE [Device!Next]_<<Owners, Running, unknown>>
  <2>1. Owners = {} /\ Running = {}
    BY <1>t, <1>l, <1>o, <1>2 DEF WriteRecord, HostIs, Closes, Owners,
       Running, Holds, Armed
  <2>2. Running' = Running /\ unknown' = unknown
    BY <1>2 DEF WriteRecord, Running
  <2>3. CASE record[File(r)] = boot
    <3>1. \A q \in Runtimes : fds'[q] = {} \/ host'[q] = "locked"
      <4>1. fds[r] # {} /\ "worker" \notin fds[r]
        BY <1>l, <1>2 DEF WriteRecord, HostIs, Closes, Holds, Wired
      <4>2. fds'[r] = {}
        BY <1>t, <2>3, <4>1, <1>2 DEF WriteRecord, HostIs, Closes
      <4> QED
        BY <1>t, <1>o, <2>3, <4>1, <4>2, <1>2 DEF WriteRecord, HostIs, Closes
    <3>2. Owners' = {}
      BY <3>1 DEF Owners
    <3> QED
      BY <2>1, <2>2, <3>2
  <2>4. CASE record[File(r)] # boot
    <3>1. Owners' = {r}
      BY <1>t, <1>l, <1>o, <2>4, <1>2 DEF WriteRecord, HostIs, Closes, Owners,
         Holds, Armed
    <3>2. ~unknown
      BY <2>4 DEF UnknownInv, Doubted
    <3> QED
      BY <2>1, <2>2, <3>1, <3>2 DEF Device!Next, Device!Own
  <2> QED
    BY <2>3, <2>4
<1>3. ASSUME NEW r \in Runtimes, StartFails(r) PROVE [Device!Next]_<<Owners, Running, unknown>>
  <2>1. Owners = {r} /\ Owners' \in {{r}, {}}
    BY <1>t, <1>l, <1>o, <1>c, <1>3 DEF StartFails, HostIs, Closes, Owners,
       Holds, Wired, Armed
  <2>2. Running' = Running
    BY <1>t, <1>o, <2>1, <1>3 DEF StartFails, HostIs, Closes, Running
  <2>3. /\ Running' # Running => unknown'
        /\ unknown => unknown'
    BY <1>t, <2>2, <1>3 DEF StartFails, HostIs, Closes, Running
  <2>4. Owners' = {} => Running' = {}
    BY <1>t, <1>l, <1>o, <2>1, <2>2, <1>3 DEF StartFails, HostIs, Closes,
       Owners, Running, Holds
  <2>5. unknown' \in BOOLEAN
    BY DEF TypeInv, TypeOK
  <2> QED
    BY <1>t, <2>1, <2>2, <2>3, <2>4, <2>5, Leaving
<1>4. ASSUME NEW r \in Runtimes, Spawn(r) PROVE [Device!Next]_<<Owners, Running, unknown>>
  <2>1. Owners' = Owners
    BY <1>t, <1>l, <1>4 DEF Spawn, HostIs, Becomes, Owners, Holds, Wired, Armed
  <2>2. Running' = Running
    BY <1>t, <1>l, <1>4 DEF Spawn, HostIs, Becomes, Running, Wired
  <2>3. unknown' = unknown
    BY <1>4 DEF Spawn, HostIs, Becomes
  <2> QED
    BY <2>1, <2>2, <2>3
<1>5. ASSUME NEW r \in Runtimes, Started(r) PROVE [Device!Next]_<<Owners, Running, unknown>>
  <2>1. Owners' = Owners
    BY <1>t, <1>l, <1>5 DEF Started, HostIs, Owners
  <2>2. Running' = Running
    BY <1>t, <1>5 DEF Started, HostIs, Running
  <2>3. unknown' = unknown
    BY <1>5 DEF Started, HostIs
  <2> QED
    BY <2>1, <2>2, <2>3
<1>6. ASSUME NEW r \in Runtimes, StartGivesUp(r) PROVE [Device!Next]_<<Owners, Running, unknown>>
  <2>1. Owners = {r} /\ Owners' \in {{r}, {}}
    BY <1>t, <1>l, <1>o, <1>c, <1>6 DEF StartGivesUp, MarkUnusable, Closes,
       Owners, Holds, Wired, Armed
  <2>2. Running' = Running
    BY <1>t, <1>o, <2>1, <1>6 DEF StartGivesUp, MarkUnusable, Closes, Running
  <2>3. /\ Running' # Running => unknown'
        /\ unknown => unknown'
    BY <1>t, <2>2, <1>6 DEF StartGivesUp, MarkUnusable, Closes, Running
  <2>4. Owners' = {} => Running' = {}
    BY <1>t, <1>l, <1>o, <2>1, <2>2, <1>6 DEF StartGivesUp, MarkUnusable,
       Closes, Owners, Running, Holds
  <2>5. unknown' \in BOOLEAN
    BY DEF TypeInv, TypeOK
  <2> QED
    BY <1>t, <2>1, <2>2, <2>3, <2>4, <2>5, Leaving
<1>7. ASSUME NEW c \in Calls, Begin(c) PROVE [Device!Next]_<<Owners, Running, unknown>>
  <2>1. Owners' = Owners
    BY <1>t, <1>l, <1>7 DEF Begin, Ends, Owners
  <2>2. Running' = Running
    BY <1>t, <1>7 DEF Begin, Ends, Running
  <2>3. unknown' = unknown
    BY <1>7 DEF Begin, Ends
  <2> QED
    BY <2>1, <2>2, <2>3
<1>8. ASSUME NEW c \in Calls, Expire(c) PROVE [Device!Next]_<<Owners, Running, unknown>>
  <2>1. Owners' = Owners
    BY <1>t, <1>l, <1>8 DEF Expire, Open, Owners
  <2>2. Running' = Running
    BY <1>t, <1>8 DEF Expire, Open, Running
  <2>3. unknown' = unknown
    BY <1>8 DEF Expire, Open
  <2> QED
    BY <2>1, <2>2, <2>3
<1>9. ASSUME NEW c \in Calls, Enter(c) PROVE [Device!Next]_<<Owners, Running, unknown>>
  <2>1. Owners' = Owners
    BY <1>t, <1>l, <1>9 DEF Enter, Ends, Owners
  <2>2. Running' = Running
    BY <1>t, <1>9 DEF Enter, Ends, Running
  <2>3. unknown' = unknown
    BY <1>9 DEF Enter, Ends
  <2> QED
    BY <2>1, <2>2, <2>3
<1>10. ASSUME NEW c \in Calls, NeverEnters(c) PROVE [Device!Next]_<<Owners, Running, unknown>>
  <2>1. Owners' = Owners
    BY <1>t, <1>l, <1>10 DEF NeverEnters, Ends, Owners
  <2>2. Running' = Running
    BY <1>t, <1>10 DEF NeverEnters, Ends, Running
  <2>3. unknown' = unknown
    BY <1>10 DEF NeverEnters, Ends
  <2> QED
    BY <2>1, <2>2, <2>3
<1>11. ASSUME NEW c \in Calls, TooLate(c) PROVE [Device!Next]_<<Owners, Running, unknown>>
  <2>1. Owners' = Owners
    BY <1>t, <1>l, <1>11 DEF TooLate, Returns, Ends, Owners
  <2>2. Running' = Running
    BY <1>t, <1>11 DEF TooLate, Returns, Ends, Running
  <2>3. unknown' = unknown
    BY <1>11 DEF TooLate, Returns, Ends
  <2> QED
    BY <2>1, <2>2, <2>3
<1>12. ASSUME NEW c \in Calls, Send(c) PROVE [Device!Next]_<<Owners, Running, unknown>>
  <2>1. Owners' = Owners
    BY <1>t, <1>l, <1>12 DEF Send, Ends, Owners
  <2>2. Running' = Running
    BY <1>t, <1>12 DEF Send, Ends, Running
  <2>3. unknown' = unknown
    BY <1>12 DEF Send, Ends
  <2> QED
    BY <2>1, <2>2, <2>3
<1>13. ASSUME NEW c \in Calls, SendFails(c) PROVE [Device!Next]_<<Owners, Running, unknown>>
  <2>t. Target[c] \in Runtimes
    OBVIOUS
  <2>1. Owners = {Target[c]} /\ Owners' \in {{Target[c]}, {}}
    BY <2>t, <1>t, <1>l, <1>o, <1>c, <1>13 DEF SendFails, MarkUnusable,
       Closes, Returns, Ends, Owners, Holds, Wired, Armed
  <2>2. Running' = Running
    BY <2>t, <1>t, <1>o, <2>1, <1>13 DEF SendFails, MarkUnusable, Closes,
       Returns, Ends, Running
  <2>3. /\ Running' # Running => unknown'
        /\ unknown => unknown'
    BY <2>t, <1>t, <2>2, <1>13 DEF SendFails, MarkUnusable, Closes, Returns,
       Ends, Running
  <2>4. Owners' = {} => Running' = {}
    BY <2>t, <1>t, <1>l, <1>o, <2>1, <2>2, <1>13, SMTT(30) DEF SendFails,
       MarkUnusable, Closes, Returns, Ends, Owners, Running, Holds
  <2>5. unknown' \in BOOLEAN
    BY DEF TypeInv, TypeOK
  <2> QED
    BY <2>t, <1>t, <2>1, <2>2, <2>3, <2>4, <2>5, Leaving
<1>14. ASSUME NEW c \in Calls, Answered(c) PROVE [Device!Next]_<<Owners, Running, unknown>>
  <2>1. Owners' = Owners
    BY <1>t, <1>l, <1>14 DEF Answered, Returns, Ends, Owners
  <2>2. Running' = Running
    BY <1>t, <1>14 DEF Answered, Returns, Ends, Running
  <2>3. unknown' = unknown
    BY <1>14, SMTT(30) DEF Answered, Returns, Ends
  <2> QED
    BY <2>1, <2>2, <2>3
<1>15. ASSUME NEW c \in Calls, FailedBefore(c) PROVE [Device!Next]_<<Owners, Running, unknown>>
  <2>t. Target[c] \in Runtimes
    OBVIOUS
  <2>1. Owners = {Target[c]} /\ Owners' \in {{Target[c]}, {}}
    BY <2>t, <1>t, <1>l, <1>o, <1>c, <1>15 DEF FailedBefore, MarkUnusable,
       Closes, Returns, Ends, Owners, Holds, Wired, Armed
  <2>2. Running' = Running
    BY <2>t, <1>t, <1>o, <2>1, <1>15 DEF FailedBefore, MarkUnusable, Closes,
       Returns, Ends, Running
  <2>3. /\ Running' # Running => unknown'
        /\ unknown => unknown'
    BY <2>t, <1>t, <2>2, <1>15 DEF FailedBefore, MarkUnusable, Closes,
       Returns, Ends, Running
  <2>4. Owners' = {} => Running' = {}
    BY <2>t, <1>t, <1>l, <1>o, <2>1, <2>2, <1>15, SMTT(30) DEF FailedBefore,
       MarkUnusable, Closes, Returns, Ends, Owners, Running, Holds
  <2>5. unknown' \in BOOLEAN
    BY DEF TypeInv, TypeOK
  <2> QED
    BY <2>t, <1>t, <2>1, <2>2, <2>3, <2>4, <2>5, Leaving
<1>16. ASSUME NEW c \in Calls, NeverAnswered(c) PROVE [Device!Next]_<<Owners, Running, unknown>>
  <2>t. Target[c] \in Runtimes
    OBVIOUS
  <2>1. Owners = {Target[c]} /\ Owners' \in {{Target[c]}, {}}
    <3>1. Owners = {Target[c]}
      BY <2>t, <1>t, <1>l, <1>o, <1>c, <1>16 DEF NeverAnswered, Owners, Holds, Armed
    <3>2. fds' = fds /\ host' = [host EXCEPT ![Target[c]] = "unusable"]
      BY <1>16, SMTT(30) DEF NeverAnswered, MarkUnusable
    <3>3. Owners' = {Target[c]}
      BY <2>t, <1>t, <3>1, <3>2 DEF Owners
    <3> QED
      BY <3>1, <3>3
  <2>2. Running' = Running
    BY <2>t, <1>t, <1>o, <2>1, <1>16 DEF NeverAnswered, MarkUnusable, Closes,
       Returns, Ends, Running
  <2>3. /\ Running' # Running => unknown'
        /\ unknown => unknown'
    BY <2>t, <1>t, <2>2, <1>16 DEF NeverAnswered, MarkUnusable, Closes,
       Returns, Ends, Running
  <2>4. Owners' = {} => Running' = {}
    BY <2>t, <1>t, <1>l, <1>o, <2>1, <2>2, <1>16 DEF NeverAnswered,
       MarkUnusable, Closes, Returns, Ends, Owners, Running, Holds
  <2>5. unknown' \in BOOLEAN
    BY DEF TypeInv, TypeOK
  <2> QED
    BY <2>t, <1>t, <2>1, <2>2, <2>3, <2>4, <2>5, Leaving
<1>17. ASSUME NEW c \in Calls, Stopped(c) PROVE [Device!Next]_<<Owners, Running, unknown>>
  <2>1. Owners' = Owners
    BY <1>t, <1>l, <1>17 DEF Stopped, Ends, Owners
  <2>2. Running' = Running
    BY <1>t, <1>17 DEF Stopped, Ends, Running
  <2>3. unknown' = unknown
    BY <1>17 DEF Stopped, Ends
  <2> QED
    BY <2>1, <2>2, <2>3
<1>18. ASSUME NEW c \in Calls, ExitSeen(c) PROVE [Device!Next]_<<Owners, Running, unknown>>
  <2>t. Target[c] \in Runtimes
    OBVIOUS
  <2>1. Owners = {Target[c]}
    BY <2>t, <1>t, <1>l, <1>o, <1>c, <1>18 DEF ExitSeen, Owners, Holds, Armed
  <2>2. fds' = fds \/ fds' = [fds EXCEPT ![Target[c]] = @ \ {"host"}]
    BY <1>18 DEF ExitSeen, Closes, Returns, Ends
  <2>3. \A q \in Runtimes : host'[q] # "locked" <=> host[q] # "locked"
    BY <2>t, <1>t, <1>c, <1>18 DEF ExitSeen
  <2>4. Owners' \in {{Target[c]}, {}}
    BY <2>t, <1>t, <2>1, <2>2, <2>3 DEF Owners
  <2>5. Running' = Running /\ unknown' = unknown
    BY <1>18 DEF ExitSeen, Running
  <2>6. Running = {}
    BY <1>o, <2>1, <1>18 DEF ExitSeen, Running
  <2> QED
    BY <2>t, <1>t, <2>1, <2>4, <2>5, <2>6, Leaving
<1>19. ASSUME NEW c \in Calls, ExitTooLate(c) PROVE [Device!Next]_<<Owners, Running, unknown>>
  <2>t. Target[c] \in Runtimes
    OBVIOUS
  <2>1. Owners = {Target[c]} /\ Owners' \in {{Target[c]}, {}}
    <3>1. Owners = {Target[c]}
      BY <2>t, <1>t, <1>l, <1>o, <1>c, <1>19 DEF ExitTooLate, Owners, Holds, Armed
    <3>2. fds' = fds /\ host' = [host EXCEPT ![Target[c]] = "unusable"]
      BY <1>19 DEF ExitTooLate, MarkUnusable
    <3>3. Owners' = {Target[c]}
      BY <2>t, <1>t, <3>1, <3>2 DEF Owners
    <3> QED
      BY <3>1, <3>3
  <2>2. Running' = Running
    BY <2>t, <1>t, <1>o, <2>1, <1>19 DEF ExitTooLate, MarkUnusable, Closes,
       Returns, Ends, Running
  <2>3. /\ Running' # Running => unknown'
        /\ unknown => unknown'
    BY <2>t, <1>t, <2>2, <1>19 DEF ExitTooLate, MarkUnusable, Closes, Returns,
       Ends, Running
  <2>4. Owners' = {} => Running' = {}
    BY <2>t, <1>t, <1>l, <1>o, <2>1, <2>2, <1>19 DEF ExitTooLate,
       MarkUnusable, Closes, Returns, Ends, Owners, Running, Holds
  <2>5. unknown' \in BOOLEAN
    BY DEF TypeInv, TypeOK
  <2> QED
    BY <2>t, <1>t, <2>1, <2>2, <2>3, <2>4, <2>5, Leaving
<1>20. ASSUME NEW r \in Runtimes, Destroy(r) PROVE [Device!Next]_<<Owners, Running, unknown>>
  <2>1. Running' = Running /\ unknown' = unknown
    BY <1>20 DEF Destroy, Running
  <2>2. CASE r \in Owners
    <3>1. Owners = {r} /\ Owners' \in {{r}, {}}
      BY <1>t, <1>o, <2>2, <1>20 DEF Destroy, Closes, Open, Owners
    <3>2. Owners' = {} => Running' = {}
      BY <1>t, <1>l, <1>o, <2>1, <3>1, <1>20 DEF Destroy, Closes, Open,
         Owners, Running, Holds
    <3> QED
      BY <1>t, <2>1, <3>1, <3>2, Leaving
  <2>3. CASE r \notin Owners
    <3>1. Owners' = Owners
      BY <1>t, <1>l, <2>3, <1>20 DEF Destroy, Closes, Open, Owners, Holds,
         Armed, Wired
    <3> QED
      BY <2>1, <3>1
  <2> QED
    BY <2>2, <2>3
<1>21. ASSUME NEW r \in Runtimes, HostDies(r) PROVE [Device!Next]_<<Owners, Running, unknown>>
  <2>1. Running' = Running /\ unknown' = unknown
    BY <1>21 DEF HostDies, Running
  <2>2. CASE r \in Owners
    <3>1. Owners = {r} /\ Owners' \in {{r}, {}}
      BY <1>t, <1>o, <2>2, <1>21 DEF HostDies, Closes, Open, Owners
    <3>2. Owners' = {} => Running' = {}
      BY <1>t, <1>l, <1>o, <2>1, <3>1, <1>21 DEF HostDies, Closes, Open,
         Owners, Running, Holds
    <3> QED
      BY <1>t, <2>1, <3>1, <3>2, Leaving
  <2>3. CASE r \notin Owners
    <3>1. Owners' = Owners
      BY <1>t, <1>l, <2>3, <1>21 DEF HostDies, Closes, Open, Owners, Holds,
         Armed, Wired
    <3> QED
      BY <2>1, <3>1
  <2> QED
    BY <2>2, <2>3
<1>22. ASSUME NEW r \in Runtimes, Load(r) PROVE [Device!Next]_<<Owners, Running, unknown>>
  <2>1. Owners' = Owners
    BY <1>t, <1>l, <1>22 DEF Load, Becomes, Sends, Owners
  <2>2. Running' = Running
    BY <1>t, <1>22 DEF Load, Becomes, Sends, Running
  <2>3. unknown' = unknown
    BY <1>22 DEF Load, Becomes, Sends
  <2> QED
    BY <2>1, <2>2, <2>3
<1>23. ASSUME NEW r \in Runtimes, Receive(r) PROVE [Device!Next]_<<Owners, Running, unknown>>
  <2>1. UNCHANGED <<fds, host, unknown>>
    BY <1>23 DEF Receive, TakeCommand, Becomes, Sends
  <2>2. \A q \in Runtimes : worker'[q] = "executing" <=> worker[q] = "executing"
    <3>1. CASE command[r] = None
      BY <1>t, <3>1, <1>23 DEF Receive, TakeCommand, Becomes, Sends
    <3>2. CASE command[r] # None
      BY <1>t, <3>2, <1>23 DEF Receive, TakeCommand, Becomes, Sends
    <3> QED
      BY <3>1, <3>2
  <2>3. Owners' = Owners /\ Running' = Running
    BY <2>1, <2>2 DEF Owners, Running
  <2> QED
    BY <2>1, <2>3
<1>24. ASSUME NEW r \in Runtimes, CheckDeadline(r) PROVE [Device!Next]_<<Owners, Running, unknown>>
  <2>1. Owners = {r} /\ Owners' \in {{r}, {}}
    BY <1>t, <1>l, <1>o, <1>c, <1>24 DEF CheckDeadline, Becomes, Sends,
       Dispatched, Owners, Holds, Wired, Armed
  <2>2. Running' = Running
    BY <1>t, <1>o, <2>1, <1>24 DEF CheckDeadline, Becomes, Sends, Dispatched,
       Running
  <2>3. /\ Running' # Running => unknown'
        /\ unknown => unknown'
    BY <1>t, <2>2, <1>24 DEF CheckDeadline, Becomes, Sends, Dispatched, Running
  <2>4. Owners' = {} => Running' = {}
    BY <1>t, <1>l, <1>o, <2>1, <2>2, <1>24 DEF CheckDeadline, Becomes, Sends,
       Dispatched, Owners, Running, Holds
  <2>5. unknown' \in BOOLEAN
    BY DEF TypeInv, TypeOK
  <2> QED
    BY <1>t, <2>1, <2>2, <2>3, <2>4, <2>5, Leaving
<1>25. ASSUME NEW r \in Runtimes, Submit(r) PROVE [Device!Next]_<<Owners, Running, unknown>>
  <2>1. Owners = {r} /\ Owners' = Owners
    BY <1>t, <1>l, <1>o, <1>25 DEF Submit, Becomes, Owners, Holds, Wired
  <2>2. Running = {} /\ Running' = {r}
    BY <1>t, <1>o, <2>1, <1>25 DEF Submit, Becomes, Running
  <2> QED
    BY <2>1, <2>2, <1>25 DEF Submit, Device!Next, Device!Run
<1>26. ASSUME NEW r \in Runtimes, ExecReturns(r) PROVE [Device!Next]_<<Owners, Running, unknown>>
  <2>1. Owners = {r} /\ Owners' = Owners
    BY <1>t, <1>l, <1>o, <1>26 DEF ExecReturns, Becomes, Sends, Owners, Holds, Wired
  <2>2. Running = {r} /\ Running' = {}
    BY <1>t, <1>o, <2>1, <1>26 DEF ExecReturns, Becomes, Sends, Running
  <2>3. unknown' = unknown \/ unknown' = TRUE
    BY <1>26 DEF ExecReturns
  <2> QED
    BY <2>1, <2>2, <2>3 DEF Device!Next, Device!Complete, Device!Lose
<1>27. ASSUME NEW r \in Runtimes, Finish(r) PROVE [Device!Next]_<<Owners, Running, unknown>>
  <2>1. Owners' = Owners
    BY <1>t, <1>l, <1>27 DEF Finish, Becomes, Sends, Owners
  <2>2. Running' = Running
    BY <1>t, <1>27 DEF Finish, Becomes, Sends, Running
  <2>3. unknown' = unknown
    BY <1>27 DEF Finish, Becomes, Sends
  <2> QED
    BY <2>1, <2>2, <2>3
<1>28. ASSUME NEW r \in Runtimes, Exit(r) PROVE [Device!Next]_<<Owners, Running, unknown>>
  <2>1. Owners = {r} /\ Owners' \in {{r}, {}}
    BY <1>t, <1>l, <1>o, <1>c, <1>28 DEF Exit, Becomes, Closes, Owners, Holds,
       Wired, Armed
  <2>2. Running' = Running
    BY <1>t, <1>o, <2>1, <1>28 DEF Exit, Becomes, Closes, Running
  <2>3. /\ Running' # Running => unknown'
        /\ unknown => unknown'
    BY <1>t, <2>2, <1>28 DEF Exit, Becomes, Closes, Running
  <2>4. Owners' = {} => Running' = {}
    BY <1>t, <1>l, <1>o, <2>1, <2>2, <1>28 DEF Exit, Becomes, Closes, Owners,
       Running, Holds
  <2>5. unknown' \in BOOLEAN
    BY DEF TypeInv, TypeOK
  <2> QED
    BY <1>t, <2>1, <2>2, <2>3, <2>4, <2>5, Leaving
<1>29. ASSUME NEW r \in Runtimes, Crash(r) PROVE [Device!Next]_<<Owners, Running, unknown>>
  <2>1. Owners = {r} /\ Owners' \in {{r}, {}}
    BY <1>t, <1>l, <1>o, <1>c, <1>29 DEF Crash, Becomes, Closes, Dispatched,
       Owners, Holds, Wired, Armed
  <2>2. Running' \in {Running, {}}
    BY <1>t, <1>o, <2>1, <1>29 DEF Crash, Becomes, Closes, Dispatched, Running
  <2>3. /\ Running' # Running => unknown'
        /\ unknown => unknown'
    <3>1. CASE worker[r] = "executing"
      BY <3>1, <1>29 DEF Crash, Becomes, Closes, Dispatched
    <3>2. CASE worker[r] # "executing"
      <4>1. Running' = Running
        BY <1>t, <3>2, <1>29 DEF Crash, Becomes, Closes, Dispatched, Running
      <4> QED
        BY <4>1, <1>29 DEF Crash, Becomes, Closes, Dispatched
    <3> QED
      BY <3>1, <3>2
  <2>4. Owners' = {} => Running' = {}
    BY <1>t, <1>l, <1>o, <2>1, <2>2, <1>29 DEF Crash, Becomes, Closes,
       Dispatched, Owners, Running, Holds
  <2>5. unknown' \in BOOLEAN
    BY DEF TypeInv, TypeOK
  <2> QED
    BY <1>t, <2>1, <2>2, <2>3, <2>4, <2>5, Leaving
<1>30. ASSUME Reboot PROVE [Device!Next]_<<Owners, Running, unknown>>
  <2>1. Owners' = {} /\ Running' = {} /\ unknown' = FALSE
    BY <1>30 DEF Reboot, Open, Owners, Running
  <2> QED
    BY <2>1 DEF Device!Next, Device!Reboot
<1> QED
  BY <1>1, <1>2, <1>3, <1>4, <1>5, <1>6, <1>7, <1>8, <1>9, <1>10, <1>11,
     <1>12, <1>13, <1>14, <1>15, <1>16, <1>17, <1>18, <1>19, <1>20, <1>21,
     <1>22, <1>23, <1>24, <1>25, <1>26, <1>27, <1>28, <1>29, <1>30 DEF Next,
     Loading, Calling, Working

----------------------------------------------------------------------------
(* The theorems.                                                           *)

IInv ==
  /\ TypeInv /\ LockInv /\ CallInv /\ SocketInv /\ RecordInv
  /\ ReasonInv /\ OwnInv /\ ReceiptIsHonest

LEMMA IInvInit == Init => IInv /\ UnknownInv
<1> SUFFICES ASSUME Init PROVE IInv /\ UnknownInv
  OBVIOUS
<1> USE AneAssumption DEF Init
<1>1. TypeInv
  BY DEF TypeInv, TypeOK
<1>2. LockInv /\ CallInv
  BY DEF LockInv, Sole, Holds, Wired, CallInv, Inside, Alive, Armed
<1>3. SocketInv /\ RecordInv
  BY DEF SocketInv, Socket, RecordInv, Recorded, Alive, Armed, Serving, File
<1>4. ReasonInv /\ OwnInv
  BY DEF ReasonInv, Reason, OwnInv, Own, Serving
<1>5. ReceiptIsHonest /\ UnknownInv
  BY DEF ReceiptIsHonest, UnknownInv
<1> QED
  BY <1>1, <1>2, <1>3, <1>4, <1>5 DEF IInv

LEMMA IInvStep == IInv /\ [Next]_vars => IInv'
<1> SUFFICES ASSUME IInv, [Next]_vars PROVE IInv'
  OBVIOUS
<1>1. CASE Next
  BY <1>1, TypeStep, LockStep, CallStep, SocketStep, RecordStep, ReasonStep,
     OwnStep,
     ReceiptStep DEF IInv
<1>2. CASE UNCHANGED vars
  <2> USE <1>2 DEF vars, diskVars, hostVars, workerVars, socketVars, historyVars, IInv
  <2>1. TypeInv'
    BY DEF TypeInv, TypeOK
  <2>2. LockInv' /\ CallInv'
    BY DEF LockInv, Sole, Holds, Wired, CallInv, Inside, Alive
  <2>3. SocketInv' /\ RecordInv'
    BY DEF SocketInv, Socket, RecordInv, Recorded, Sent, Alive
  <2>4. ReasonInv' /\ OwnInv'
    BY DEF ReasonInv, Reason, OwnInv, Own
  <2>5. ReceiptIsHonest'
    BY DEF ReceiptIsHonest, Alive
  <2> QED
    BY <2>1, <2>2, <2>3, <2>4, <2>5
<1> QED
  BY <1>1, <1>2

LEMMA IInvAlways == Spec => []IInv
  BY IInvInit, IInvStep, PTL DEF Spec

\* Every variable keeps its type.
THEOREM TypeCorrect == Spec => []TypeOK
<1>1. IInv => TypeOK
  BY DEF IInv, TypeInv
<1> QED
  BY <1>1, IInvAlways, PTL

\* A record of this boot that nobody holds was left by an unknown completion, a
\* host that died or a cleanup that failed (mark_unusable, ~RuntimeOwnership,
\* release_cleanly), whatever files the runtimes open.
THEOREM QuarantineHasReason == Spec => []NoFalseQuarantine
<1>1. IInv => NoFalseQuarantine
  <2> SUFFICES ASSUME IInv, NEW f \in Files, record[f] = boot, Holders(f) = {}
               PROVE  unknown \/ f \in excused
    BY DEF NoFalseQuarantine
  <2>1. \A r \in Runtimes : File(r) = f => fds[r] = {}
    BY DEF Holders
  <2>2. ~ \E r \in Runtimes : File(r) = f /\ host[r] \in Armed
    BY <2>1 DEF IInv, LockInv, Holds
  <2> QED
    BY <2>2 DEF IInv, ReasonInv, Reason
<1> QED
  BY <1>1, IInvAlways, PTL

\* The outputs that execute returns are those of its own inputs, for any number
\* of concurrent calls on one staging buffer.
THEOREM ResultsAreOwn == Spec => []ResultIsOwn
<1>1. IInv => ResultIsOwn
  BY DEF IInv, OwnInv, Own, ResultIsOwn
<1> QED
  BY <1>1, IInvAlways, PTL

\* After a shutdown that returned its receipt the worker is gone for good.
THEOREM ReceiptsAreHonest == Spec => []ReceiptIsHonest
<1>1. IInv => ReceiptIsHonest
  BY DEF IInv
<1> QED
  BY <1>1, IInvAlways, PTL

\* With one lock for all, the runtimes implement AneDevice: one owner, only it
\* runs programs, one at a time, and nobody owns the device again in a boot in
\* which a completion became unknown.
THEOREM DeviceImplemented == ASSUME SoleFile PROVE Spec => ImplementsDevice
<1>1. Init => Device!Init
  BY DEF Init, Device!Init, Owners, Running
<1>2. IInv /\ IInv' /\ UnknownInv /\ [Next]_vars =>
        [Device!Next]_<<Owners, Running, unknown>> /\ UnknownInv'
  <2> SUFFICES ASSUME IInv, IInv', UnknownInv, [Next]_vars
               PROVE  [Device!Next]_<<Owners, Running, unknown>> /\ UnknownInv'
    OBVIOUS
  <2>1. CASE Next
    BY <2>1, SoleFile, StepImplements, UnknownStep DEF IInv
  <2>2. CASE UNCHANGED vars
    BY <2>2 DEF vars, diskVars, hostVars, workerVars, socketVars, historyVars,
       Owners, Running, UnknownInv, Doubted, Sent
  <2> QED
    BY <2>1, <2>2
<1> QED
  BY <1>1, <1>2, IInvInit, IInvAlways, PTL DEF Spec, ImplementsDevice, Device!Spec

=============================================================================
