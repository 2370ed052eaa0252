------------------------------- MODULE Pairs -------------------------------
(***************************************************************************)
(* The assistant's two model workers and their memory: PairManager         *)
(* (serve/mlx_omarchy_assistant/pairs.py), the worker processes            *)
(* (managed.py) and the reservation file (Budget), beside other servers    *)
(* launched from the command line.                                         *)
(*                                                                         *)
(* The operations start, stop, setup and ensure_context hold _op_lock, so  *)
(* one program counter `pc` follows them.  status() does not take the      *)
(* lock; its thread is `poll`.  Workers and launches run by themselves and *)
(* may die at any time.  Two contexts, 1 (prepared) and 2 (grown).         *)
(* cancel has no variable: a step it ends may also fail for another reason.*)
(*                                                                         *)
(* The decision worker claims its record and relabels it; the chat worker  *)
(* (_mlxlm_server.py) reads neither the claim pipe nor the lifetime pipe.  *)
(***************************************************************************)
EXTENDS Budget

CONSTANTS Memory,         \* memory for models: the total less the safety reserve
          ChatBytes,      \* <<b1, b2>>: the chat worker's requirement per context
          DecisionBytes,
          LaunchBytes,    \* the possible requirements of a launch
          ChatWeights, DecisionWeights, LaunchWeights,  \* materialized by a load
          Crashes         \* the assistant may be killed and started again

Roles == {"chat", "decision"}
Launches == Names \ Roles

ASSUME PairsAssumption ==
    /\ Roles \subseteq Names /\ IsFiniteSet(Names) /\ IsFiniteSet(Children)
    /\ Absent \notin Names /\ Absent \notin Tokens /\ Absent \notin Children
    /\ Absent \notin Record
    /\ Memory \in Nat /\ ChatBytes \in [1..2 -> Nat] /\ DecisionBytes \in Nat
    /\ LaunchBytes \subseteq Nat
    /\ ChatWeights \in 0..ChatBytes[1] /\ ChatBytes[1] <= ChatBytes[2]
    /\ DecisionWeights \in 0..DecisionBytes
    /\ LaunchWeights \in Nat /\ \A b \in LaunchBytes : LaunchWeights <= b
    /\ Crashes \in BOOLEAN

VARIABLES child,     \* [Children -> worker process]
          doomed,    \* killed, but their exit could not be verified in time
          launch,    \* [Launches -> where a command-line server is]
          pc,        \* where the operation that holds _op_lock is
          state,     \* _state; "down" is idle, preparing, planned, prepared and error
          prepared,  \* _prepared is not None
          paired,    \* _pair_id is not None
          tracked,   \* [Roles -> child or Absent]: _children
          token,     \* the owner in _records
          context,   \* _context_tokens, 0 for None
          available, \* what _available_bytes returned to the operation, 0 when it is done with
          poll, seen, targets, \* status(): position, its children, records to clear
          stripped   \* history: whose records a status() has cleared

workerVars == <<child, doomed>>
managerVars == <<state, prepared, paired, tracked, token, context>>
pollVars == <<poll, seen, targets, stripped>>
vars == <<file, workerVars, launch, pc, managerVars, available, pollVars>>

NoChild == [st |-> "dead", role |-> "chat", owner |-> Absent, context |-> 0, ours |-> FALSE]
NoChildren == [r \in Roles |-> Absent]

TypeOK ==
    /\ file \in [Names -> Record \cup {Absent}]
    /\ child \in [Children -> [st : {"dead", "boot", "claimed", "loaded",
                                     "serving", "leaving"},
                               role : Roles, owner : Tokens \cup {Absent},
                               context : 0..2, ours : BOOLEAN]]
    /\ doomed \subseteq Children
    /\ launch \in [Launches -> {"none", "pending", "loaded", "gone"}]
    /\ pc \in {"free", "settle", "admit", "chat", "decision", "health_chat",
               "health_decision", "failed", "resize", "retire", "keep", "grow",
               "grown", "drop", "restore", "fallback", "fallback_health"}
    /\ state \in {"down", "starting", "ready"}
    /\ prepared \in BOOLEAN /\ paired \in BOOLEAN
    /\ tracked \in [Roles -> Children \cup {Absent}]
    /\ token \in Tokens \cup {Absent}
    /\ context \in 0..2
    /\ available \in Int
    /\ poll \in {"idle", "read", "clear"}
    /\ seen \in [Roles -> Children \cup {Absent}]
    /\ targets \subseteq Roles \X Tokens
    /\ stripped \subseteq Roles \X Tokens

Init ==
    /\ file = [n \in Names |-> Absent]
    /\ child = [p \in Children |-> NoChild]
    /\ doomed = {}
    /\ launch = [l \in Launches |-> "none"]
    /\ pc = "free" /\ state = "down" /\ prepared = FALSE /\ paired = FALSE
    /\ tracked = NoChildren /\ token = Absent /\ context = 0
    /\ available = 0
    /\ poll = "idle" /\ seen = NoChildren /\ targets = {} /\ stripped = {}

----------------------------------------------------------------------------
(* Processes and memory. *)

Live == {p \in Children : child[p].st # "dead"}
InMemory == {p \in Children : child[p].st \in {"loaded", "serving", "leaving"}}
Tracked == {tracked[r] : r \in Roles} \ {Absent}

Weights(role) == IF role = "chat" THEN ChatWeights ELSE DecisionWeights
Bytes(role, c) == IF role = "chat" THEN ChatBytes[c] ELSE DecisionBytes

Loaded == {l \in Launches : launch[l] = "loaded"}

\* MemAvailable when the workers of S are gone.
AvailableWithout(S) ==
    Memory - SumFunction([p \in InMemory \ S |-> Weights(child[p].role)])
           - SumFunction([l \in Loaded |-> LaunchWeights])

\* Process identities, and tokens, that nothing refers to any more.  The model
\* reuses them, and starts a process or a pair only while one is left.
SpareChildren ==
    {p \in Children \ (Live \cup Tracked) :
        /\ \A r \in Roles : seen[r] # p
        /\ \A n \in Held : file[n].claimed # p}
SpareTokens ==
    {o \in Tokens : /\ \A n \in Held : file[n].owner # o
                    /\ \A p \in Live : child[p].owner # o
                    /\ \A x \in targets : x[2] # o}

Died(S) == [p \in Children |-> IF p \in S THEN NoChild ELSE child[p]]

Spawn(role, owner, c) ==
    /\ \E p \in SpareChildren :
          /\ child' = [child EXCEPT ![p] = [st |-> "boot", role |-> role, owner |-> owner,
                                            context |-> c, ours |-> TRUE]]
          /\ tracked' = [tracked EXCEPT ![role] = p]
    /\ UNCHANGED doomed

\* managed.terminate of each process of S: those of V survive SIGKILL unverified.
Terminate(S, V) ==
    /\ V \subseteq S \cap Live
    /\ child' = Died(S \ V)
    /\ doomed' = (doomed \cup V) \ (S \ V)

\* Mutant of ExitVerified: the record is judged by the process that reserved it.
ExitByParent(n, ch, alive) ==
    IF ch[n] # Absent THEN ch[n] \notin alive ELSE ~file[n].ours

\* reap_pair_records: a tracked child by its exit, another record by the
\* identity that claimed it, an unclaimed one by the process that reserved it.
ExitVerified(n, ch, alive) ==
    IF ch[n] # Absent THEN ch[n] \notin alive
    ELSE IF file[n].claimed # Absent THEN file[n].claimed \notin alive
    ELSE ~file[n].ours

Reaped(ch, alive) == {n \in Roles \cap Held : ExitVerified(n, ch, alive)}
Unclaimed == {n \in Roles \cap Held : file[n].claimed = Absent}

\* Every child is terminated, and those whose exit is unverified stay owned.
TerminateAll(V) ==
    /\ Terminate(Tracked, V)
    /\ tracked' = [r \in Roles |-> IF tracked[r] \in V THEN tracked[r] ELSE Absent]

----------------------------------------------------------------------------
(* setup, adopt_saved and stop. *)

\* An operation that takes the lock.
Begins == pc = "free"

\* A setup that succeeds; one that is refused, cancelled, or stops at its plan
\* changes nothing that matters here.
Setup ==
    /\ Begins /\ state = "down"
    /\ prepared' = TRUE
    /\ UNCHANGED <<file, workerVars, launch, pc, state, paired, tracked, token, context,
                   available, pollVars>>

\* adopt_saved, also when start finds nothing prepared; its refusals change nothing.
AdoptSaved ==
    /\ Begins /\ state = "down"
    /\ prepared' = TRUE /\ paired' = TRUE
    /\ UNCHANGED <<file, workerVars, launch, pc, state, tracked, token, context,
                   available, pollVars>>

\* stop, from the lock to its return; also inside start and ensure_context.
StopTo(next) ==
    /\ \E V \in SUBSET Tracked :
          /\ TerminateAll(V)
          /\ file' = IF paired
                     THEN Without(Reaped(tracked, Live \ (Tracked \ V)) \cup Unclaimed)
                     ELSE file
    /\ context' = 0
    /\ state' = "down"
    /\ pc' = next
    /\ UNCHANGED <<launch, prepared, paired, token, available, pollVars>>

Stop == Begins /\ StopTo("free")

----------------------------------------------------------------------------
(* start. *)

\* A ready pair with both workers alive is left alone.
StartBegins ==
    /\ Begins /\ prepared
    /\ IF state = "ready"
       THEN /\ \E r \in Roles : tracked[r] \notin Live
            /\ StopTo("settle")
       ELSE /\ pc' = "settle"
            /\ UNCHANGED <<file, workerVars, launch, state, prepared, paired, tracked, token,
                           context, available, pollVars>>

\* What an earlier start left behind, then the sizing, from an earlier reading of
\* the memory: the start goes on or ends.
Settle ==
    /\ pc = "settle"
    /\ \E V \in SUBSET Tracked :
          /\ TerminateAll(V)
          /\ file' = Without(Reaped(tracked, Live \ (Tracked \ V)))
          /\ \/ available' = AvailableWithout(Tracked \ V) /\ pc' = "admit"
             \/ available' = 0 /\ pc' = "free"
    /\ UNCHANGED <<launch, state, prepared, paired, token, context, pollVars>>

PairItems == [r \in Roles |-> Bytes(r, 1)]

Admit ==
    /\ pc = "admit"
    /\ \E owner \in SpareTokens :
          /\ AdmitBatch(PairItems, owner, available) /\ token' = owner
          /\ stripped' = stripped \ (Roles \X SpareTokens)
    /\ paired' = TRUE
    /\ pc' = "chat" /\ state' = "starting" /\ context' = 1
    /\ available' = 0
    /\ UNCHANGED <<workerVars, launch, prepared, tracked, poll, seen, targets>>

AdmitRefused ==
    /\ pc = "admit"
    /\ ~CanAdmitBatch(PairItems, available)
    /\ pc' = "free" /\ state' = "down" /\ available' = 0
    /\ UNCHANGED <<file, workerVars, launch, prepared, paired, tracked, token, context,
                   pollVars>>

AfterSpawn(role) == IF role = "chat" THEN "decision" ELSE "health_chat"

SpawnWorker(role) ==
    /\ pc = role
    /\ Spawn(role, token, 1)
    /\ pc' = AfterSpawn(role)
    /\ UNCHANGED <<file, launch, state, prepared, paired, token, context,
                   available, pollVars>>

\* wait_health: the server answers once its model is loaded.
Healthy(role) == tracked[role] \in Live /\ child[tracked[role]].st = "serving"

ChatHealthy ==
    /\ pc = "health_chat" /\ Healthy("chat")
    /\ pc' = "health_decision"
    /\ UNCHANGED <<file, workerVars, launch, managerVars, available, pollVars>>

DecisionHealthy ==
    /\ pc = "health_decision" /\ Healthy("decision")
    /\ pc' = "free" /\ state' = "ready"
    /\ UNCHANGED <<file, workerVars, launch, prepared, paired, tracked, token, context, available, pollVars>>

\* A spawn that raises, a cancel, a worker that exited, or the deadline.
StartFails ==
    /\ pc \in {"chat", "decision", "health_chat", "health_decision"}
    /\ pc' = "failed"
    /\ UNCHANGED <<file, workerVars, launch, managerVars, available, pollVars>>

\* Mutant of CleanUp: the records go although a worker may live.
CleanUpAll ==
    /\ pc = "failed"
    /\ \E V \in SUBSET Tracked : TerminateAll(V)
    /\ file' = Without(Roles)
    /\ pc' = "free" /\ state' = "down"
    /\ UNCHANGED <<launch, prepared, paired, token, context, available, pollVars>>

CleanUp ==
    /\ pc = "failed"
    /\ \E V \in SUBSET Tracked :
          /\ TerminateAll(V)
          /\ file' = Without(Reaped(tracked, Live \ (Tracked \ V)) \cup Unclaimed)
    /\ pc' = "free" /\ state' = "down"
    /\ UNCHANGED <<launch, prepared, paired, token, context, available, pollVars>>

----------------------------------------------------------------------------
(* ensure_context: the chat worker is restarted with a larger context. *)

\* The sizing, from an earlier reading of the memory, allows it.
GrowBegins ==
    /\ Begins /\ state = "ready" /\ prepared /\ context = 1
    /\ available' = AvailableWithout({})
    /\ pc' = "resize"
    /\ UNCHANGED <<file, workerVars, launch, managerVars, pollVars>>

ResizeRefused ==
    /\ pc = "resize" /\ ~CanResize("chat", ChatBytes[2], token, available)
    /\ pc' = "free" /\ available' = 0
    /\ UNCHANGED <<file, workerVars, launch, managerVars, pollVars>>

Resize ==
    /\ pc = "resize"
    /\ ResizeReservation("chat", ChatBytes[2], token, available)
    /\ pc' = "retire" /\ available' = 0
    /\ UNCHANGED <<workerVars, launch, managerVars, pollVars>>

\* The old worker goes; one that will not die keeps running beside its record.
Retire ==
    /\ pc = "retire"
    /\ \/ /\ Terminate({tracked["chat"]}, {})
          /\ pc' = "grow" /\ UNCHANGED available
       \/ /\ tracked["chat"] \in Live
          /\ Terminate({tracked["chat"]}, {tracked["chat"]})
          /\ available' = AvailableWithout({})
          /\ pc' = "keep"
    /\ UNCHANGED <<file, launch, managerVars, pollVars>>

\* The replacement spawns, or the spawn raises and the record is put back.
Grow ==
    /\ pc = "grow"
    /\ \/ /\ Spawn("chat", token, 2)
          /\ pc' = "grown" /\ UNCHANGED available
       \/ /\ available' = AvailableWithout({})
          /\ pc' = "keep" /\ UNCHANGED <<workerVars, tracked>>
    /\ UNCHANGED <<file, launch, state, prepared, paired, token, context, pollVars>>

\* restore_reservation raises when the smaller record does not fit either.
Restores(next) ==
    IF CanResize("chat", ChatBytes[1], token, available)
    THEN ResizeReservation("chat", ChatBytes[1], token, available) /\ pc' = next
    ELSE UNCHANGED file /\ pc' = "free"

Restore ==
    /\ \/ pc = "keep" /\ Restores("free")
       \/ pc = "restore" /\ Restores("fallback")
    /\ available' = 0
    /\ UNCHANGED <<workerVars, launch, managerVars, pollVars>>

GrownHealthy ==
    /\ pc = "grown" /\ Healthy("chat")
    /\ pc' = "free" /\ context' = 2
    /\ UNCHANGED <<file, workerVars, launch, state, prepared, paired, tracked, token,
                   available, pollVars>>

\* The deadline, a cancel, or either worker exited.
GrownFails ==
    /\ pc = "grown"
    /\ pc' = "drop"
    /\ UNCHANGED <<file, workerVars, launch, managerVars, available, pollVars>>

\* The candidate is verified dead before its record shrinks; else the pair stops.
Drop ==
    /\ pc = "drop"
    /\ \/ /\ Terminate({tracked["chat"]}, {})
          /\ available' = AvailableWithout({tracked["chat"]})
          /\ pc' = "restore"
          /\ UNCHANGED <<file, launch, managerVars, pollVars>>
       \/ tracked["chat"] \in Live /\ StopTo("free")

\* Mutant of Fallback: the worker comes back with the grown context.
FallbackGrown ==
    /\ pc = "fallback"
    /\ \/ /\ Spawn("chat", token, 2)
          /\ pc' = "fallback_health"
          /\ UNCHANGED <<file, launch, state, prepared, paired, token, context,
                         available, pollVars>>
       \/ StopTo("free")

Fallback ==
    /\ pc = "fallback"
    /\ \/ /\ Spawn("chat", token, 1)
          /\ pc' = "fallback_health"
          /\ UNCHANGED <<file, launch, state, prepared, paired, token, context,
                         available, pollVars>>
       \/ StopTo("free")

FallbackEnds ==
    /\ pc = "fallback_health"
    /\ \/ /\ Healthy("chat")
          /\ pc' = "free"
          /\ UNCHANGED <<file, workerVars, launch, managerVars, available, pollVars>>
       \/ StopTo("free")

----------------------------------------------------------------------------
(* status, from a request thread, also while an operation runs: the records of   *)
(* the workers it saw may have passed to others before it reads or clears them.  *)

StatusBegins ==
    /\ poll = "idle" /\ Tracked # {}
    /\ poll' = "read" /\ seen' = tracked
    /\ UNCHANGED <<file, workerVars, launch, pc, managerVars, available, targets, stripped>>

StatusReads ==
    /\ poll = "read"
    /\ targets' = {<<n, file[n].owner>> : n \in Reaped(seen, Live)}
    /\ poll' = "clear" /\ seen' = NoChildren
    /\ UNCHANGED <<file, workerVars, launch, pc, managerVars, available, stripped>>

StatusClears ==
    /\ poll = "clear"
    /\ LET gone == {x \in targets : Owned(x[1], x[2])} IN
          /\ file' = Without({x[1] : x \in gone})
          /\ stripped' = stripped \cup gone
    /\ state' = IF state = "ready" /\ Tracked \ Live # {} THEN "down" ELSE state
    /\ poll' = "idle" /\ targets' = {}
    /\ UNCHANGED <<workerVars, launch, pc, prepared, paired, tracked, token, context, available,
                   seen>>

----------------------------------------------------------------------------
(* The workers. *)

Moves(p, role, from, to) ==
    /\ child[p].role = role /\ child[p].st = from /\ p \notin doomed
    /\ child' = [child EXCEPT ![p].st = to]
    /\ UNCHANGED <<doomed, launch, pc, managerVars, available, pollVars>>

ChatLoads(p) == Moves(p, "chat", "boot", "serving") /\ UNCHANGED file

Claims(p) ==
    /\ Moves(p, "decision", "boot", "claimed")
    /\ ClaimReservation("decision", child[p].owner, DecisionBytes, p, child[p].ours, Live)

DecisionLoads(p) == Moves(p, "decision", "claimed", "loaded") /\ UNCHANGED file

Relabels(p) ==
    /\ Moves(p, "decision", "loaded", "serving")
    /\ SetResident("decision", DecisionWeights, child[p].owner)

\* A decision worker that ends in an orderly way (a SIGTERM, a failed load, the
\* lifetime pipe closed) clears its record, and exits after that.
Leaves(p) ==
    /\ \E from \in {"claimed", "loaded", "serving"} : Moves(p, "decision", from, "leaving")
    /\ IF Owned("decision", child[p].owner) THEN file' = Without({"decision"})
                                            ELSE UNCHANGED file

Exits(p) ==
    /\ p \in Live
    /\ child' = Died({p}) /\ doomed' = doomed \ {p}
    /\ UNCHANGED <<file, launch, pc, managerVars, available, pollVars>>

----------------------------------------------------------------------------
(* A server launched with `mlx-omarchy-serve`: its record stays pending. *)

LaunchGo(l, from, to) ==
    /\ launch[l] = from /\ launch' = [launch EXCEPT ![l] = to]
    /\ UNCHANGED <<workerVars, pc, managerVars, available, pollVars>>

LaunchAdmitted(l) ==
    /\ LaunchGo(l, "none", "pending")
    /\ \E b \in LaunchBytes : AdmitAndReserve(l, b, Absent, AvailableWithout({}))

LaunchLoads(l) == LaunchGo(l, "pending", "loaded") /\ UNCHANGED file
LaunchDies(l) ==
    /\ LaunchGo(l, "pending", "gone") \/ LaunchGo(l, "loaded", "gone")
    /\ UNCHANGED file
LaunchClears(l) == LaunchGo(l, "gone", "none") /\ file' = Without({l})

----------------------------------------------------------------------------
(* The assistant is killed and started again; workers and records stay. *)

\* Bound: the workers of at most one former assistant.
Crash ==
    /\ Crashes /\ \A p \in Live : child[p].ours
    /\ file' = [n \in Names |-> IF n \in Held THEN [file[n] EXCEPT !.ours = FALSE] ELSE Absent]
    /\ child' = [p \in Children |-> [child[p] EXCEPT !.ours = FALSE]]
    /\ pc' = "free" /\ state' = "down" /\ prepared' = FALSE /\ paired' = FALSE
    /\ tracked' = NoChildren /\ token' = Absent /\ context' = 0 /\ available' = 0
    /\ poll' = "idle" /\ seen' = NoChildren /\ targets' = {}
    /\ UNCHANGED <<doomed, launch, stripped>>

Start ==
    \/ StartBegins \/ Settle \/ Admit \/ AdmitRefused
    \/ (\E r \in Roles : SpawnWorker(r))
    \/ ChatHealthy \/ DecisionHealthy \/ StartFails \/ CleanUp

EnsureContext ==
    \/ GrowBegins \/ ResizeRefused \/ Resize \/ Retire \/ Grow \/ Restore
    \/ GrownHealthy \/ GrownFails \/ Drop \/ Fallback \/ FallbackEnds

Status == StatusBegins \/ StatusReads \/ StatusClears

Next ==
    \/ Setup \/ AdoptSaved \/ Stop \/ Start \/ EnsureContext \/ Status \/ Crash
    \/ \E p \in Children :
          ChatLoads(p) \/ Claims(p) \/ DecisionLoads(p) \/ Relabels(p)
          \/ Leaves(p) \/ Exits(p)
    \/ \E l \in Launches :
          LaunchAdmitted(l) \/ LaunchLoads(l) \/ LaunchDies(l) \/ LaunchClears(l)

Spec == Init /\ [][Next]_vars

----------------------------------------------------------------------------
(* Safety. *)

\* The record it was started under was cleared by a status().
Stripped(p) == <<child[p].role, child[p].owner>> \in stripped

\* The workers with a loaded model that are the manager's business.  Not those that
\* are on the way out, nor those whose record a status() took (see WorkerRetains), and
\* not a chat worker the manager has lost sight of: one that outlived its assistant,
\* or was killed and whose exit is still to be seen.
Working ==
    {p \in InMemory : /\ child[p].st # "leaving" /\ ~Stripped(p)
                      /\ child[p].role = "chat" => child[p].ours /\ p \notin doomed}

Covers(n, p) ==
    /\ Owned(n, child[p].owner)
    /\ file[n].bytes >= Bytes(child[p].role, child[p].context)

\* A worker with a loaded model has the record it was started under, at least as
\* large as what it may come to use.
LiveWorkerCovered == \A p \in Working : Covers(child[p].role, p)

\* A model is not loaded a second time while the first worker still has it.
OneWorkerPerModel ==
    \A p, q \in Working : child[p].role = child[q].role => p = q

\* The manager can stop every worker it started.
LoadedWorkerIsTracked ==
    \A p \in Working : child[p].ours => tracked[child[p].role] = p

\* Between operations a ready pair's chat worker has the context that turns are
\* measured against.
ContextIsServed ==
    pc = "free" /\ state = "ready" /\ tracked["chat"] \in Live =>
        child[tracked["chat"]].context = context

Need(p) == IF p \in Working THEN Bytes(child[p].role, child[p].context)
                            ELSE Weights(child[p].role)

\* The models the file accounts for.  Not a worker on the way out, whose record goes
\* before its memory does, nor one whose record a status() took, nor a chat worker
\* that outlived its assistant.
Accounted == {p \in InMemory : /\ child[p].st # "leaving" /\ ~Stripped(p)
                               /\ child[p].role = "chat" => child[p].ours}

\* What the loaded models may come to use together fits.
NoOvercommit ==
    SumFunction([p \in Accounted |-> Need(p)])
      + SumFunction([l \in Loaded |-> file[l].bytes]) <= Memory

----------------------------------------------------------------------------
(* What the documentation says and the code does not do. *)

\* "Live or uncertain workers RETAIN their reservations" (managed.py:144): a chat
\* worker that outlived its assistant keeps the record it was started under.
OrphanRetains ==
    \A p \in InMemory \ doomed :
        child[p].role = "chat" /\ ~child[p].ours => Covers("chat", p)

\* The same sentence, of a worker of this assistant: status() takes the lock for
\* nothing, and clears the record of the worker that took the place of a dead one.
WorkerRetains ==
    \A p \in InMemory \ doomed :
        child[p].ours /\ child[p].st # "leaving" => Covers(child[p].role, p)
============================================================================
