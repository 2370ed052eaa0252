---------------------------- MODULE PairsProofs ----------------------------
(***************************************************************************)
(* The manager's workers, for any number of processes, tokens and launches *)
(* and any sizes of models and memory: a working worker is tracked and has *)
(* its record, a model is loaded once, the context that turns are measured *)
(* against is the chat worker's, and the loaded models fit in the memory,  *)
(* however status() interleaves with the operations.  The workers whose    *)
(* record a status() has cleared are set aside by the properties, and kept *)
(* apart here as those that Lost it.                                       *)
(*                                                                         *)
(* How much memory is left is a sum over a finite set.  The provers cannot *)
(* use induction over such sets, so a sum is first shown to count a set of *)
(* pairs (SumIsCount), by taking a smallest subset for which it would not. *)
(***************************************************************************)
EXTENDS Pairs, FiniteSetTheorems, TLAPS

----------------------------------------------------------------------------
(* The inductive invariant.                                                *)

Process == [st : {"dead", "boot", "claimed", "loaded", "serving", "leaving"},
            role : Roles, owner : Tokens \cup {Absent}, context : 0..2, ours : BOOLEAN]

\* TypeOK but for `available`, as far as the proofs need it.
ShapeInv ==
  /\ file \in [Names -> Record \cup {Absent}]
  /\ child \in [Children -> Process]
  /\ doomed \subseteq Live
  /\ tracked \in [Roles -> Children \cup {Absent}]
  /\ token \in Tokens \cup {Absent}
  /\ context \in 0..2
  /\ targets \subseteq Roles \X (Tokens \cup {Absent})

\* A worker this assistant started is tracked until it is dead or doomed, and
\* what is tracked and lives was started for that role.
TrackInv ==
  /\ \A p \in Live \ doomed : child[p].ours => tracked[child[p].role] = p
  /\ \A r \in Roles : tracked[r] \in Live =>
       child[tracked[r]].role = r /\ child[tracked[r]].ours

\* No worker of the role is left that could still do anything.
Over(r) == tracked[r] \notin Live \ doomed

\* A worker is started only when its predecessor is over.
StageInv ==
  /\ pc \in {"admit", "chat", "keep"} => Over("chat")
  /\ pc \in {"admit", "chat", "decision"} => Over("decision")
  /\ pc \in {"grow", "restore", "fallback"} => tracked["chat"] \notin Live

\* Where turns are measured against `context`, or will be after this stage.
Measured ==
  \/ pc \in {"decision", "health_chat", "health_decision", "resize", "retire", "keep",
             "fallback_health"}
  \/ pc = "free" /\ state = "ready"

ContextInv ==
  /\ pc \in {"chat", "decision", "health_chat", "health_decision", "resize", "retire",
             "keep", "grow", "grown", "drop", "restore", "fallback",
             "fallback_health"} => context = 1
  /\ Measured /\ tracked["chat"] \in Live => child[tracked["chat"]].context = context
  /\ pc = "grown" /\ tracked["chat"] \in Live => child[tracked["chat"]].context = 2
  /\ pc = "settle" => state # "ready"

BaseInv == ShapeInv /\ TrackInv /\ StageInv /\ ContextInv

\* A status() has cleared the record that this owner had for this role.
Lost(role, owner) == <<role, owner>> \in stripped

\* Nobody owns a record that a status() took from him.
LostInv ==
  /\ stripped \subseteq Roles \X (Tokens \cup {Absent})
  /\ \A x \in stripped : ~Owned(x[1], x[2])

\* Who holds the chat record, and for how many bytes, unless he lost it.
ChatHas(owner, c) == Owned("chat", owner) /\ file["chat"].bytes >= ChatBytes[c]
ChatBacked(owner, c) == ChatHas(owner, c) \/ Lost("chat", owner)

ChatInv ==
  /\ tracked["chat"] \in Live \ doomed =>
       /\ child[tracked["chat"]].context \in 1..2
       /\ ChatBacked(child[tracked["chat"]].owner, child[tracked["chat"]].context)
  /\ pc \in {"chat", "fallback"} => ChatBacked(token, 1)
  /\ pc \in {"retire", "grow"} => ChatBacked(token, 2)

\* The decision workers past their claim, in an orderly life.
Committed ==
  {p \in Children : child[p].role = "decision" /\ child[p].st \in {"claimed", "loaded", "serving"}}

\* The record is the claimant's; the manager has no other decision worker.
Holder(p) ==
  /\ Owned("decision", child[p].owner)
  /\ file["decision"].bytes >= DecisionBytes
  /\ file["decision"].claimed = p
  /\ tracked["decision"] = IF child[p].ours THEN p ELSE Absent

DecisionInv ==
  /\ \A p \in Committed : Holder(p) \/ Lost("decision", child[p].owner)
  /\ pc \in {"chat", "decision"} => \A p \in Committed : Lost("decision", child[p].owner)

RecordInv == LostInv /\ ChatInv /\ DecisionInv

IInv == BaseInv /\ RecordInv

----------------------------------------------------------------------------
(* Facts used throughout.                                                  *)

LEMMA Constant ==
  /\ "chat" \in Roles /\ "decision" \in Roles /\ Roles = {"chat", "decision"}
  /\ Roles \subseteq Names /\ Absent \notin Children /\ Absent \notin Tokens
  /\ Absent \notin Record
  /\ Launches \cap Roles = {} /\ Launches \subseteq Names
  /\ ChatBytes[1] \in Nat /\ ChatBytes[2] \in Nat /\ ChatBytes[1] <= ChatBytes[2]
  /\ DecisionBytes \in Nat /\ DecisionWeights \in Nat
BY PairsAssumption, SMT DEF Roles, Launches

LEMMA LiveFacts ==
  ASSUME ShapeInv
  PROVE  /\ Live \subseteq Children /\ Absent \notin Live /\ Committed \subseteq Live
         /\ \A r \in Roles : tracked[r] \in Children \cup {Absent}
         /\ Tracked \subseteq Children
         /\ \A r \in Roles : tracked[r] \in Live => tracked[r] \in Tracked
         /\ \A p \in Live : child[p] \in Process
BY Constant DEF ShapeInv, Live, Committed, Tracked

\* managed.terminate ends the processes of S but for those of V.
LEMMA TerminateEffect ==
  ASSUME ShapeInv, NEW S, NEW V, Terminate(S, V)
  PROVE  /\ child' \in [Children -> Process] /\ doomed' \subseteq Live'
         /\ Live' = Live \ (S \ V)
         /\ \A p \in Live' : child'[p] = child[p]
         /\ doomed' = (doomed \cup V) \ (S \ V)
         /\ V \subseteq S \cap Live
         /\ Committed' = Committed \ (S \ V)
<1>1. NoChild \in Process /\ NoChild.st = "dead"
      BY DEF NoChild, Process, Roles
<1>2. /\ V \subseteq S \cap Live
      /\ child' = [p \in Children |-> IF p \in S \ V THEN NoChild ELSE child[p]]
      /\ doomed' = (doomed \cup V) \ (S \ V)
      BY DEF Terminate, Died
<1>3. child \in [Children -> Process] /\ doomed \subseteq Live
      BY DEF ShapeInv
<1>4. child' \in [Children -> Process]
      BY <1>1, <1>2, <1>3
<1>5. Live' = Live \ (S \ V)
      BY <1>1, <1>2, <1>3 DEF Live
<1>6. \A p \in Live' : child'[p] = child[p]
      BY <1>2, <1>5 DEF Live
<1>7. Committed' = Committed \ (S \ V)
      BY <1>1, <1>2, <1>3 DEF Committed
<1>8. QED
      BY <1>2, <1>3, <1>4, <1>5, <1>6, <1>7

\* After it every worker of the pair is dead, or doomed and still tracked.
LEMMA StopEffect ==
  ASSUME ShapeInv, NEW V \in SUBSET Tracked, TerminateAll(V)
  PROVE  /\ tracked' \in [Roles -> Children \cup {Absent}]
         /\ \A r \in Roles : tracked'[r] \in V \/ tracked'[r] = Absent
         /\ \A r \in Roles : tracked'[r] = IF tracked[r] \in V THEN tracked[r] ELSE Absent
         /\ \A r \in Roles : tracked'[r] \notin Live' \ doomed'
         /\ Live' = Live \ (Tracked \ V) /\ V \subseteq Live
         /\ Terminate(Tracked, V)
<1>1. Terminate(Tracked, V)
      BY DEF TerminateAll
<1>2. tracked' = [r \in Roles |-> IF tracked[r] \in V THEN tracked[r] ELSE Absent]
      BY DEF TerminateAll
<1>3. /\ Live' = Live \ (Tracked \ V)
      /\ doomed' = (doomed \cup V) \ (Tracked \ V)
      /\ V \subseteq Tracked \cap Live
      BY <1>1, TerminateEffect
<1>4. Absent \notin Live
      BY LiveFacts
<1>5. QED
      BY <1>1, <1>2, <1>3, <1>4, LiveFacts

\* A new worker is a process that nothing refers to.
LEMMA SpawnEffect ==
  ASSUME ShapeInv, NEW role \in Roles, NEW owner \in Tokens \cup {Absent}, NEW c \in 1..2,
         Spawn(role, owner, c)
  PROVE  /\ child' \in [Children -> Process]
         /\ tracked' \in [Roles -> Children \cup {Absent}]
         /\ doomed' = doomed /\ doomed \subseteq Live'
         /\ \E p \in Children \ (Live \cup Tracked) :
              /\ Live' = Live \cup {p}
              /\ p \notin doomed
              /\ tracked' = [tracked EXCEPT ![role] = p]
              /\ tracked'[role] = p
              /\ \A r \in Roles \ {role} : tracked'[r] = tracked[r]
              /\ child'[p].st = "boot" /\ child'[p].role = role /\ child'[p].owner = owner
              /\ child'[p].context = c /\ child'[p].ours
              /\ \A q \in Live : child'[q] = child[q]
         /\ Committed' = Committed
<1>1. PICK p \in SpareChildren :
        /\ child' = [child EXCEPT ![p] = [st |-> "boot", role |-> role, owner |-> owner,
                                          context |-> c, ours |-> TRUE]]
        /\ tracked' = [tracked EXCEPT ![role] = p]
      BY DEF Spawn
<1>2. p \in Children \ (Live \cup Tracked)
      BY DEF SpareChildren
<1>3. /\ child \in [Children -> Process] /\ doomed \subseteq Live
      /\ tracked \in [Roles -> Children \cup {Absent}]
      BY DEF ShapeInv
<1>4. [st |-> "boot", role |-> role, owner |-> owner, context |-> c, ours |-> TRUE] \in Process
      BY DEF Process
<1>5. child' \in [Children -> Process] /\ child'[p].st = "boot" /\ child'[p].role = role
      /\ child'[p].owner = owner /\ child'[p].context = c /\ child'[p].ours
      BY <1>1, <1>2, <1>3, <1>4
<1>6. \A q \in Children \ {p} : child'[q] = child[q]
      BY <1>1, <1>3
<1>7. Live' = Live \cup {p}
      BY <1>2, <1>5, <1>6 DEF Live
<1>8. Committed' = Committed
  <2>1. p \notin Committed
        BY <1>2 DEF Committed, Live
  <2>2. p \notin Committed'
        BY <1>5 DEF Committed
  <2>3. QED
        BY <2>1, <2>2, <1>6 DEF Committed
<1>9. /\ tracked' \in [Roles -> Children \cup {Absent}] /\ tracked'[role] = p
      /\ \A r \in Roles \ {role} : tracked'[r] = tracked[r]
      BY <1>1, <1>2, <1>3
<1>10. doomed' = doomed /\ doomed \subseteq Live' /\ p \notin doomed
      BY <1>2, <1>3, <1>7 DEF Spawn
<1>11. \A q \in Live : child'[q] = child[q]
      BY <1>2, <1>6 DEF Live
<1>12. QED
      BY <1>1, <1>2, <1>5, <1>7, <1>8, <1>9, <1>10, <1>11

\* A step of a worker moves it alone, and it was neither dead nor doomed.
LEMMA MoveEffect ==
  ASSUME ShapeInv, NEW p \in Children, NEW role \in Roles,
         NEW from \in {"boot", "claimed", "loaded", "serving"},
         NEW to \in {"claimed", "loaded", "serving", "leaving"},
         Moves(p, role, from, to)
  PROVE  /\ child' \in [Children -> Process]
         /\ Live' = Live /\ doomed' = doomed /\ tracked' = tracked
         /\ p \in Live \ doomed
         /\ child[p].role = role /\ child[p].st = from /\ child'[p].st = to
         /\ \A q \in Children : /\ child'[q].role = child[q].role
                                /\ child'[q].owner = child[q].owner
                                /\ child'[q].context = child[q].context
                                /\ child'[q].ours = child[q].ours
                                /\ q # p => child'[q].st = child[q].st
         /\ UNCHANGED <<launch, pc, managerVars, available, pollVars>>
<1>1. /\ child[p].role = role /\ child[p].st = from /\ p \notin doomed
      /\ child' = [child EXCEPT ![p].st = to]
      /\ UNCHANGED <<doomed, launch, pc, managerVars, available, pollVars>>
      BY DEF Moves
<1>2. child \in [Children -> Process]
      BY DEF ShapeInv
<1>3. child' \in [Children -> Process]
      BY <1>1, <1>2 DEF Process
<1>4. child'[p].st = to /\ \A q \in Children : q # p => child'[q] = child[q]
      BY <1>1, <1>2
<1>5. \A q \in Children : /\ child'[q].role = child[q].role
                          /\ child'[q].owner = child[q].owner
                          /\ child'[q].context = child[q].context
                          /\ child'[q].ours = child[q].ours
      BY <1>1, <1>2 DEF Process
<1>6. Live' = Live /\ p \in Live
      BY <1>1, <1>4 DEF Live
<1>7. QED
      BY <1>1, <1>3, <1>4, <1>5, <1>6 DEF managerVars

-----------------------------------------------------------------------------
(* The file keeps its shape.                                               *)

FileType == file \in [Names -> Record \cup {Absent}]

LEMMA FileFacts ==
  ASSUME FileType
  PROVE  /\ \A n \in Held : file[n] \in Record
         /\ \A S : Without(S) \in [Names -> Record \cup {Absent}]
         /\ \A b \in Nat, o \in Tokens \cup {Absent} : Pending(b, o) \in Record
         /\ \A n \in Held, b \in Nat : [file EXCEPT ![n].bytes = b] \in [Names -> Record \cup {Absent}]
         /\ \A n \in Held, p \in Children :
              [file EXCEPT ![n].claimed = p] \in [Names -> Record \cup {Absent}]
         /\ \A n \in Held, b \in Nat :
              [file EXCEPT ![n].state = "resident", ![n].floor = b] \in [Names -> Record \cup {Absent}]
         /\ \A n \in Names, r \in Record : [file EXCEPT ![n] = r] \in [Names -> Record \cup {Absent}]
<1>1. \A n \in Held : file[n] \in Record
      BY DEF FileType, Held
<1>2. \A S : Without(S) \in [Names -> Record \cup {Absent}]
      BY DEF FileType, Without
<1>3. \A b \in Nat, o \in Tokens \cup {Absent} : Pending(b, o) \in Record
      BY DEF Pending, Record
<1>4. \A n \in Held : n \in Names
      BY DEF Held
<1>5. ASSUME NEW n \in Held, NEW r \in Record
      PROVE  [file EXCEPT ![n] = r] \in [Names -> Record \cup {Absent}]
      BY DEF FileType
<1>6. ASSUME NEW n \in Held, NEW b \in Nat
      PROVE  [file EXCEPT ![n].bytes = b] \in [Names -> Record \cup {Absent}]
  <2>1. [file[n] EXCEPT !.bytes = b] \in Record
        BY <1>1 DEF Record
  <2>2. QED
        BY <2>1 DEF FileType
<1>7. ASSUME NEW n \in Held, NEW p \in Children
      PROVE  [file EXCEPT ![n].claimed = p] \in [Names -> Record \cup {Absent}]
  <2>1. [file[n] EXCEPT !.claimed = p] \in Record
        BY <1>1 DEF Record
  <2>2. QED
        BY <2>1 DEF FileType
<1>8. ASSUME NEW n \in Held, NEW b \in Nat
      PROVE  [file EXCEPT ![n].state = "resident", ![n].floor = b]
                \in [Names -> Record \cup {Absent}]
  <2>1. [file[n] EXCEPT !.state = "resident", !.floor = b] \in Record
        BY <1>1 DEF Record
  <2>2. QED
        BY <2>1, <1>4 DEF FileType
<1>9. \A n \in Names, r \in Record : [file EXCEPT ![n] = r] \in [Names -> Record \cup {Absent}]
      BY DEF FileType
<1>10. QED
       BY <1>1, <1>2, <1>3, <1>6, <1>7, <1>8, <1>9

LEMMA FileStep ==
  ASSUME ShapeInv, [Next]_vars
  PROVE  FileType'
<1>1. /\ FileType /\ child \in [Children -> Process]
      /\ token \in Tokens \cup {Absent}
      BY DEF ShapeInv, FileType
<1>2. ASSUME file' = file PROVE FileType'
      BY <1>1, <1>2 DEF FileType
<1>3. ASSUME NEW S, file' = Without(S) PROVE FileType'
      BY <1>1, <1>3, FileFacts DEF FileType
<1>4. CASE Setup \/ AdoptSaved
      BY <1>2, <1>4 DEF Setup, AdoptSaved
<1>5. ASSUME NEW next, StopTo(next) PROVE FileType'
      BY <1>2, <1>3, <1>5 DEF StopTo
<1>6. CASE Start
  <2>1. CASE StartBegins
        BY <2>1, <1>2, <1>5 DEF StartBegins
  <2>2. CASE Settle \/ CleanUp
        BY <2>2, <1>3 DEF Settle, CleanUp
  <2>3. CASE Admit
    <3>1. PICK owner \in Tokens : AdmitBatch(PairItems, owner, available)
          BY <2>3 DEF Admit, SpareTokens
    <3>2. \A r \in Roles : Pending(PairItems[r], owner) \in Record
          BY Constant, <1>1, FileFacts DEF PairItems, Bytes
    <3>3. QED
          BY <3>1, <3>2, <1>1 DEF AdmitBatch, FileType, PairItems
  <2>4. CASE AdmitRefused \/ (\E r \in Roles : SpawnWorker(r)) \/ ChatHealthy \/ DecisionHealthy
             \/ StartFails
        BY <2>4, <1>2 DEF AdmitRefused, SpawnWorker, ChatHealthy, DecisionHealthy, StartFails
  <2>5. QED
        BY <1>6, <2>1, <2>2, <2>3, <2>4 DEF Start
<1>7. CASE EnsureContext
  <2>1. CASE GrowBegins \/ ResizeRefused \/ Retire \/ Grow \/ GrownHealthy \/ GrownFails
        BY <2>1, <1>2 DEF GrowBegins, ResizeRefused, Retire, Grow, GrownHealthy, GrownFails
  <2>2. CASE Resize \/ Restore
    <3>1. ASSUME NEW b \in Nat, ResizeReservation("chat", b, token, available)
          PROVE  FileType'
          BY <3>1, <1>1, FileFacts DEF ResizeReservation, CanResize, Owned, FileType
    <3>2. QED
          BY <2>2, <3>1, <1>2, Constant DEF Resize, Restore, Restores
  <2>3. CASE Drop \/ Fallback \/ FallbackEnds
        BY <2>3, <1>2, <1>5 DEF Drop, Fallback, FallbackEnds
  <2>4. QED
        BY <1>7, <2>1, <2>2, <2>3 DEF EnsureContext
<1>8. CASE Status
      BY <1>8, <1>2, <1>3 DEF Status, StatusBegins, StatusReads, StatusClears
<1>9. CASE Crash
  <2>1. file' = [n \in Names |-> IF n \in Held THEN [file[n] EXCEPT !.ours = FALSE] ELSE Absent]
        BY <1>9 DEF Crash
  <2>2. ASSUME NEW n \in Held PROVE [file[n] EXCEPT !.ours = FALSE] \in Record
    <3>1. file[n] \in Record
          BY <1>1, FileFacts
    <3>2. QED
          BY <3>1 DEF Record
  <2>3. QED
        BY <2>1, <2>2 DEF FileType
<1>10. ASSUME NEW p \in Children,
              ChatLoads(p) \/ Claims(p) \/ DecisionLoads(p) \/ Relabels(p) \/ Leaves(p) \/ Exits(p)
       PROVE  FileType'
  <2>1. CASE ChatLoads(p) \/ DecisionLoads(p) \/ Exits(p)
        BY <2>1, <1>2 DEF ChatLoads, DecisionLoads, Exits
  <2>2. CASE Claims(p)
        BY <2>2, <1>1, FileFacts DEF Claims, ClaimReservation, Owned, FileType
  <2>3. CASE Relabels(p)
        BY <2>3, <1>1, FileFacts, Constant DEF Relabels, SetResident, Owned, FileType
  <2>4. CASE Leaves(p)
        BY <2>4, <1>2, <1>3 DEF Leaves
  <2>5. QED
        BY <1>10, <2>1, <2>2, <2>3, <2>4
<1>11. ASSUME NEW l \in Launches,
              LaunchAdmitted(l) \/ LaunchLoads(l) \/ LaunchDies(l) \/ LaunchClears(l)
       PROVE  FileType'
  <2>1. CASE LaunchAdmitted(l)
    <3>1. PICK b \in LaunchBytes : AdmitAndReserve(l, b, Absent, AvailableWithout({}))
          BY <2>1 DEF LaunchAdmitted
    <3>2. b \in Nat
          BY PairsAssumption
    <3>3. Pending(b, Absent) \in Record /\ l \in Names
          BY <3>2, <1>1, FileFacts, Constant
    <3>4. QED
          BY <3>1, <3>3, <1>1, FileFacts DEF AdmitAndReserve, FileType
  <2>2. CASE LaunchLoads(l) \/ LaunchDies(l) \/ LaunchClears(l)
        BY <2>2, <1>2, <1>3 DEF LaunchLoads, LaunchDies, LaunchClears
  <2>3. QED
        BY <1>11, <2>1, <2>2
<1>12. CASE UNCHANGED vars
       BY <1>12, <1>2 DEF vars
<1>13. QED
       BY <1>4, <1>5, <1>6, <1>7, <1>8, <1>9, <1>10, <1>11, <1>12 DEF Next, Stop

-----------------------------------------------------------------------------
(* What a step does to the workers.                                        *)

Still == UNCHANGED <<child, doomed, tracked>>

ChatEnds == \E V : Terminate({tracked["chat"]}, V) /\ tracked' = tracked

AllEnd == \E V \in SUBSET Tracked : TerminateAll(V)

Starts ==
  \E role \in Roles, c \in 1..2 :
    /\ Spawn(role, token, c) /\ Over(role)
    /\ role = "chat" => pc' # "chat" /\ (pc = "chat" \/ tracked["chat"] \notin Live)
    /\ role = "decision" => pc = "decision" /\ pc' = "health_chat"

Steps(p) ==
  \E role \in Roles, from \in {"boot", "claimed", "loaded", "serving"},
     to \in {"claimed", "loaded", "serving", "leaving"} : Moves(p, role, from, to)

Works(p) ==
  ChatLoads(p) \/ Claims(p) \/ DecisionLoads(p) \/ Relabels(p) \/ Leaves(p) \/ Exits(p)

LEMMA WorkKinds == \A p \in Children : Works(p) => Steps(p) \/ Exits(p)
BY Constant DEF Works, ChatLoads, Claims, DecisionLoads, Relabels, Leaves, Steps

\* Every step starts one worker, ends some, moves one, or leaves them alone.
LEMMA StepKinds ==
  ASSUME ShapeInv, StageInv, [Next]_vars
  PROVE  \/ Still \/ ChatEnds \/ AllEnd \/ Starts \/ Crash
         \/ \E p \in Children : Works(p)
<1>1. CASE Setup \/ AdoptSaved
      BY <1>1 DEF Setup, AdoptSaved, workerVars, Still
<1>2. ASSUME NEW next, StopTo(next) PROVE AllEnd
      BY <1>2 DEF StopTo, AllEnd
<1>3. CASE Start
  <2>1. CASE StartBegins \/ Settle \/ CleanUp
        BY <2>1, <1>2 DEF StartBegins, Settle, CleanUp, workerVars, Still, AllEnd
  <2>2. CASE Admit \/ AdmitRefused \/ ChatHealthy \/ DecisionHealthy \/ StartFails
        BY <2>2 DEF Admit, AdmitRefused, ChatHealthy, DecisionHealthy, StartFails,
                    workerVars, managerVars, Still
  <2>3. ASSUME NEW r \in Roles, SpawnWorker(r) PROVE Starts
    <3>1. Spawn(r, token, 1) /\ pc = r /\ pc' = AfterSpawn(r)
          BY <2>3 DEF SpawnWorker
    <3>2. Over(r)
          BY <3>1, Constant DEF StageInv
    <3>3. QED
          BY <3>1, <3>2 DEF Starts, AfterSpawn
  <2>4. QED
        BY <1>3, <2>1, <2>2, <2>3 DEF Start
<1>4. CASE EnsureContext
  <2>1. CASE GrowBegins \/ ResizeRefused \/ Resize \/ Restore \/ GrownHealthy \/ GrownFails
        BY <2>1 DEF GrowBegins, ResizeRefused, Resize, Restore, GrownHealthy, GrownFails,
                    workerVars, managerVars, Still
  <2>2. CASE Retire
        BY <2>2 DEF Retire, managerVars, ChatEnds
  <2>3. CASE Drop
        BY <2>3, <1>2 DEF Drop, managerVars, ChatEnds
  <2>4. ASSUME NEW c \in 1..2, Spawn("chat", token, c), pc \in {"grow", "fallback"},
               pc' # "chat"
        PROVE  Starts
        BY <2>4, Constant DEF Starts, StageInv, Over
  <2>5. CASE Grow \/ Fallback
        BY <2>5, <2>4, <1>2 DEF Grow, Fallback, workerVars, Still
  <2>6. CASE FallbackEnds
        BY <2>6, <1>2 DEF FallbackEnds, workerVars, managerVars, Still
  <2>7. QED
        BY <1>4, <2>1, <2>2, <2>3, <2>5, <2>6 DEF EnsureContext
<1>5. CASE Status
      BY <1>5 DEF Status, StatusBegins, StatusReads, StatusClears, workerVars, managerVars, Still
<1>6. ASSUME NEW p \in Children,
             ChatLoads(p) \/ Claims(p) \/ DecisionLoads(p) \/ Relabels(p) \/ Leaves(p) \/ Exits(p)
      PROVE  Works(p)
      BY <1>6 DEF Works
<1>7. ASSUME NEW l \in Launches,
             LaunchAdmitted(l) \/ LaunchLoads(l) \/ LaunchDies(l) \/ LaunchClears(l)
      PROVE  Still
      BY <1>7 DEF LaunchAdmitted, LaunchLoads, LaunchDies, LaunchClears, LaunchGo,
                  workerVars, managerVars, Still
<1>8. CASE UNCHANGED vars
      BY <1>8 DEF vars, workerVars, managerVars, Still
<1>9. QED
      BY <1>1, <1>2, <1>3, <1>4, <1>5, <1>6, <1>7, <1>8 DEF Next, Stop

\* Only status(), a restart and the admission of a pair move what status() keeps.
LEMMA PollMoves ==
  ASSUME [Next]_vars
  PROVE  \/ Status \/ Crash \/ UNCHANGED pollVars
         \/ Admit /\ UNCHANGED <<poll, seen, targets>>
<1>1. ASSUME NEW next, StopTo(next) PROVE UNCHANGED pollVars
      BY <1>1 DEF StopTo
<1>2. CASE Setup \/ AdoptSaved \/ Stop
      BY <1>1, <1>2 DEF Setup, AdoptSaved, Stop
<1>3. CASE Start
  <2>1. CASE Admit
        BY <2>1 DEF Admit
  <2>2. QED
        BY <1>1, <1>3, <2>1 DEF Start, StartBegins, Settle, AdmitRefused, SpawnWorker, ChatHealthy,
                                DecisionHealthy, StartFails, CleanUp
<1>4. CASE EnsureContext
      BY <1>1, <1>4 DEF EnsureContext, GrowBegins, ResizeRefused, Resize, Retire, Grow, Restore,
                        GrownHealthy, GrownFails, Drop, Fallback, FallbackEnds
<1>5. ASSUME NEW p \in Children,
             ChatLoads(p) \/ Claims(p) \/ DecisionLoads(p) \/ Relabels(p) \/ Leaves(p) \/ Exits(p)
      PROVE  UNCHANGED pollVars
      BY <1>5 DEF ChatLoads, Claims, DecisionLoads, Relabels, Leaves, Exits, Moves
<1>6. ASSUME NEW l \in Launches,
             LaunchAdmitted(l) \/ LaunchLoads(l) \/ LaunchDies(l) \/ LaunchClears(l)
      PROVE  UNCHANGED pollVars
      BY <1>6 DEF LaunchAdmitted, LaunchLoads, LaunchDies, LaunchClears, LaunchGo
<1>7. CASE UNCHANGED vars
      BY <1>7 DEF vars
<1>8. QED
      BY <1>2, <1>3, <1>4, <1>5, <1>6, <1>7 DEF Next

\* The records that status() is about to clear are the roles'.
LEMMA TargetStep ==
  ASSUME ShapeInv, [Next]_vars
  PROVE  targets' \subseteq Roles \X (Tokens \cup {Absent})
<1>1. targets \subseteq Roles \X (Tokens \cup {Absent}) /\ FileType
      BY DEF ShapeInv, FileType
<1>2. CASE UNCHANGED targets \/ targets' = {}
      BY <1>1, <1>2
<1>3. CASE StatusReads
  <2>1. ASSUME NEW n \in Reaped(seen, Live) PROVE n \in Roles /\ n \in Held
        BY <2>1 DEF Reaped
  <2>2. \A n \in Held : file[n].owner \in Tokens \cup {Absent}
        BY <1>1, FileFacts DEF Record
  <2>3. QED
        BY <1>3, <2>1, <2>2 DEF StatusReads
<1>4. QED
      BY <1>2, <1>3, PollMoves
      DEF Status, StatusBegins, StatusClears, Crash, pollVars

LEMMA WorkerStep ==
  ASSUME ShapeInv, TrackInv, StageInv, [Next]_vars
  PROVE  /\ child' \in [Children -> Process] /\ doomed' \subseteq Live'
         /\ tracked' \in [Roles -> Children \cup {Absent}]
         /\ TrackInv'
<1>1. /\ child \in [Children -> Process] /\ doomed \subseteq Live
      /\ tracked \in [Roles -> Children \cup {Absent}]
      BY DEF ShapeInv
<1>2. CASE Still
      BY <1>1, <1>2 DEF Still, TrackInv, Live
<1>3. CASE ChatEnds
  <2>1. PICK V : Terminate({tracked["chat"]}, V) /\ tracked' = tracked
        BY <1>3 DEF ChatEnds
  <2>2. /\ child' \in [Children -> Process] /\ doomed' \subseteq Live'
        /\ Live' = Live \ ({tracked["chat"]} \ V)
        /\ \A p \in Live' : child'[p] = child[p]
        /\ doomed' = (doomed \cup V) \ ({tracked["chat"]} \ V)
        BY <2>1, TerminateEffect
  <2>3. QED
        BY <1>1, <2>1, <2>2 DEF TrackInv
<1>4. CASE AllEnd
  <2>1. PICK V \in SUBSET Tracked : TerminateAll(V)
        BY <1>4 DEF AllEnd
  <2>2. /\ tracked' \in [Roles -> Children \cup {Absent}]
        /\ \A r \in Roles : tracked'[r] = IF tracked[r] \in V THEN tracked[r] ELSE Absent
        /\ Terminate(Tracked, V)
        BY <2>1, StopEffect
  <2>3. /\ child' \in [Children -> Process] /\ doomed' \subseteq Live'
        /\ Live' = Live \ (Tracked \ V)
        /\ \A p \in Live' : child'[p] = child[p]
        /\ doomed' = (doomed \cup V) \ (Tracked \ V)
        BY <2>2, TerminateEffect
  <2>4. Absent \notin Live' /\ \A p \in Live : child[p].role \in Roles
        BY <2>3, LiveFacts DEF Process
  <2>5. ASSUME NEW p \in Live' \ doomed', child'[p].ours PROVE FALSE
    <3>1. p \in Live \ doomed /\ p \notin V /\ p \notin Tracked /\ child[p].ours
          BY <2>3, <2>5
    <3>2. tracked[child[p].role] = p
          BY <3>1 DEF TrackInv
    <3>3. QED
          BY <3>1, <3>2, <2>4, LiveFacts
  <2>6. QED
        BY <2>2, <2>3, <2>4, <2>5 DEF TrackInv
<1>5. CASE Starts
  <2>1. PICK role \in Roles, c \in 1..2 : Spawn(role, token, c) /\ Over(role)
        BY <1>5 DEF Starts
  <2>2. token \in Tokens \cup {Absent}
        BY DEF ShapeInv
  <2>3. /\ child' \in [Children -> Process] /\ doomed' \subseteq Live' /\ doomed' = doomed
        /\ tracked' \in [Roles -> Children \cup {Absent}]
        BY <2>1, <2>2, SpawnEffect
  <2>4. PICK p \in Children \ (Live \cup Tracked) :
          /\ Live' = Live \cup {p}
          /\ tracked'[role] = p
          /\ \A r \in Roles \ {role} : tracked'[r] = tracked[r]
          /\ child'[p].role = role /\ child'[p].ours
          /\ \A q \in Live : child'[q] = child[q]
        BY <2>1, <2>2, SpawnEffect
  <2>5. \A r \in Roles : tracked[r] # p
        BY <2>4, Constant DEF Tracked
  <2>6. \A q \in Live : child[q].role \in Roles
        BY <1>1 DEF Live, Process
  <2>7. ASSUME NEW q \in Live' \ doomed', child'[q].ours
        PROVE  tracked'[child'[q].role] = q
        BY <2>1, <2>3, <2>4, <2>6, <2>7 DEF TrackInv, Over
  <2>8. ASSUME NEW r \in Roles, tracked'[r] \in Live'
        PROVE  child'[tracked'[r]].role = r /\ child'[tracked'[r]].ours
        BY <2>4, <2>5, <2>8 DEF TrackInv
  <2>9. QED
        BY <2>3, <2>7, <2>8 DEF TrackInv
<1>6. CASE Crash
  <2>1. /\ child' = [p \in Children |-> [child[p] EXCEPT !.ours = FALSE]]
        /\ tracked' = NoChildren /\ doomed' = doomed
        BY <1>6 DEF Crash
  <2>2. child' \in [Children -> Process]
        BY <2>1, <1>1 DEF Process
  <2>3. \A p \in Children : ~child'[p].ours /\ child'[p].st = child[p].st
        BY <2>1, <1>1 DEF Process
  <2>4. Live' = Live
        BY <2>3 DEF Live
  <2>5. QED
        BY <2>1, <2>2, <2>3, <2>4, <1>1, LiveFacts DEF TrackInv, NoChildren, Live
<1>7. ASSUME NEW p \in Children, Steps(p)
      PROVE  /\ child' \in [Children -> Process] /\ doomed' \subseteq Live'
             /\ tracked' \in [Roles -> Children \cup {Absent}]
             /\ TrackInv'
  <2>1. PICK role \in Roles, from \in {"boot", "claimed", "loaded", "serving"},
             to \in {"claimed", "loaded", "serving", "leaving"} : Moves(p, role, from, to)
        BY <1>7 DEF Steps
  <2>2. /\ child' \in [Children -> Process]
        /\ Live' = Live /\ doomed' = doomed /\ tracked' = tracked
        /\ \A q \in Children : child'[q].role = child[q].role /\ child'[q].ours = child[q].ours
        BY <2>1, MoveEffect
  <2>3. QED
        BY <2>2, <1>1, LiveFacts DEF TrackInv
<1>8. ASSUME NEW p \in Children, Exits(p)
      PROVE  /\ child' \in [Children -> Process] /\ doomed' \subseteq Live'
             /\ tracked' \in [Roles -> Children \cup {Absent}]
             /\ TrackInv'
  <2>1. Terminate({p}, {}) /\ tracked' = tracked
        BY <1>8 DEF Exits, Terminate, managerVars, Died
  <2>2. /\ child' \in [Children -> Process] /\ doomed' \subseteq Live'
        /\ Live' = Live \ {p} /\ doomed' = doomed \ {p}
        /\ \A q \in Live' : child'[q] = child[q]
        BY <2>1, TerminateEffect
  <2>3. QED
        BY <2>1, <2>2, <1>1 DEF TrackInv
<1>9. QED
      BY <1>2, <1>3, <1>4, <1>5, <1>6, <1>7, <1>8, StepKinds, WorkKinds

LEMMA ShapeStep == ShapeInv /\ TrackInv /\ StageInv /\ [Next]_vars => ShapeInv'
<1> SUFFICES ASSUME ShapeInv, TrackInv, StageInv, [Next]_vars PROVE ShapeInv'
    OBVIOUS
<1>1. FileType'
      BY FileStep
<1>2. /\ child' \in [Children -> Process] /\ doomed' \subseteq Live'
      /\ tracked' \in [Roles -> Children \cup {Absent}]
      BY WorkerStep
<1>3. token \in Tokens \cup {Absent} /\ context \in 0..2
      BY DEF ShapeInv
<1>4. token' \in Tokens \cup {Absent} /\ context' \in 0..2
  <2>1. CASE token' = token /\ context' = context
        BY <2>1, <1>3
  <2>2. ASSUME NEW next, StopTo(next) PROVE token' = token /\ context' \in 0..2
        BY <2>2 DEF StopTo
  <2>3. CASE Setup \/ AdoptSaved \/ Status
        BY <2>1, <2>3 DEF Setup, AdoptSaved, Status, StatusBegins, StatusReads, StatusClears,
                          managerVars
  <2>4. CASE Start
    <3>1. CASE StartBegins
          BY <3>1, <2>1, <2>2, <1>3 DEF StartBegins
    <3>2. CASE Admit
          BY <3>2, <1>3 DEF Admit, SpareTokens
    <3>3. CASE Settle \/ AdmitRefused \/ (\E r \in Roles : SpawnWorker(r)) \/ ChatHealthy
               \/ DecisionHealthy \/ StartFails \/ CleanUp
          BY <3>3, <2>1 DEF Settle, AdmitRefused, SpawnWorker, ChatHealthy, DecisionHealthy,
                            StartFails, CleanUp, managerVars
    <3>4. QED
          BY <2>4, <3>1, <3>2, <3>3 DEF Start
  <2>5. CASE EnsureContext
    <3>1. CASE GrowBegins \/ ResizeRefused \/ Resize \/ Retire \/ Grow \/ Restore \/ GrownFails
          BY <3>1, <2>1 DEF GrowBegins, ResizeRefused, Resize, Retire, Grow, Restore, GrownFails,
                            managerVars
    <3>2. CASE GrownHealthy
          BY <3>2, <1>3 DEF GrownHealthy
    <3>3. CASE Drop \/ Fallback \/ FallbackEnds
          BY <3>3, <2>1, <2>2, <1>3 DEF Drop, Fallback, FallbackEnds, managerVars
    <3>4. QED
          BY <2>5, <3>1, <3>2, <3>3 DEF EnsureContext
  <2>6. CASE Crash
        BY <2>6 DEF Crash
  <2>7. ASSUME NEW p \in Children,
               ChatLoads(p) \/ Claims(p) \/ DecisionLoads(p) \/ Relabels(p) \/ Leaves(p)
               \/ Exits(p)
        PROVE  token' = token /\ context' = context
        BY <2>7 DEF ChatLoads, Claims, DecisionLoads, Relabels, Leaves, Exits, Moves, managerVars
  <2>8. ASSUME NEW l \in Launches,
               LaunchAdmitted(l) \/ LaunchLoads(l) \/ LaunchDies(l) \/ LaunchClears(l)
        PROVE  token' = token /\ context' = context
        BY <2>8 DEF LaunchAdmitted, LaunchLoads, LaunchDies, LaunchClears, LaunchGo, managerVars
  <2>9. CASE UNCHANGED vars
        BY <2>9, <2>1 DEF vars, managerVars
  <2>10. QED
         BY <2>1, <2>2, <2>3, <2>4, <2>5, <2>6, <2>7, <2>8, <2>9, <1>3 DEF Next, Stop
<1>5. QED
      BY <1>1, <1>2, <1>4, TargetStep DEF ShapeInv, FileType

LEMMA TrackStep == ShapeInv /\ TrackInv /\ StageInv /\ [Next]_vars => TrackInv'
BY WorkerStep

-----------------------------------------------------------------------------
(* The stages of an operation, and the context.                            *)

\* A step of a worker, of a launch or of status(): the operation stays where it
\* is, and no worker comes to life.
Beside ==
  /\ UNCHANGED <<pc, tracked, context, token>>
  /\ state' \in {state, "down"}
  /\ Live' \subseteq Live /\ Live' \ doomed' \subseteq Live \ doomed
  /\ \A p \in Live' : /\ child'[p].context = child[p].context
                      /\ child'[p].owner = child[p].owner

LEMMA BesideSteps ==
  ASSUME ShapeInv
  PROVE  /\ Status => Beside
         /\ \A p \in Children : Steps(p) \/ Exits(p) => Beside
         /\ \A l \in Launches :
              LaunchAdmitted(l) \/ LaunchLoads(l) \/ LaunchDies(l) \/ LaunchClears(l) => Beside
         /\ UNCHANGED vars => Beside
<1>1. ASSUME UNCHANGED <<child, doomed, pc, tracked, context, token>>, state' \in {state, "down"}
      PROVE  Beside
      BY <1>1 DEF Beside, Live
<1>2. CASE Status
      BY <1>1, <1>2 DEF Status, StatusBegins, StatusReads, StatusClears, workerVars, managerVars
<1>3. ASSUME NEW p \in Children, Steps(p) PROVE Beside
  <2>1. PICK role \in Roles, from \in {"boot", "claimed", "loaded", "serving"},
             to \in {"claimed", "loaded", "serving", "leaving"} : Moves(p, role, from, to)
        BY <1>3 DEF Steps
  <2>2. /\ Live' = Live /\ doomed' = doomed /\ tracked' = tracked
        /\ \A q \in Children : child'[q].owner = child[q].owner
                               /\ child'[q].context = child[q].context
        /\ UNCHANGED <<launch, pc, managerVars, available, pollVars>>
        BY <2>1, MoveEffect
  <2>3. QED
        BY <2>2, LiveFacts DEF Beside, managerVars
<1>4. ASSUME NEW p \in Children, Exits(p) PROVE Beside
  <2>1. Terminate({p}, {}) /\ UNCHANGED <<pc, managerVars>>
        BY <1>4 DEF Exits, Terminate, Died
  <2>2. /\ Live' = Live \ {p} /\ doomed' = doomed \ {p}
        /\ \A q \in Live' : child'[q] = child[q]
        BY <2>1, TerminateEffect
  <2>3. QED
        BY <2>1, <2>2 DEF Beside, managerVars
<1>5. ASSUME NEW l \in Launches,
             LaunchAdmitted(l) \/ LaunchLoads(l) \/ LaunchDies(l) \/ LaunchClears(l)
      PROVE  Beside
      BY <1>5, <1>1 DEF LaunchAdmitted, LaunchLoads, LaunchDies, LaunchClears, LaunchGo,
                        workerVars, managerVars
<1>6. CASE UNCHANGED vars
      BY <1>6, <1>1 DEF vars, workerVars, managerVars
<1>7. QED
      BY <1>2, <1>3, <1>4, <1>5, <1>6

\* A stop leaves no worker that could still do anything, wherever it leads.
LEMMA StopStages ==
  ASSUME ShapeInv, NEW next \in {"free", "settle"}, StopTo(next)
  PROVE  StageInv' /\ ContextInv'
<1>1. PICK V \in SUBSET Tracked : TerminateAll(V)
      BY DEF StopTo
<1>2. context' = 0 /\ state' = "down" /\ pc' = next
      BY DEF StopTo
<1>3. QED
      BY <1>2 DEF StageInv, ContextInv, Measured

LEMMA StageStep ==
  ASSUME ShapeInv, TrackInv, StageInv, ContextInv, [Next]_vars
  PROVE  StageInv' /\ ContextInv'
<1>1. CASE Beside
      BY <1>1, Constant DEF Beside, StageInv, ContextInv, Measured, Over
<1>2. CASE Setup \/ AdoptSaved
  <2>1. UNCHANGED <<child, doomed, tracked, pc, state, context>>
        BY <1>2 DEF Setup, AdoptSaved, workerVars
  <2>2. QED
        BY <2>1 DEF StageInv, ContextInv, Measured, Over, Live
<1>3. ASSUME NEW next \in {"free", "settle"}, StopTo(next) PROVE StageInv' /\ ContextInv'
      BY <1>3, StopStages
<1>4. ASSUME NEW V \in SUBSET Tracked, TerminateAll(V)
      PROVE  \A r \in Roles : Over(r)'
      BY <1>4, StopEffect DEF Over
<1>5. CASE Start
  <2>1. CASE StartBegins
    <3>1. CASE state = "ready"
          BY <2>1, <3>1, <1>3 DEF StartBegins
    <3>2. CASE state # "ready"
          BY <2>1, <3>2 DEF StartBegins, StageInv, ContextInv, Measured
    <3>3. QED
          BY <3>1, <3>2
  <2>2. CASE Settle
    <3>1. /\ pc' \in {"free", "admit"} /\ state' = state /\ state # "ready"
          /\ \A r \in Roles : Over(r)'
          BY <2>2, <1>4 DEF Settle, ContextInv
    <3>2. QED
          BY <3>1, Constant DEF StageInv, ContextInv, Measured
  <2>3. CASE Admit
    <3>1. /\ pc = "admit" /\ pc' = "chat" /\ context' = 1 /\ state' = "starting"
          /\ UNCHANGED <<child, doomed, tracked>>
          BY <2>3 DEF Admit, workerVars
    <3>2. QED
          BY <3>1 DEF StageInv, ContextInv, Measured, Over, Live
  <2>4. CASE AdmitRefused \/ CleanUp
        BY <2>4 DEF AdmitRefused, CleanUp, StageInv, ContextInv, Measured
  <2>5. ASSUME NEW r \in Roles, SpawnWorker(r) PROVE StageInv' /\ ContextInv'
    <3>1. /\ pc = r /\ Spawn(r, token, 1) /\ context' = context /\ state' = state
          /\ pc' = IF r = "chat" THEN "decision" ELSE "health_chat"
          BY <2>5 DEF SpawnWorker, AfterSpawn
    <3>2. token \in Tokens \cup {Absent} /\ 1 \in 1..2
          BY DEF ShapeInv
    <3>3. PICK p \in Children \ (Live \cup Tracked) :
            /\ Live' = Live \cup {p}
            /\ tracked'[r] = p
            /\ \A q \in Roles \ {r} : tracked'[q] = tracked[q]
            /\ child'[p].context = 1
            /\ \A q \in Live : child'[q] = child[q]
          BY <3>1, <3>2, SpawnEffect
    <3>4. doomed' = doomed /\ \A q \in Roles : tracked[q] # p
          BY <3>1, <3>2, <3>3, SpawnEffect, Constant DEF Tracked
    <3>5. context = 1
          BY <3>1, Constant DEF ContextInv
    <3>6. CASE r = "chat"
      <4>1. tracked'["decision"] = tracked["decision"] /\ Over("decision")
            BY <3>1, <3>3, <3>6, Constant DEF StageInv
      <4>2. Over("decision")'
            BY <4>1, <3>3, <3>4, Constant DEF Over
      <4>3. QED
            BY <4>2, <3>1, <3>3, <3>5, <3>6 DEF StageInv, ContextInv, Measured
    <3>7. CASE r = "decision"
      <4>1. tracked'["chat"] = tracked["chat"]
            BY <3>3, <3>7, Constant
      <4>2. tracked'["chat"] \in Live' =>
              tracked["chat"] \in Live /\ child'[tracked["chat"]].context = 1
            BY <4>1, <3>1, <3>3, <3>4, <3>5, <3>7, Constant DEF ContextInv, Measured
      <4>3. QED
            BY <4>1, <4>2, <3>1, <3>5, <3>7 DEF StageInv, ContextInv, Measured
    <3>8. QED
          BY <3>6, <3>7, Constant
  <2>6. CASE ChatHealthy \/ DecisionHealthy \/ StartFails
    <3>1. /\ UNCHANGED <<child, doomed, tracked, context>>
          /\ \/ pc = "health_chat" /\ pc' = "health_decision"
             \/ pc = "health_decision" /\ pc' = "free"
             \/ pc' = "failed"
          BY <2>6 DEF ChatHealthy, DecisionHealthy, StartFails, workerVars, managerVars
    <3>2. QED
          BY <3>1 DEF StageInv, ContextInv, Measured, Live
  <2>7. QED
        BY <1>5, <2>1, <2>2, <2>3, <2>4, <2>5, <2>6 DEF Start
<1>6. CASE EnsureContext
  <2>1. CASE GrowBegins \/ ResizeRefused \/ Resize \/ GrownFails
    <3>1. /\ UNCHANGED <<child, doomed, tracked, context, state>>
          /\ \/ pc = "free" /\ state = "ready" /\ context = 1 /\ pc' = "resize"
             \/ pc = "resize" /\ pc' \in {"free", "retire"}
             \/ pc = "grown" /\ pc' = "drop"
          BY <2>1 DEF GrowBegins, Begins, ResizeRefused, Resize, GrownFails, workerVars, managerVars
    <3>2. Live' = Live
          BY <3>1 DEF Live
    <3>3. QED
          BY <3>1, <3>2 DEF StageInv, ContextInv, Measured
  <2>2. CASE Retire \/ (pc = "drop" /\ pc' = "restore" /\ Drop)
    <3>1. PICK V \in SUBSET {tracked["chat"]} :
            /\ Terminate({tracked["chat"]}, V) /\ UNCHANGED managerVars
            /\ \/ pc = "retire" /\ pc' = "grow" /\ V = {}
               \/ pc = "retire" /\ pc' = "keep" /\ V = {tracked["chat"]}
               \/ pc = "drop" /\ pc' = "restore" /\ V = {}
      <4>1. CASE Retire
            BY <4>1 DEF Retire
      <4>2. CASE pc = "drop" /\ pc' = "restore" /\ Drop
            BY <4>2 DEF Drop, StopTo
      <4>3. QED
            BY <2>2, <4>1, <4>2
    <3>2. /\ Live' = Live \ ({tracked["chat"]} \ V)
          /\ \A p \in Live' : child'[p] = child[p]
          /\ doomed' = (doomed \cup V) \ ({tracked["chat"]} \ V)
          BY <3>1, TerminateEffect
    <3>3. UNCHANGED <<tracked, context, state>>
          BY <3>1 DEF managerVars
    <3>4. QED
          BY <3>1, <3>2, <3>3 DEF StageInv, ContextInv, Measured, Over
  <2>3. ASSUME NEW c \in 1..2, Spawn("chat", token, c), UNCHANGED <<state, context>>,
               \/ pc = "grow" /\ c = 2 /\ pc' = "grown"
               \/ pc = "fallback" /\ c = 1 /\ pc' = "fallback_health"
        PROVE  StageInv' /\ ContextInv'
    <3>1. token \in Tokens \cup {Absent}
          BY DEF ShapeInv
    <3>2. child'[tracked'["chat"]].context = c
          BY <2>3, <3>1, SpawnEffect, Constant
    <3>3. context = 1
          BY <2>3 DEF ContextInv
    <3>4. QED
          BY <2>3, <3>2, <3>3 DEF StageInv, ContextInv, Measured
  <2>4. CASE Grow
    <3>1. CASE pc' = "grown"
          BY <2>4, <3>1, <2>3 DEF Grow
    <3>2. CASE pc' # "grown"
      <4>1. pc = "grow" /\ pc' = "keep" /\ UNCHANGED <<child, doomed, tracked, context, state>>
            BY <2>4, <3>2 DEF Grow, workerVars
      <4>2. Live' = Live
            BY <4>1 DEF Live
      <4>3. QED
            BY <4>1, <4>2 DEF StageInv, ContextInv, Measured, Over
    <3>3. QED
          BY <3>1, <3>2
  <2>5. CASE Restore
    <3>1. /\ UNCHANGED <<child, doomed, tracked, context, state>>
          /\ \/ pc = "keep" /\ pc' = "free"
             \/ pc = "restore" /\ pc' \in {"fallback", "free"}
          BY <2>5 DEF Restore, Restores, workerVars, managerVars
    <3>2. Live' = Live
          BY <3>1 DEF Live
    <3>3. QED
          BY <3>1, <3>2 DEF StageInv, ContextInv, Measured
  <2>6. CASE GrownHealthy
    <3>1. /\ UNCHANGED <<child, doomed, tracked>> /\ pc = "grown" /\ pc' = "free"
          /\ context' = 2
          BY <2>6 DEF GrownHealthy, workerVars
    <3>2. Live' = Live
          BY <3>1 DEF Live
    <3>3. QED
          BY <3>1, <3>2 DEF StageInv, ContextInv, Measured
  <2>7. CASE Drop
        BY <2>7, <2>2, <1>3 DEF Drop
  <2>8. CASE Fallback
    <3>1. CASE pc' = "fallback_health"
          BY <2>8, <3>1, <2>3, <1>3 DEF Fallback
    <3>2. CASE pc' # "fallback_health"
          BY <2>8, <3>2, <1>3 DEF Fallback
    <3>3. QED
          BY <3>1, <3>2
  <2>9. CASE FallbackEnds
    <3>1. CASE StopTo("free")
          BY <3>1, <1>3
    <3>2. CASE ~StopTo("free")
      <4>1. /\ UNCHANGED <<child, doomed, tracked, context, state>>
            /\ pc = "fallback_health" /\ pc' = "free"
            BY <2>9, <3>2 DEF FallbackEnds, workerVars, managerVars
      <4>2. Live' = Live
            BY <4>1 DEF Live
      <4>3. QED
            BY <4>1, <4>2 DEF StageInv, ContextInv, Measured
    <3>3. QED
          BY <3>1, <3>2
  <2>10. QED
         BY <1>6, <2>1, <2>2, <2>4, <2>5, <2>6, <2>7, <2>8, <2>9 DEF EnsureContext
<1>7. CASE Crash
      BY <1>7 DEF Crash, StageInv, ContextInv, Measured
<1>8. CASE Status \/ UNCHANGED vars
      BY <1>8, <1>1, BesideSteps
<1>9. ASSUME NEW p \in Children,
             ChatLoads(p) \/ Claims(p) \/ DecisionLoads(p) \/ Relabels(p) \/ Leaves(p) \/ Exits(p)
      PROVE  StageInv' /\ ContextInv'
  <2>1. Steps(p) \/ Exits(p)
        BY <1>9, Constant DEF ChatLoads, Claims, DecisionLoads, Relabels, Leaves, Steps
  <2>2. QED
        BY <2>1, <1>1, BesideSteps
<1>10. ASSUME NEW l \in Launches,
              LaunchAdmitted(l) \/ LaunchLoads(l) \/ LaunchDies(l) \/ LaunchClears(l)
       PROVE  StageInv' /\ ContextInv'
       BY <1>10, <1>1, BesideSteps
<1>11. QED
       BY <1>2, <1>3, <1>5, <1>6, <1>7, <1>8, <1>9, <1>10 DEF Next, Stop

LEMMA BaseAlways == Spec => []BaseInv
<1>1. Init => BaseInv
  <2> SUFFICES ASSUME Init PROVE BaseInv
      OBVIOUS
  <2>1. NoChild \in Process /\ NoChild.st = "dead"
        BY DEF NoChild, Process, Roles
  <2>2. Live = {}
        BY <2>1 DEF Init, Live
  <2>3. ShapeInv
        BY <2>1 DEF Init, ShapeInv, NoChildren
  <2>4. TrackInv /\ StageInv /\ ContextInv
        BY <2>2 DEF Init, TrackInv, StageInv, ContextInv, Measured
  <2>5. QED
        BY <2>3, <2>4 DEF BaseInv
<1>2. BaseInv /\ [Next]_vars => BaseInv'
      BY ShapeStep, TrackStep, StageStep DEF BaseInv
<1>3. QED
      BY <1>1, <1>2, PTL DEF Spec

\* Between operations the chat worker of a ready pair serves the context that
\* turns are measured against, whatever the workers, status() and crashes of the
\* assistant do meanwhile.
THEOREM ContextAlways == Spec => []ContextIsServed
<1>1. BaseInv => ContextIsServed
      BY DEF BaseInv, ContextInv, Measured, ContextIsServed
<1>2. QED
      BY <1>1, BaseAlways, PTL

-----------------------------------------------------------------------------
(* What a step does to the file.                                           *)

LEMMA Sizes ==
  /\ IsFiniteSet(Names) /\ IsFiniteSet(Children)
  /\ Memory \in Nat /\ ChatWeights \in Nat /\ DecisionWeights \in Nat
  /\ ChatWeights <= ChatBytes[1] /\ ChatWeights <= ChatBytes[2]
  /\ DecisionWeights <= DecisionBytes
  /\ ChatBytes[1] \in Nat /\ ChatBytes[2] \in Nat /\ DecisionBytes \in Nat
  /\ LaunchBytes \subseteq Nat /\ LaunchWeights \in Nat
BY PairsAssumption

Clears == \E S \in SUBSET Roles : file' = Without(S)

Shrinks == Restore /\ ResizeReservation("chat", ChatBytes[1], token, available)

\* Every step clears records of the roles, or is one of these.
LEMMA FileKinds ==
  ASSUME ShapeInv, [Next]_vars
  PROVE  \/ Clears
         \/ Admit \/ Resize \/ Shrinks \/ Crash
         \/ \E p \in Children : Claims(p) \/ Relabels(p)
         \/ \E l \in Launches : LaunchAdmitted(l) \/ LaunchClears(l)
<1>1. ASSUME UNCHANGED file PROVE Clears
  <2>1. file' = Without({})
        BY <1>1 DEF Without, ShapeInv
  <2>2. QED
        BY <2>1 DEF Clears
<1>2. \A ch, alive : Reaped(ch, alive) \in SUBSET Roles
      BY DEF Reaped
<1>3. \A ch, alive : Reaped(ch, alive) \cup Unclaimed \in SUBSET Roles
      BY DEF Reaped, Unclaimed
<1>4. ASSUME NEW next, StopTo(next) PROVE Clears
      BY <1>1, <1>3, <1>4 DEF StopTo, Clears
<1>5. CASE Setup \/ AdoptSaved \/ Stop
      BY <1>1, <1>4, <1>5 DEF Setup, AdoptSaved, Stop
<1>6. CASE Start
  <2>1. CASE Settle
        BY <2>1, <1>2 DEF Settle, Clears
  <2>2. CASE CleanUp
        BY <2>2, <1>3 DEF CleanUp, Clears
  <2>3. QED
        BY <1>6, <1>1, <1>4, <2>1, <2>2
        DEF Start, StartBegins, AdmitRefused, SpawnWorker, ChatHealthy, DecisionHealthy, StartFails
<1>7. CASE EnsureContext
  <2>1. CASE Restore
        BY <2>1, <1>1 DEF Restore, Restores, Shrinks
  <2>2. QED
        BY <1>7, <1>1, <1>4, <2>1
        DEF EnsureContext, GrowBegins, ResizeRefused, Retire, Grow, GrownHealthy, GrownFails,
            Drop, Fallback, FallbackEnds
<1>8. CASE Status
  <2>1. {x[1] : x \in {y \in targets : Owned(y[1], y[2])}} \in SUBSET Roles
        BY DEF ShapeInv
  <2>2. CASE StatusClears
        BY <2>1, <2>2 DEF StatusClears, Clears
  <2>3. QED
        BY <1>8, <1>1, <2>2 DEF Status, StatusBegins, StatusReads
<1>9. ASSUME NEW p \in Children, ChatLoads(p) \/ DecisionLoads(p) \/ Leaves(p) \/ Exits(p)
      PROVE  Clears
  <2>1. {"decision"} \in SUBSET Roles
        BY Constant
  <2>2. QED
        BY <1>9, <1>1, <2>1 DEF ChatLoads, DecisionLoads, Leaves, Exits, Clears
<1>10. ASSUME NEW l \in Launches, LaunchLoads(l) \/ LaunchDies(l) PROVE Clears
       BY <1>10, <1>1 DEF LaunchLoads, LaunchDies
<1>11. CASE UNCHANGED vars
       BY <1>11, <1>1 DEF vars
<1>12. QED
       BY <1>5, <1>6, <1>7, <1>8, <1>9, <1>10, <1>11 DEF Next

\* What the steps beside the clearing ones make of the file.
LEMMA FileEffects ==
  ASSUME ShapeInv, [Next]_vars
  PROVE  /\ file \in [Names -> Record \cup {Absent}] /\ file' \in [Names -> Record \cup {Absent}]
         /\ \A S : file' = Without(S) =>
              /\ Held' = Held \ S
              /\ \A n \in Held \ S : file'[n] = file[n]
         /\ Admit =>
              /\ Held' = Held \cup Roles /\ Held \cap Roles = {}
              /\ \A n \in Held : file'[n] = file[n]
              /\ token' \in SpareTokens
              /\ file'["chat"] = Pending(ChatBytes[1], token')
              /\ file'["decision"] = Pending(DecisionBytes, token')
         /\ Crash =>
              /\ Held' = Held
              /\ \A n \in Held : file'[n] = [file[n] EXCEPT !.ours = FALSE]
         /\ \A b \in Nat : ResizeReservation("chat", b, token, available) =>
              /\ Held' = Held /\ "chat" \in Held
              /\ file'["chat"] = [file["chat"] EXCEPT !.bytes = b]
              /\ \A n \in Held \ {"chat"} : file'[n] = file[n]
         /\ \A p \in Children : Claims(p) =>
              /\ Held' = Held /\ "decision" \in Held
              /\ file'["decision"] = [file["decision"] EXCEPT !.claimed = p]
              /\ \A n \in Held \ {"decision"} : file'[n] = file[n]
         /\ \A p \in Children : Relabels(p) =>
              /\ Held' = Held /\ "decision" \in Held
              /\ file'["decision"] = [file["decision"] EXCEPT !.state = "resident",
                                                              !.floor = DecisionWeights]
              /\ \A n \in Held \ {"decision"} : file'[n] = file[n]
         /\ \A l \in Launches : LaunchAdmitted(l) =>
              /\ l \notin Held /\ Held' = Held \cup {l}
              /\ \E b \in LaunchBytes :
                   /\ file'[l] = Pending(b, Absent)
                   /\ Headroom(AvailableWithout({}), Held, b) >= 0
              /\ \A n \in Held : file'[n] = file[n]
<1>1. /\ file \in [Names -> Record \cup {Absent}] /\ file' \in [Names -> Record \cup {Absent}]
      /\ FileType /\ token \in Tokens \cup {Absent}
      BY FileStep DEF ShapeInv, FileType
<1>2. \A n \in Held : n \in Names /\ file[n] \in Record
      BY <1>1, FileFacts DEF Held
<1>3. ASSUME NEW S, file' = Without(S)
      PROVE  Held' = Held \ S /\ \A n \in Held \ S : file'[n] = file[n]
      BY <1>3 DEF Held, Without
<1>4. ASSUME Admit
      PROVE  /\ Held' = Held \cup Roles /\ Held \cap Roles = {}
             /\ \A n \in Held : file'[n] = file[n]
             /\ token' \in SpareTokens
             /\ file'["chat"] = Pending(ChatBytes[1], token')
             /\ file'["decision"] = Pending(DecisionBytes, token')
  <2>1. PICK owner \in SpareTokens :
          /\ token' = owner
          /\ Roles \cap Held = {}
          /\ file' = [n \in Names |-> IF n \in Roles THEN Pending(PairItems[n], owner)
                                                    ELSE file[n]]
        BY <1>4 DEF Admit, AdmitBatch, CanAdmitBatch, PairItems
  <2>2. /\ PairItems["chat"] = ChatBytes[1] /\ PairItems["decision"] = DecisionBytes
        /\ \A n \in Roles : PairItems[n] \in Nat
        BY Constant DEF PairItems, Bytes
  <2>3. \A n \in Roles : Pending(PairItems[n], owner) # Absent
        BY <1>1, <2>1, <2>2, FileFacts, Constant DEF SpareTokens
  <2>4. QED
        BY <2>1, <2>2, <2>3, <1>2, Constant DEF Held
<1>5. ASSUME Crash
      PROVE  /\ Held' = Held
             /\ \A n \in Held : file'[n] = [file[n] EXCEPT !.ours = FALSE]
  <2>1. file' = [n \in Names |-> IF n \in Held THEN [file[n] EXCEPT !.ours = FALSE] ELSE Absent]
        BY <1>5 DEF Crash
  <2>2. ASSUME NEW n \in Held PROVE [file[n] EXCEPT !.ours = FALSE] # Absent
    <3>1. [file[n] EXCEPT !.ours = FALSE] \in Record
          BY <1>2 DEF Record
    <3>2. QED
          BY <3>1, Constant
  <2>3. QED
        BY <2>1, <2>2 DEF Held
<1>6. ASSUME NEW n \in Held, NEW r \in Record, file' = [file EXCEPT ![n] = r]
      PROVE  Held' = Held /\ file'[n] = r /\ \A m \in Held \ {n} : file'[m] = file[m]
      BY <1>1, <1>2, <1>6, Constant DEF Held
<1>7. ASSUME NEW b \in Nat, ResizeReservation("chat", b, token, available)
      PROVE  /\ Held' = Held /\ "chat" \in Held
             /\ file'["chat"] = [file["chat"] EXCEPT !.bytes = b]
             /\ \A n \in Held \ {"chat"} : file'[n] = file[n]
  <2>1. "chat" \in Held /\ file' = [file EXCEPT !["chat"] = [file["chat"] EXCEPT !.bytes = b]]
        BY <1>7 DEF ResizeReservation, CanResize, Owned
  <2>2. [file["chat"] EXCEPT !.bytes = b] \in Record
        BY <1>2, <2>1 DEF Record
  <2>3. QED
        BY <1>6, <2>1, <2>2
<1>8. ASSUME NEW p \in Children, Claims(p)
      PROVE  /\ Held' = Held /\ "decision" \in Held
             /\ file'["decision"] = [file["decision"] EXCEPT !.claimed = p]
             /\ \A n \in Held \ {"decision"} : file'[n] = file[n]
  <2>1. /\ "decision" \in Held
        /\ file' = [file EXCEPT !["decision"] = [file["decision"] EXCEPT !.claimed = p]]
        BY <1>8 DEF Claims, ClaimReservation, Owned
  <2>2. [file["decision"] EXCEPT !.claimed = p] \in Record
        BY <1>2, <2>1 DEF Record
  <2>3. QED
        BY <1>6, <2>1, <2>2
<1>9. ASSUME NEW p \in Children, Relabels(p)
      PROVE  /\ Held' = Held /\ "decision" \in Held
             /\ file'["decision"] = [file["decision"] EXCEPT !.state = "resident",
                                                             !.floor = DecisionWeights]
             /\ \A n \in Held \ {"decision"} : file'[n] = file[n]
  <2> DEFINE r == [file["decision"] EXCEPT !.state = "resident", !.floor = DecisionWeights]
  <2>1. /\ "decision" \in Held
        /\ file' = [file EXCEPT !["decision"].state = "resident",
                                !["decision"].floor = DecisionWeights]
        BY <1>9 DEF Relabels, SetResident, Owned
  <2>2. r \in Record
        BY <1>2, <2>1, Sizes DEF Record
  <2>3. file' = [file EXCEPT !["decision"] = r]
        BY <1>1, <2>1
  <2> HIDE DEF r
  <2>4. Held' = Held /\ file'["decision"] = r /\ \A n \in Held \ {"decision"} : file'[n] = file[n]
        BY <1>6, <2>1, <2>2, <2>3
  <2>5. QED
        BY <2>1, <2>4 DEF r
<1>10. ASSUME NEW l \in Launches, LaunchAdmitted(l)
       PROVE  /\ l \notin Held /\ Held' = Held \cup {l}
              /\ \E b \in LaunchBytes :
                   /\ file'[l] = Pending(b, Absent)
                   /\ Headroom(AvailableWithout({}), Held, b) >= 0
              /\ \A n \in Held : file'[n] = file[n]
  <2>1. PICK b \in LaunchBytes : AdmitAndReserve(l, b, Absent, AvailableWithout({}))
        BY <1>10 DEF LaunchAdmitted
  <2>2. /\ l \notin Held /\ Headroom(AvailableWithout({}), Held, b) >= 0
        /\ file' = [file EXCEPT ![l] = Pending(b, Absent)]
        BY <2>1 DEF AdmitAndReserve
  <2>3. Pending(b, Absent) # Absent /\ l \in Names
        BY <1>1, FileFacts, Constant, Sizes
  <2>4. QED
        BY <1>1, <1>2, <2>2, <2>3 DEF Held
<1>11. QED
       BY <1>1, <1>3, <1>4, <1>5, <1>7, <1>8, <1>9, <1>10

\* A record keeps what it says but for a relabel and for a growth; a new one is
\* pending; and what goes is a role's, or a launch's that clears it.
LEMMA RecordMoves ==
  ASSUME ShapeInv, [Next]_vars
  PROVE  /\ \A n \in Held' :
              \/ /\ n \in Held /\ file'[n].owner = file[n].owner
                 /\ \/ file'[n].state = file[n].state /\ file'[n].floor = file[n].floor
                    \/ /\ n = "decision" /\ (\E p \in Children : Relabels(p))
                       /\ file'[n].state = "resident" /\ file'[n].floor = DecisionWeights
                 /\ \/ file'[n].bytes = file[n].bytes
                    \/ n = "chat" /\ Resize /\ file'[n].bytes = ChatBytes[2]
                    \/ n = "chat" /\ Shrinks /\ file'[n].bytes = ChatBytes[1]
              \/ /\ Admit /\ n \notin Held /\ n \in Roles /\ file'[n].owner = token'
                 /\ file'[n].state = "pending" /\ file'[n].bytes = Bytes(n, 1)
              \/ /\ n \in Launches /\ n \notin Held /\ LaunchAdmitted(n)
                 /\ file'[n].state = "pending"
         /\ \A n \in Held \ Held' :
              \/ n \in Roles /\ Clears
              \/ n \in Launches /\ LaunchClears(n)
<1>1. /\ file \in [Names -> Record \cup {Absent}]
      /\ \A n \in Held : file[n] \in Record
      /\ \A n \in Held' : file'[n] \in Record
  <2>1. file \in [Names -> Record \cup {Absent}] /\ file' \in [Names -> Record \cup {Absent}]
        BY FileEffects
  <2>2. QED
        BY <2>1 DEF Held
<1>2. \A b, o : Pending(b, o).state = "pending" /\ Pending(b, o).owner = o
                /\ Pending(b, o).bytes = b
      BY DEF Pending
<1>3. ASSUME NEW S, file' = Without(S)
      PROVE  /\ Held \ Held' = Held \cap S
             /\ \A n \in Held' : n \in Held /\ file'[n] = file[n]
  <2>1. Held' = Held \ S /\ \A n \in Held \ S : file'[n] = file[n]
        BY <1>3, FileEffects
  <2>2. QED
        BY <2>1
<1>4. CASE Clears
  <2>1. PICK S \in SUBSET Roles : file' = Without(S)
        BY <1>4 DEF Clears
  <2>2. /\ Held \ Held' = Held \cap S
        /\ \A n \in Held' : n \in Held /\ file'[n] = file[n]
        BY <1>3, <2>1
  <2>3. QED
        BY <1>4, <2>1, <2>2
<1>5. CASE Admit
  <2>1. /\ Held' = Held \cup Roles /\ Held \cap Roles = {}
        /\ \A n \in Held : file'[n] = file[n]
        /\ file'["chat"] = Pending(ChatBytes[1], token')
        /\ file'["decision"] = Pending(DecisionBytes, token')
        BY <1>5, FileEffects
  <2>2. ASSUME NEW n \in Roles
        PROVE  /\ file'[n].owner = token' /\ file'[n].state = "pending"
               /\ file'[n].bytes = Bytes(n, 1)
        BY <1>2, <2>1, <2>2, Constant DEF Bytes
  <2>3. QED
        BY <1>5, <2>1, <2>2
<1>6. CASE Crash
  <2>1. Held' = Held /\ \A n \in Held : file'[n] = [file[n] EXCEPT !.ours = FALSE]
        BY <1>6, FileEffects
  <2>2. \A n \in Held : /\ file'[n].owner = file[n].owner /\ file'[n].state = file[n].state
                        /\ file'[n].floor = file[n].floor /\ file'[n].bytes = file[n].bytes
        BY <1>1, <2>1 DEF Record
  <2>3. QED
        BY <2>1, <2>2
<1>7. ASSUME NEW b \in Nat, ResizeReservation("chat", b, token, available),
             (Resize /\ b = ChatBytes[2]) \/ (Shrinks /\ b = ChatBytes[1])
      PROVE  /\ Held' = Held
             /\ \A n \in Held :
                  /\ file'[n].owner = file[n].owner
                  /\ file'[n].state = file[n].state /\ file'[n].floor = file[n].floor
                  /\ \/ file'[n].bytes = file[n].bytes
                     \/ n = "chat" /\ Resize /\ file'[n].bytes = ChatBytes[2]
                     \/ n = "chat" /\ Shrinks /\ file'[n].bytes = ChatBytes[1]
  <2>1. /\ Held' = Held /\ "chat" \in Held
        /\ file'["chat"] = [file["chat"] EXCEPT !.bytes = b]
        /\ \A n \in Held \ {"chat"} : file'[n] = file[n]
        BY <1>7, FileEffects
  <2>2. /\ file'["chat"].owner = file["chat"].owner /\ file'["chat"].state = file["chat"].state
        /\ file'["chat"].floor = file["chat"].floor /\ file'["chat"].bytes = b
        BY <1>1, <2>1 DEF Record
  <2>3. QED
        BY <1>7, <2>1, <2>2
<1>8. CASE Resize \/ Shrinks
  <2>1. PICK b \in Nat :
          /\ ResizeReservation("chat", b, token, available)
          /\ (Resize /\ b = ChatBytes[2]) \/ (Shrinks /\ b = ChatBytes[1])
    <3>1. Resize => ResizeReservation("chat", ChatBytes[2], token, available)
          BY DEF Resize
    <3>2. Shrinks => ResizeReservation("chat", ChatBytes[1], token, available)
          BY DEF Shrinks
    <3>3. QED
          BY <1>8, <3>1, <3>2, Sizes
  <2>2. QED
        BY <2>1, <1>7
<1>9. ASSUME NEW p \in Children, Claims(p)
      PROVE  /\ Held' = Held
             /\ \A n \in Held :
                  /\ file'[n].owner = file[n].owner /\ file'[n].state = file[n].state
                  /\ file'[n].floor = file[n].floor /\ file'[n].bytes = file[n].bytes
  <2>1. /\ Held' = Held /\ "decision" \in Held
        /\ file'["decision"] = [file["decision"] EXCEPT !.claimed = p]
        /\ \A n \in Held \ {"decision"} : file'[n] = file[n]
        BY <1>9, FileEffects
  <2>2. QED
        BY <1>1, <2>1 DEF Record
<1>10. ASSUME NEW p \in Children, Relabels(p)
       PROVE  /\ Held' = Held
              /\ \A n \in Held :
                   /\ file'[n].owner = file[n].owner /\ file'[n].bytes = file[n].bytes
                   /\ \/ file'[n].state = file[n].state /\ file'[n].floor = file[n].floor
                      \/ /\ n = "decision"
                         /\ file'[n].state = "resident" /\ file'[n].floor = DecisionWeights
  <2>1. /\ Held' = Held /\ "decision" \in Held
        /\ file'["decision"] = [file["decision"] EXCEPT !.state = "resident",
                                                        !.floor = DecisionWeights]
        /\ \A n \in Held \ {"decision"} : file'[n] = file[n]
        BY <1>10, FileEffects
  <2>2. /\ file'["decision"].owner = file["decision"].owner
        /\ file'["decision"].bytes = file["decision"].bytes
        /\ file'["decision"].state = "resident" /\ file'["decision"].floor = DecisionWeights
        BY <1>1, <2>1 DEF Record
  <2>3. QED
        BY <2>1, <2>2
<1>11. ASSUME NEW l \in Launches, LaunchAdmitted(l)
       PROVE  /\ l \notin Held /\ Held' = Held \cup {l} /\ file'[l].state = "pending"
              /\ \A n \in Held : file'[n] = file[n]
       BY <1>2, <1>11, FileEffects
<1>12. ASSUME NEW l \in Launches, LaunchClears(l)
       PROVE  /\ Held \ Held' = Held \cap {l}
              /\ \A n \in Held' : n \in Held /\ file'[n] = file[n]
  <2>1. file' = Without({l})
        BY <1>12 DEF LaunchClears
  <2>2. QED
        BY <1>3, <2>1
<1>13. ASSUME NEW p \in Children, Claims(p) \/ Relabels(p)
       PROVE  /\ Held' = Held
              /\ \A n \in Held :
                   /\ file'[n].owner = file[n].owner /\ file'[n].bytes = file[n].bytes
                   /\ \/ file'[n].state = file[n].state /\ file'[n].floor = file[n].floor
                      \/ /\ n = "decision" /\ \E q \in Children : Relabels(q)
                         /\ file'[n].state = "resident" /\ file'[n].floor = DecisionWeights
       BY <1>9, <1>10, <1>13
<1>14. ASSUME NEW l \in Launches, LaunchAdmitted(l) \/ LaunchClears(l)
       PROVE  /\ \A n \in Held \ Held' : n \in Launches /\ LaunchClears(n)
              /\ \A n \in Held' : \/ n \in Held /\ file'[n] = file[n]
                                  \/ /\ n \in Launches /\ n \notin Held /\ LaunchAdmitted(n)
                                     /\ file'[n].state = "pending"
  <2>1. CASE LaunchAdmitted(l)
        BY <2>1, <1>11
  <2>2. CASE LaunchClears(l)
        BY <2>2, <1>12
  <2>3. QED
        BY <1>14, <2>1, <2>2
<1>15. CASE \E p \in Children : Claims(p) \/ Relabels(p)
       BY <1>15, <1>13
<1>16. CASE \E l \in Launches : LaunchAdmitted(l) \/ LaunchClears(l)
       BY <1>16, <1>14
<1>17. QED
       BY <1>4, <1>5, <1>6, <1>8, <1>15, <1>16, FileKinds

-----------------------------------------------------------------------------
(* Who owns which record.                                                  *)

\* A transaction that clears records leaves the others as they are.
LEMMA WithoutEffect ==
  ASSUME NEW S, file' = Without(S), NEW n \in Names \ S
  PROVE  file'[n] = file[n]
BY DEF Without

\* status() clears a record and notes from whom, or leaves it.
LEMMA ClearEffect ==
  ASSUME ShapeInv, StatusClears, NEW n \in Roles
  PROVE  \/ file'[n] = file[n]
         \/ n \in Held /\ n \notin Held' /\ <<n, file[n].owner>> \in stripped'
<1> DEFINE gone == {x \in targets : Owned(x[1], x[2])}
<1>1. file' = Without({x[1] : x \in gone}) /\ stripped' = stripped \cup gone
      BY DEF StatusClears
<1>2. \A x \in targets : x = <<x[1], x[2]>>
      BY DEF ShapeInv
<1>3. n \in Names
      BY Constant
<1>4. CASE \E x \in gone : x[1] = n
  <2>1. PICK x \in gone : x[1] = n
        BY <1>4
  <2>2. n \in Held /\ x = <<n, file[n].owner>>
        BY <1>2, <2>1 DEF Owned
  <2>3. n \notin Held'
        BY <1>1, <1>3, <2>1 DEF Without, Held
  <2>4. QED
        BY <1>1, <2>1, <2>2, <2>3
<1>5. CASE ~\E x \in gone : x[1] = n
  <2>1. n \in Names \ {x[1] : x \in gone}
        BY <1>3, <1>5
  <2>2. QED
        BY <1>1, <2>1, WithoutEffect
<1>6. QED
      BY <1>4, <1>5

\* Who lives and lost his record has lost it for good, and so has whom the operation
\* works for: only the admission of a pair, under a token of nobody, takes losses back.
LEMMA LostStays ==
  ASSUME ShapeInv, [Next]_vars
  PROVE  /\ pc # "admit" => stripped \subseteq stripped'
         /\ \A p \in Live : \A r : Lost(r, child[p].owner) => <<r, child[p].owner>> \in stripped'
<1>1. CASE stripped \subseteq stripped'
      BY <1>1 DEF Lost
<1>2. CASE Admit
  <2>1. pc = "admit" /\ stripped' = stripped \ (Roles \X SpareTokens)
        BY <1>2 DEF Admit
  <2>2. \A p \in Live : child[p].owner \notin SpareTokens
        BY DEF SpareTokens
  <2>3. QED
        BY <2>1, <2>2 DEF Lost
<1>3. QED
      BY <1>1, <1>2, PollMoves
      DEF Status, StatusBegins, StatusReads, StatusClears, Crash, pollVars

\* No record is made for somebody who lost his.
LEMMA LostStep ==
  ASSUME ShapeInv, LostInv, [Next]_vars
  PROVE  LostInv'
<1>1. /\ targets \subseteq Roles \X (Tokens \cup {Absent})
      /\ stripped \subseteq Roles \X (Tokens \cup {Absent})
      BY DEF ShapeInv, LostInv
<1>2. stripped' \subseteq Roles \X (Tokens \cup {Absent})
      BY <1>1, PollMoves
      DEF Status, StatusBegins, StatusReads, StatusClears, Crash, Admit, pollVars
<1> SUFFICES ASSUME NEW x \in stripped', Owned(x[1], x[2])' PROVE FALSE
    BY <1>2 DEF LostInv
<1>3. x[1] \in Held' /\ file'[x[1]].owner = x[2]
      BY DEF Owned
<1>4. CASE StatusClears /\ x \in targets /\ Owned(x[1], x[2])
  <2>1. x[1] \in Roles
        BY <1>1, <1>4
  <2>2. file'[x[1]] = Absent
        BY <1>4, <2>1, Constant DEF StatusClears, Without
  <2>3. QED
        BY <1>3, <2>2 DEF Held
<1>5. CASE x \in stripped /\ ~Admit
  <2>1. x[1] \in Roles
        BY <1>5 DEF LostInv
  <2>2. x[1] \in Held /\ file[x[1]].owner = x[2]
        BY <1>3, <1>5, <2>1, RecordMoves, Constant
  <2>3. QED
        BY <1>5, <2>2 DEF LostInv, Owned
<1>6. CASE Admit
  <2>1. x \in stripped /\ x \notin Roles \X SpareTokens
        BY <1>6 DEF Admit
  <2>2. x[1] \in Roles /\ x = <<x[1], x[2]>>
        BY <2>1 DEF LostInv
  <2>3. token' \in SpareTokens /\ file'[x[1]].owner = token'
        BY <1>6, <2>2, FileEffects, Constant DEF Pending
  <2>4. QED
        BY <1>3, <2>1, <2>2, <2>3
<1>7. QED
      BY <1>4, <1>5, <1>6, PollMoves
      DEF Status, StatusBegins, StatusReads, StatusClears, Crash, pollVars

\* Who owns a record has not lost it.
LEMMA OwnerKeeps ==
  ASSUME LostInv, NEW r, NEW o, Owned(r, o)
  PROVE  ~Lost(r, o)
BY DEF LostInv, Lost

\* A worker that lives and is who it was does not get its record back.
LEMMA StrippedStays ==
  ASSUME ShapeInv, [Next]_vars, NEW p \in Live, Stripped(p),
         child'[p].role = child[p].role, child'[p].owner = child[p].owner
  PROVE  Stripped(p)'
<1>1. Lost(child[p].role, child[p].owner)
      BY DEF Stripped, Lost
<1>2. <<child[p].role, child[p].owner>> \in stripped'
      BY <1>1, LostStays
<1>3. QED
      BY <1>2 DEF Stripped

\* A process that claims the decision record is tracked, and no other is past
\* its claim that has kept its record.
LEMMA ClaimEffect ==
  ASSUME BaseInv, DecisionInv, NEW p \in Children, Claims(p)
  PROVE  /\ p \in Live \ doomed /\ tracked["decision"] = p /\ child[p].ours
         /\ \A q \in Committed : q # p /\ Lost("decision", child[q].owner)
         /\ Committed' = Committed \cup {p}
         /\ Holder(p)'
<1>1. Moves(p, "decision", "boot", "claimed")
      BY DEF Claims
<1>2. /\ child' \in [Children -> Process]
      /\ Live' = Live /\ doomed' = doomed /\ tracked' = tracked
      /\ p \in Live \ doomed
      /\ child[p].role = "decision" /\ child[p].st = "boot" /\ child'[p].st = "claimed"
      /\ \A q \in Children : /\ child'[q].role = child[q].role
                             /\ child'[q].owner = child[q].owner
                             /\ child'[q].ours = child[q].ours
                             /\ q # p => child'[q].st = child[q].st
      BY <1>1, MoveEffect, Constant DEF BaseInv
<1>3. /\ Owned("decision", child[p].owner) /\ file["decision"].bytes = DecisionBytes
      /\ child[p].ours
      /\ file["decision"].claimed \in {Absent, p} \cup (Children \ Live)
      /\ file' = [file EXCEPT !["decision"].claimed = p]
      BY DEF Claims, ClaimReservation
<1>4. tracked["decision"] = p
      BY <1>2, <1>3 DEF BaseInv, TrackInv
<1>5. ASSUME NEW q \in Committed PROVE q # p /\ Lost("decision", child[q].owner)
  <2>1. q \in Live /\ q # p /\ q # Absent
        BY <1>2, <1>5, LiveFacts DEF BaseInv, Committed
  <2>2. ~Holder(q)
        BY <1>3, <2>1 DEF Holder
  <2>3. QED
        BY <1>5, <2>1, <2>2 DEF DecisionInv
<1>6. Committed' = Committed \cup {p}
  <2>1. p \in Committed'
        BY <1>2 DEF Committed
  <2>2. \A q \in Children \ {p} : q \in Committed' <=> q \in Committed
        BY <1>2 DEF Committed
  <2>3. QED
        BY <2>1, <2>2 DEF Committed
<1>7. Holder(p)'
  <2>1. FileType /\ "decision" \in Held
        BY <1>3 DEF BaseInv, ShapeInv, FileType, Owned
  <2>2. file["decision"] \in Record /\ "decision" \in Names
        BY <2>1, FileFacts, Constant
  <2>3. file'["decision"] = [file["decision"] EXCEPT !.claimed = p]
        BY <1>3, <2>1, <2>2 DEF FileType
  <2>4. file'["decision"] \in Record
        BY <2>2, <2>3 DEF Record
  <2>5. /\ file'["decision"].claimed = p /\ file'["decision"].bytes = DecisionBytes
        /\ file'["decision"].owner = file["decision"].owner
        BY <2>2, <2>3, <1>3 DEF Record
  <2>6. "decision" \in Held'
    <3>1. file'["decision"] # Absent
          BY <2>4, Constant
    <3>2. QED
          BY <3>1, <2>2 DEF Held
  <2>7. Owned("decision", child[p].owner)'
        BY <1>2, <1>3, <2>5, <2>6 DEF Owned
  <2>8. DecisionBytes \in Nat
        BY Constant
  <2>9. QED
        BY <2>5, <2>7, <2>8, <1>2, <1>3, <1>4 DEF Holder
<1>8. QED
      BY <1>2, <1>3, <1>4, <1>5, <1>6, <1>7

\* Where the decision record, its claimants and what is tracked stay as they are.
LEMMA DecisionStays ==
  ASSUME ShapeInv, DecisionInv, [Next]_vars,
         file'["decision"] = file["decision"],
         Committed' \subseteq Committed,
         tracked'["decision"] = tracked["decision"],
         \A p \in Committed : child'[p].owner = child[p].owner /\ child'[p].ours = child[p].ours,
         pc' \in {"chat", "decision"} => pc \in {"chat", "decision"}
  PROVE  DecisionInv'
<1>1. ASSUME NEW p \in Committed'
      PROVE  /\ Holder(p) => Holder(p)'
             /\ Lost("decision", child[p].owner) => Lost("decision", child[p].owner)'
  <2>1. child'[p].owner = child[p].owner /\ child'[p].ours = child[p].ours
        BY <1>1
  <2>2. Lost("decision", child[p].owner) => <<"decision", child[p].owner>> \in stripped'
        BY <1>1, LostStays, LiveFacts
  <2>3. QED
        BY <2>1, <2>2, Constant DEF Holder, Owned, Held, Lost
<1>2. QED
      BY <1>1 DEF DecisionInv

\* A stop, and what else ends every worker, keeps the record of a claimant that
\* outlives it.
LEMMA DecisionEnds ==
  ASSUME ShapeInv, DecisionInv, [Next]_vars, NEW V \in SUBSET Tracked, TerminateAll(V),
         NEW S \in SUBSET (Reaped(tracked, Live \ (Tracked \ V)) \cup Unclaimed),
         file' = Without(S),
         pc' \notin {"chat", "decision"}
  PROVE  DecisionInv'
<1>1. /\ Live' = Live \ (Tracked \ V) /\ Terminate(Tracked, V)
      /\ \A r \in Roles : tracked'[r] = IF tracked[r] \in V THEN tracked[r] ELSE Absent
      BY StopEffect
<1>2. /\ Committed' = Committed \ (Tracked \ V)
      /\ \A p \in Live' : child'[p] = child[p]
      BY <1>1, TerminateEffect
<1>3. /\ Committed \subseteq Live /\ Absent \notin Live /\ Tracked \subseteq Children
      /\ tracked["decision"] \in Live => tracked["decision"] \in Tracked
      BY LiveFacts, Constant
<1>4. ASSUME NEW p \in Committed', Holder(p) PROVE Holder(p)'
  <2>1. /\ p \in Committed /\ p \in Live' /\ Holder(p) /\ child'[p] = child[p] /\ p # Absent
        BY <1>1, <1>2, <1>3, <1>4
  <2>2. "decision" \notin S
    <3>1. "decision" \notin Unclaimed
          BY <2>1 DEF Unclaimed, Holder
    <3>2. ~ExitVerified("decision", tracked, Live \ (Tracked \ V))
          BY <1>1, <2>1 DEF ExitVerified, Holder
    <3>3. QED
          BY <3>1, <3>2 DEF Reaped
  <2>3. file'["decision"] = file["decision"]
        BY <2>2, WithoutEffect, Constant
  <2>4. tracked'["decision"] = IF child[p].ours THEN p ELSE Absent
    <3>1. CASE child[p].ours
          BY <3>1, <2>1, <1>1, <1>3, Constant DEF Holder
    <3>2. CASE ~child[p].ours
          BY <3>2, <2>1, <1>1, <1>3, Constant DEF Holder
    <3>3. QED
          BY <3>1, <3>2
  <2>5. QED
        BY <2>1, <2>3, <2>4, Constant DEF Holder, Owned, Held
<1>5. ASSUME NEW p \in Committed', Lost("decision", child[p].owner)
      PROVE  Lost("decision", child[p].owner)'
  <2>1. p \in Committed /\ child'[p] = child[p]
        BY <1>1, <1>2, <1>3, <1>5
  <2>2. QED
        BY <1>3, <1>5, <2>1, LostStays DEF Lost
<1>6. Committed' \subseteq Committed
      BY <1>2
<1>7. QED
      BY <1>4, <1>5, <1>6 DEF DecisionInv

LEMMA DecisionStop ==
  ASSUME ShapeInv, DecisionInv, [Next]_vars, NEW next \in {"free", "settle"}, StopTo(next)
  PROVE  DecisionInv'
<1>1. PICK V \in SUBSET Tracked :
        /\ TerminateAll(V)
        /\ file' = IF paired
                   THEN Without(Reaped(tracked, Live \ (Tracked \ V)) \cup Unclaimed)
                   ELSE file
      BY DEF StopTo
<1>2. pc' \notin {"chat", "decision"}
      BY DEF StopTo
<1>3. CASE paired
      BY <1>1, <1>2, <1>3, DecisionEnds
<1>4. CASE ~paired
  <2>1. file \in [Names -> Record \cup {Absent}]
        BY DEF ShapeInv
  <2>2. file' = Without({})
        BY <1>1, <1>4, <2>1 DEF Without
  <2>3. QED
        BY <1>1, <1>2, <2>2, DecisionEnds
<1>5. QED
      BY <1>3, <1>4

LEMMA DecisionStep ==
  ASSUME BaseInv, LostInv, DecisionInv, [Next]_vars
  PROVE  DecisionInv'
<1>1. /\ ShapeInv /\ TrackInv /\ StageInv /\ FileType
      /\ file \in [Names -> Record \cup {Absent}]
      BY DEF BaseInv, ShapeInv, FileType
<1>2. ASSUME UNCHANGED <<child, tracked>>, file'["decision"] = file["decision"],
             pc' \in {"chat", "decision"} => pc \in {"chat", "decision"}
      PROVE  DecisionInv'
  <2>1. Committed' = Committed
        BY <1>2 DEF Committed
  <2>2. QED
        BY <1>1, <1>2, <2>1, DecisionStays
<1>3. ASSUME NEW next \in {"free", "settle"}, StopTo(next) PROVE DecisionInv'
      BY <1>1, <1>3, DecisionStop
<1>4. ASSUME NEW role \in Roles, NEW c \in 1..2, Spawn(role, token, c), UNCHANGED file,
             role = "decision" \/ pc' \notin {"chat", "decision"} \/ pc = "chat",
             role = "decision" => pc = "decision" /\ pc' \notin {"chat", "decision"}
      PROVE  DecisionInv'
  <2>1. token \in Tokens \cup {Absent}
        BY <1>1 DEF ShapeInv
  <2>2. PICK p \in Children \ (Live \cup Tracked) :
          /\ \A r \in Roles \ {role} : tracked'[r] = tracked[r]
          /\ \A q \in Live : child'[q] = child[q]
        BY <1>1, <1>4, <2>1, SpawnEffect
  <2>3. Committed' = Committed /\ Committed \subseteq Live
        BY <1>1, <1>4, <2>1, SpawnEffect, LiveFacts
  <2>4. CASE role = "decision"
    <3>1. ASSUME NEW q \in Committed PROVE Lost("decision", child[q].owner)'
      <4>1. Lost("decision", child[q].owner)
            BY <1>4, <2>4, <3>1 DEF DecisionInv
      <4>2. child'[q] = child[q] /\ q \in Live
            BY <2>2, <2>3, <3>1
      <4>3. QED
            BY <1>1, <4>1, <4>2, LostStays DEF Lost
    <3>2. QED
          BY <2>3, <3>1 DEF DecisionInv
  <2>5. CASE role # "decision"
        BY <1>1, <1>4, <2>2, <2>3, <2>5, DecisionStays, Constant
  <2>6. QED
        BY <2>4, <2>5
<1>5. ASSUME NEW S, NEW V, Terminate(S, V), tracked' = tracked, file' = file,
             pc' \in {"chat", "decision"} => pc \in {"chat", "decision"}
      PROVE  DecisionInv'
  <2>1. /\ Committed' = Committed \ (S \ V) /\ Committed \subseteq Live
        /\ Live' = Live \ (S \ V) /\ \A p \in Live' : child'[p] = child[p]
        BY <1>1, <1>5, TerminateEffect, LiveFacts
  <2>2. ASSUME NEW p \in Committed'
        PROVE  /\ Holder(p) => Holder(p)'
               /\ Lost("decision", child[p].owner) => Lost("decision", child[p].owner)'
    <3>1. child'[p] = child[p] /\ p \in Live
          BY <2>1, <2>2
    <3>2. Lost("decision", child[p].owner) => <<"decision", child[p].owner>> \in stripped'
          BY <1>1, <3>1, LostStays
    <3>3. QED
          BY <3>1, <3>2, <1>5 DEF Holder, Owned, Held, Lost
  <2>3. QED
        BY <2>1, <2>2, <1>5 DEF DecisionInv
<1>6. CASE Setup \/ AdoptSaved
      BY <1>6, <1>2 DEF Setup, AdoptSaved, workerVars
<1>7. CASE Start
  <2>1. CASE StartBegins
        BY <2>1, <1>2, <1>3 DEF StartBegins, workerVars
  <2>2. CASE Settle \/ CleanUp
    <3>1. PICK V \in SUBSET Tracked :
            /\ TerminateAll(V)
            /\ \/ file' = Without(Reaped(tracked, Live \ (Tracked \ V)))
               \/ file' = Without(Reaped(tracked, Live \ (Tracked \ V)) \cup Unclaimed)
            /\ pc' \notin {"chat", "decision"}
          BY <2>2 DEF Settle, CleanUp
    <3>2. CASE file' = Without(Reaped(tracked, Live \ (Tracked \ V)))
          BY <3>1, <3>2, <1>1, DecisionEnds
    <3>3. CASE file' = Without(Reaped(tracked, Live \ (Tracked \ V)) \cup Unclaimed)
          BY <3>1, <3>3, <1>1, DecisionEnds
    <3>4. QED
          BY <3>1, <3>2, <3>3
  <2>3. CASE Admit
    <3>1. "decision" \notin Held
          BY <2>3, Constant DEF Admit, AdmitBatch, CanAdmitBatch, PairItems
    <3>2. \A p \in Committed : Lost("decision", child[p].owner)
          BY <3>1 DEF DecisionInv, Holder, Owned
    <3>3. Committed' = Committed /\ child' = child
          BY <2>3 DEF Admit, workerVars, Committed
    <3>4. \A p \in Committed : Lost("decision", child[p].owner)'
          BY <1>1, <3>2, <3>3, LostStays, LiveFacts DEF Lost
    <3>5. QED
          BY <3>3, <3>4 DEF DecisionInv
  <2>4. CASE AdmitRefused \/ ChatHealthy \/ DecisionHealthy \/ StartFails
        BY <2>4, <1>2 DEF AdmitRefused, ChatHealthy, DecisionHealthy, StartFails, workerVars,
                          managerVars
  <2>5. ASSUME NEW r \in Roles, SpawnWorker(r) PROVE DecisionInv'
        BY <2>5, <1>4, Constant DEF SpawnWorker, AfterSpawn
  <2>6. QED
        BY <1>7, <2>1, <2>2, <2>3, <2>4, <2>5 DEF Start
<1>8. CASE EnsureContext
  <2>1. CASE GrowBegins \/ ResizeRefused \/ GrownHealthy \/ GrownFails
        BY <2>1, <1>2 DEF GrowBegins, ResizeRefused, GrownHealthy, GrownFails, workerVars,
                          managerVars
  <2>2. CASE Resize \/ Restore
    <3>1. ASSUME NEW b, ResizeReservation("chat", b, token, available)
          PROVE  file'["decision"] = file["decision"]
          BY <3>1, <1>1, Constant DEF ResizeReservation
    <3>2. /\ UNCHANGED <<child, tracked>> /\ file'["decision"] = file["decision"]
          /\ pc' \notin {"chat", "decision"}
          BY <2>2, <3>1 DEF Resize, Restore, Restores, workerVars, managerVars
    <3>3. QED
          BY <3>2, <1>2
  <2>3. CASE Retire
        BY <2>3, <1>5 DEF Retire, managerVars
  <2>4. CASE Grow
    <3>1. CASE pc' = "grown"
          BY <2>4, <3>1, <1>4, Constant DEF Grow
    <3>2. CASE pc' # "grown"
          BY <2>4, <3>2, <1>2 DEF Grow, workerVars
    <3>3. QED
          BY <3>1, <3>2
  <2>5. CASE Drop
        BY <2>5, <1>3, <1>5 DEF Drop, managerVars
  <2>6. CASE Fallback
    <3>1. CASE StopTo("free")
          BY <3>1, <1>3
    <3>2. CASE ~StopTo("free")
          BY <2>6, <3>2, <1>4, Constant DEF Fallback
    <3>3. QED
          BY <3>1, <3>2
  <2>7. CASE FallbackEnds
        BY <2>7, <1>2, <1>3 DEF FallbackEnds, workerVars, managerVars
  <2>8. QED
        BY <1>8, <2>1, <2>2, <2>3, <2>4, <2>5, <2>6, <2>7 DEF EnsureContext
<1>9. CASE Status
  <2>1. CASE StatusBegins \/ StatusReads
        BY <2>1, <1>2 DEF StatusBegins, StatusReads, workerVars, managerVars
  <2>2. CASE StatusClears
    <3>1. UNCHANGED <<child, tracked, pc>>
          BY <2>2 DEF StatusClears, workerVars
    <3>2. CASE file'["decision"] = file["decision"]
          BY <3>1, <3>2, <1>2
    <3>3. CASE <<"decision", file["decision"].owner>> \in stripped'
      <4>1. \A p \in Committed : Lost("decision", child[p].owner)'
            BY <1>1, <3>1, <3>3, LostStays, LiveFacts DEF DecisionInv, Holder, Owned, Lost
      <4>2. Committed' = Committed
            BY <3>1 DEF Committed
      <4>3. QED
            BY <4>1, <4>2 DEF DecisionInv
    <3>4. QED
          BY <1>1, <2>2, <3>2, <3>3, ClearEffect, Constant
  <2>3. QED
        BY <1>9, <2>1, <2>2 DEF Status
<1>10. CASE Crash
  <2>1. /\ file' = [n \in Names |-> IF n \in Held THEN [file[n] EXCEPT !.ours = FALSE] ELSE Absent]
        /\ child' = [p \in Children |-> [child[p] EXCEPT !.ours = FALSE]]
        /\ pc' = "free" /\ tracked' = NoChildren
        BY <1>10 DEF Crash
  <2>2. \A p \in Children : /\ ~child'[p].ours /\ child'[p].st = child[p].st
                            /\ child'[p].role = child[p].role /\ child'[p].owner = child[p].owner
        BY <2>1, <1>1 DEF ShapeInv, Process
  <2>3. Committed' = Committed
        BY <2>2 DEF Committed
  <2>4. ASSUME NEW p \in Committed, Holder(p) PROVE Holder(p)'
    <3>1. Holder(p) /\ p \in Children /\ "decision" \in Held
          BY <2>4 DEF Committed, Holder, Owned
    <3>2. file["decision"] \in Record /\ file'["decision"] = [file["decision"] EXCEPT !.ours = FALSE]
          BY <3>1, <2>1, <1>1, FileFacts, Constant
    <3>3. /\ file'["decision"] \in Record
          /\ file'["decision"].owner = file["decision"].owner
          /\ file'["decision"].bytes = file["decision"].bytes
          /\ file'["decision"].claimed = file["decision"].claimed
          BY <3>2 DEF Record
    <3>4. "decision" \in Held'
          BY <3>3, Constant DEF Held
    <3>5. QED
          BY <3>1, <3>3, <3>4, <2>1, <2>2, Constant DEF Holder, Owned, NoChildren
  <2>5. ASSUME NEW p \in Committed, Lost("decision", child[p].owner)
        PROVE  Lost("decision", child[p].owner)'
    <3>1. p \in Live /\ p \in Children
          BY <1>1, <2>5, LiveFacts
    <3>2. QED
          BY <1>1, <2>2, <2>5, <3>1, LostStays DEF Lost
  <2>6. QED
        BY <2>1, <2>3, <2>4, <2>5 DEF DecisionInv
<1>11. ASSUME NEW p \in Children,
              ChatLoads(p) \/ Claims(p) \/ DecisionLoads(p) \/ Relabels(p) \/ Leaves(p) \/ Exits(p)
       PROVE  DecisionInv'
  <2>1. CASE Claims(p)
    <3>1. /\ p \in Live \ doomed /\ tracked["decision"] = p
          /\ Committed' = Committed \cup {p} /\ Holder(p)'
          /\ \A q \in Committed : Lost("decision", child[q].owner)
          BY <2>1, ClaimEffect
    <3>2. pc' = pc /\ pc \notin {"chat", "decision"}
          BY <3>1, <1>1, <2>1 DEF StageInv, Over, Claims, Moves
    <3>3. ASSUME NEW q \in Committed PROVE Lost("decision", child[q].owner)'
      <4>1. q \in Live /\ q \in Children
            BY <1>1, <3>3, LiveFacts
      <4>2. child'[q].owner = child[q].owner
            BY <1>1, <2>1, <4>1, MoveEffect, Constant DEF Claims
      <4>3. QED
            BY <1>1, <3>1, <3>3, <4>1, <4>2, LostStays DEF Lost
    <3>4. QED
          BY <3>1, <3>2, <3>3 DEF DecisionInv
  <2>2. CASE Exits(p)
    <3>1. Terminate({p}, {})
          BY <2>2 DEF Exits, Terminate, Died
    <3>2. QED
          BY <2>2, <3>1, <1>5 DEF Exits, managerVars
  <2>3. ASSUME NEW role \in Roles, NEW from \in {"boot", "claimed", "loaded", "serving"},
               NEW to \in {"claimed", "loaded", "serving", "leaving"}, Moves(p, role, from, to),
               from = "boot" => role = "chat"
        PROVE  /\ Committed' \subseteq Committed
               /\ UNCHANGED <<pc, tracked>>
               /\ \A q \in Children : /\ child'[q].owner = child[q].owner
                                      /\ child'[q].ours = child[q].ours
               /\ from # "boot" /\ role = "decision" => p \in Committed
               /\ to = "leaving" => p \notin Committed'
    <3>1. /\ child[p].role = role /\ child[p].st = from /\ child'[p].st = to
          /\ \A q \in Children : /\ child'[q].role = child[q].role
                                 /\ child'[q].owner = child[q].owner
                                 /\ child'[q].ours = child[q].ours
                                 /\ q # p => child'[q].st = child[q].st
          /\ UNCHANGED <<pc, tracked>>
          BY <2>3, <1>1, MoveEffect
    <3>2. QED
          BY <2>3, <3>1 DEF Committed
  <2>4. ASSUME NEW from \in {"boot", "claimed", "loaded", "serving"}, NEW role \in Roles,
               NEW to \in {"claimed", "loaded", "serving", "leaving"}, Moves(p, role, from, to),
               from = "boot" => role = "chat",
               file'["decision"] = file["decision"]
        PROVE  DecisionInv'
    <3>1. Committed \subseteq Children
          BY DEF Committed
    <3>2. QED
          BY <1>1, <2>3, <2>4, <3>1, DecisionStays
  <2>5. CASE ChatLoads(p) \/ DecisionLoads(p)
        BY <2>5, <2>4, Constant DEF ChatLoads, DecisionLoads
  <2>6. CASE Relabels(p)
    <3>1. Moves(p, "decision", "loaded", "serving")
          /\ SetResident("decision", DecisionWeights, child[p].owner)
          BY <2>6 DEF Relabels
    <3>2. /\ Committed' \subseteq Committed /\ Committed \subseteq Children
          /\ UNCHANGED <<pc, tracked>>
          /\ \A q \in Children : child'[q].owner = child[q].owner /\ child'[q].ours = child[q].ours
          BY <2>3, <3>1, Constant DEF Committed
    <3>3. /\ file["decision"] \in Record /\ "decision" \in Names
          /\ file' = [file EXCEPT !["decision"].state = "resident",
                                  !["decision"].floor = DecisionWeights]
          BY <3>1, <1>1, FileFacts DEF SetResident, Owned, Held
    <3>4. file'["decision"] = [file["decision"] EXCEPT !.state = "resident",
                                                       !.floor = DecisionWeights]
          BY <3>3, <1>1
    <3>5. /\ file'["decision"] \in Record
          /\ file'["decision"].owner = file["decision"].owner
          /\ file'["decision"].bytes = file["decision"].bytes
          /\ file'["decision"].claimed = file["decision"].claimed
      <4>1. ASSUME NEW r \in Record, NEW b \in Nat
            PROVE  LET s == [r EXCEPT !.state = "resident", !.floor = b]
                   IN  /\ s \in Record
                       /\ s.owner = r.owner /\ s.bytes = r.bytes /\ s.claimed = r.claimed
            BY <4>1 DEF Record
      <4>2. DecisionWeights \in Nat
            BY Constant
      <4>3. LET r == file["decision"]
                s == [r EXCEPT !.state = "resident", !.floor = DecisionWeights]
            IN  /\ s \in Record
                /\ s.owner = r.owner /\ s.bytes = r.bytes /\ s.claimed = r.claimed
            BY <3>3, <4>1, <4>2
      <4>4. QED
            BY <3>4, <4>3
    <3>6. "decision" \in Held'
          BY <3>5, Constant DEF Held
    <3>7. ASSUME NEW q \in Committed'
          PROVE  /\ Holder(q) => Holder(q)'
                 /\ Lost("decision", child[q].owner) => Lost("decision", child[q].owner)'
      <4>1. q \in Children /\ q \in Live
            BY <1>1, <3>2, <3>7, LiveFacts
      <4>2. Holder(q) => Holder(q)'
            BY <4>1, <3>2, <3>5, <3>6 DEF Holder, Owned
      <4>3. QED
            BY <1>1, <4>1, <4>2, <3>2, LostStays DEF Lost
    <3>8. QED
          BY <3>2, <3>7 DEF DecisionInv
  <2>7. CASE Leaves(p)
    <3>1. PICK from \in {"claimed", "loaded", "serving"} : Moves(p, "decision", from, "leaving")
          BY <2>7 DEF Leaves
    <3>2. /\ Committed' \subseteq Committed /\ p \in Committed /\ p \notin Committed'
          BY <2>3, <3>1, Constant
    <3>3. CASE Owned("decision", child[p].owner)
      <4>1. Holder(p)
            BY <3>2, <3>3 DEF DecisionInv, LostInv, Lost
      <4>2. ASSUME NEW q \in Committed' PROVE Lost("decision", child[q].owner)'
        <5>1. q \in Committed /\ q # p /\ q \in Live /\ q \in Children
              BY <1>1, <3>2, <4>2, LiveFacts
        <5>2. Lost("decision", child[q].owner)
              BY <4>1, <5>1 DEF DecisionInv, Holder
        <5>3. child'[q].owner = child[q].owner
              BY <2>3, <3>1, <5>1, Constant
        <5>4. QED
              BY <1>1, <5>1, <5>2, <5>3, LostStays DEF Lost
      <4>3. QED
            BY <4>2 DEF DecisionInv
    <3>4. CASE ~Owned("decision", child[p].owner)
      <4>1. file' = file
            BY <2>7, <3>4 DEF Leaves
      <4>2. QED
            BY <2>4, <3>1, <4>1, Constant
    <3>5. QED
          BY <3>3, <3>4
  <2>8. QED
        BY <1>11, <2>1, <2>2, <2>5, <2>6, <2>7
<1>12. ASSUME NEW l \in Launches,
              LaunchAdmitted(l) \/ LaunchLoads(l) \/ LaunchDies(l) \/ LaunchClears(l)
       PROVE  DecisionInv'
  <2>1. file'["decision"] = file["decision"]
    <3>1. l # "decision"
          BY Constant
    <3>2. CASE LaunchAdmitted(l)
          BY <3>1, <3>2, <1>1, Constant DEF LaunchAdmitted, AdmitAndReserve
    <3>3. CASE LaunchLoads(l) \/ LaunchDies(l)
          BY <3>3 DEF LaunchLoads, LaunchDies
    <3>4. CASE LaunchClears(l)
          BY <3>1, <3>4, WithoutEffect, Constant DEF LaunchClears
    <3>5. QED
          BY <1>12, <3>2, <3>3, <3>4
  <2>2. UNCHANGED <<child, tracked, pc>>
        BY <1>12 DEF LaunchAdmitted, LaunchLoads, LaunchDies, LaunchClears, LaunchGo, workerVars,
                     managerVars
  <2>3. QED
        BY <2>1, <2>2, <1>2
<1>13. CASE UNCHANGED vars
       BY <1>13, <1>2 DEF vars, workerVars, managerVars
<1>14. QED
       BY <1>3, <1>6, <1>7, <1>8, <1>9, <1>10, <1>11, <1>12, <1>13 DEF Next, Stop

\* Whoever held the chat record holds it still or has lost it.
ChatKept == \A o : \A k \in 1..2 : ChatHas(o, k) => ChatBacked(o, k)'

LEMMA ChatUntouched ==
  ASSUME file'["chat"] = file["chat"]
  PROVE  ChatKept
BY Constant DEF ChatKept, ChatBacked, ChatHas, Owned, Held

LEMMA BackedStays ==
  ASSUME ShapeInv, [Next]_vars, ChatKept, NEW o, NEW k \in 1..2, ChatBacked(o, k),
         pc # "admit" \/ \E p \in Live : child[p].owner = o
  PROVE  ChatBacked(o, k)'
<1>1. CASE ChatHas(o, k)
      BY <1>1 DEF ChatKept
<1>2. CASE Lost("chat", o)
  <2>1. <<"chat", o>> \in stripped'
        BY <1>2, LostStays DEF Lost
  <2>2. QED
        BY <2>1 DEF ChatBacked, Lost
<1>3. QED
      BY <1>1, <1>2 DEF ChatBacked

\* Where the chat worker stays as it is, and the record with whom it covers.
LEMMA ChatStays ==
  ASSUME ShapeInv, ChatInv, [Next]_vars, ChatKept,
         token' = token, tracked'["chat"] = tracked["chat"],
         tracked["chat"] \in Live' \ doomed' =>
            /\ tracked["chat"] \in Live \ doomed
            /\ child'[tracked["chat"]].context = child[tracked["chat"]].context
            /\ child'[tracked["chat"]].owner = child[tracked["chat"]].owner,
         pc' \in {"chat", "fallback"} => pc \in {"chat", "fallback"},
         pc' \in {"retire", "grow"} => pc \in {"retire", "grow"}
  PROVE  ChatInv'
<1>1. ASSUME tracked["chat"] \in Live' \ doomed'
      PROVE  /\ child'[tracked["chat"]].context \in 1..2
             /\ ChatBacked(child[tracked["chat"]].owner, child[tracked["chat"]].context)'
  <2>1. PICK o, k : o = child[tracked["chat"]].owner /\ k = child[tracked["chat"]].context
        OBVIOUS
  <2>2. k \in 1..2 /\ ChatBacked(o, k) /\ tracked["chat"] \in Live
        BY <1>1, <2>1 DEF ChatInv
  <2>3. ChatBacked(o, k)'
        BY <2>1, <2>2, BackedStays
  <2>4. QED
        BY <1>1, <2>1, <2>2, <2>3 DEF ChatBacked, ChatHas, Lost, Owned
<1>2. ASSUME NEW k \in 1..2, ChatBacked(token, k), pc # "admit" PROVE ChatBacked(token, k)'
  <2>1. PICK o : o = token
        OBVIOUS
  <2>2. ChatBacked(o, k)'
        BY <1>2, <2>1, BackedStays
  <2>3. QED
        BY <2>1, <2>2 DEF ChatBacked, ChatHas, Lost, Owned
<1>3. QED
      BY <1>1, <1>2 DEF ChatInv

\* Where no chat worker is left that could do anything, and the stage has no use
\* for its record.
LEMMA ChatOver ==
  ASSUME Over("chat")', pc' \notin {"chat", "fallback", "retire", "grow"}
  PROVE  ChatInv'
BY DEF Over, ChatInv

\* A new chat worker's context is what the record was admitted or resized for.
LEMMA ChatStarts ==
  ASSUME ShapeInv, ChatInv, [Next]_vars, NEW c \in 1..2, Spawn("chat", token, c),
         UNCHANGED <<file, token>>,
         \/ pc \in {"chat", "fallback"} /\ c = 1
         \/ pc = "grow" /\ c = 2,
         pc' \notin {"chat", "fallback", "retire", "grow"}
  PROVE  ChatInv'
<1>1. token \in Tokens \cup {Absent}
      BY DEF ShapeInv
<1>2. child'[tracked'["chat"]].owner = token /\ child'[tracked'["chat"]].context = c
      BY <1>1, SpawnEffect, Constant
<1>3. PICK o : o = token
      OBVIOUS
<1>4. ChatBacked(o, c)'
      BY <1>3, ChatUntouched, BackedStays DEF ChatInv
<1>5. QED
      BY <1>2, <1>3, <1>4 DEF ChatInv, ChatBacked, ChatHas, Lost, Owned

\* A resized record covers what it was resized for, and what fits in less.
LEMMA ChatResized ==
  ASSUME ShapeInv, NEW c \in 1..2, ResizeReservation("chat", ChatBytes[c], token, available),
         UNCHANGED token
  PROVE  /\ ChatHas(token, c)'
         /\ c = 2 => ChatKept
<1>1. /\ file["chat"] \in Record /\ "chat" \in Names
      /\ file["chat"].owner = token
      /\ file' = [file EXCEPT !["chat"].bytes = ChatBytes[c]]
      /\ file \in [Names -> Record \cup {Absent}]
      BY FileFacts DEF ShapeInv, FileType, ResizeReservation, CanResize, Owned, Held
<1>2. ChatBytes[c] \in Nat /\ \A k \in 1..2 : ChatBytes[k] \in Nat /\ ChatBytes[k] <= ChatBytes[2]
      BY Constant
<1>3. file'["chat"] = [file["chat"] EXCEPT !.bytes = ChatBytes[c]]
      BY <1>1
<1>4. /\ file'["chat"] \in Record
      /\ file'["chat"].owner = file["chat"].owner
      /\ file'["chat"].bytes = ChatBytes[c]
      BY <1>1, <1>2, <1>3 DEF Record
<1>5. "chat" \in Held'
      BY <1>1, <1>4, Constant DEF Held
<1>6. ChatHas(token, c)'
      BY <1>1, <1>2, <1>4, <1>5 DEF ChatHas, Owned
<1>7. ASSUME c = 2, NEW o, NEW k \in 1..2, ChatHas(o, k) PROVE ChatHas(o, k)'
      BY <1>1, <1>2, <1>4, <1>5, <1>7 DEF ChatHas, Owned
<1>8. QED
      BY <1>6, <1>7 DEF ChatKept, ChatBacked

LEMMA ChatStep ==
  ASSUME BaseInv, ChatInv, [Next]_vars
  PROVE  ChatInv'
<1>1. /\ ShapeInv /\ TrackInv /\ StageInv /\ FileType
      /\ file \in [Names -> Record \cup {Absent}]
      BY DEF BaseInv, ShapeInv, FileType
<1>2. ASSUME UNCHANGED <<child, doomed, tracked, token>>, file'["chat"] = file["chat"],
             pc' \in {"chat", "fallback"} => pc \in {"chat", "fallback"},
             pc' \in {"retire", "grow"} => pc \in {"retire", "grow"}
      PROVE  ChatInv'
  <2>1. Live' = Live
        BY <1>2 DEF Live
  <2>2. QED
        BY <1>1, <1>2, <2>1, ChatUntouched, ChatStays
<1>3. ASSUME NEW V \in SUBSET Tracked, TerminateAll(V),
             pc' \notin {"chat", "fallback", "retire", "grow"}
      PROVE  ChatInv'
      BY <1>1, <1>3, StopEffect, ChatOver, Constant DEF Over
<1>4. ASSUME NEW next \in {"free", "settle"}, StopTo(next) PROVE ChatInv'
      BY <1>3, <1>4 DEF StopTo
<1>5. CASE Setup \/ AdoptSaved
      BY <1>5, <1>2 DEF Setup, AdoptSaved, workerVars
<1>6. CASE Start
  <2>1. CASE StartBegins
        BY <2>1, <1>2, <1>4 DEF StartBegins, workerVars
  <2>2. CASE Settle \/ CleanUp
        BY <2>2, <1>3 DEF Settle, CleanUp
  <2>3. CASE Admit
    <3>1. PICK owner \in SpareTokens :
            /\ token' = owner
            /\ file' = [n \in Names |-> IF n \in Roles THEN Pending(PairItems[n], owner)
                                                      ELSE file[n]]
          BY <2>3 DEF Admit, AdmitBatch, PairItems
    <3>2. pc = "admit" /\ pc' = "chat" /\ UNCHANGED <<child, doomed, tracked>>
          BY <2>3 DEF Admit, workerVars
    <3>3. Over("chat")'
          BY <3>2, <1>1 DEF StageInv, Over, Live
    <3>4. /\ file'["chat"] = Pending(ChatBytes[1], owner) /\ Pending(ChatBytes[1], owner) \in Record
          /\ Pending(ChatBytes[1], owner).owner = owner
          /\ Pending(ChatBytes[1], owner).bytes = ChatBytes[1]
          BY <3>1, Constant, FileFacts, <1>1 DEF PairItems, Bytes, Pending, SpareTokens
    <3>5. ChatHas(token, 1)'
          BY <3>1, <3>4, Constant DEF ChatHas, Owned, Held
    <3>6. QED
          BY <3>2, <3>3, <3>5 DEF ChatInv, ChatBacked, Over
  <2>4. CASE AdmitRefused \/ ChatHealthy \/ DecisionHealthy \/ StartFails
        BY <2>4, <1>2 DEF AdmitRefused, ChatHealthy, DecisionHealthy, StartFails, workerVars,
                          managerVars
  <2>5. CASE SpawnWorker("chat")
        BY <2>5, <1>1, ChatStarts DEF SpawnWorker, AfterSpawn
  <2>6. CASE SpawnWorker("decision")
    <3>1. /\ pc = "decision" /\ pc' = "health_chat" /\ Spawn("decision", token, 1)
          /\ UNCHANGED <<file, token>>
          BY <2>6 DEF SpawnWorker, AfterSpawn
    <3>2. token \in Tokens \cup {Absent}
          BY <1>1 DEF ShapeInv
    <3>3. doomed' = doomed
          BY <3>1, <3>2, <1>1, SpawnEffect, Constant
    <3>4. PICK p \in Children \ (Live \cup Tracked) :
            /\ Live' = Live \cup {p}
            /\ \A r \in Roles \ {"decision"} : tracked'[r] = tracked[r]
            /\ \A q \in Live : child'[q] = child[q]
          BY <3>1, <3>2, <1>1, SpawnEffect, Constant
    <3>5. tracked'["chat"] = tracked["chat"] /\ tracked["chat"] # p
          BY <3>4, Constant DEF Tracked
    <3>6. tracked'["chat"] \in Live' \ doomed' =>
            /\ tracked["chat"] \in Live \ doomed
            /\ child'[tracked["chat"]] = child[tracked["chat"]]
          BY <3>3, <3>4, <3>5
    <3>7. QED
          BY <1>1, <3>1, <3>5, <3>6, ChatUntouched, ChatStays
  <2>7. QED
        BY <1>6, <2>1, <2>2, <2>3, <2>4, <2>5, <2>6, Constant DEF Start
<1>7. CASE EnsureContext
  <2>1. CASE GrowBegins \/ ResizeRefused \/ GrownHealthy \/ GrownFails
        BY <2>1, <1>2 DEF GrowBegins, ResizeRefused, GrownHealthy, GrownFails, workerVars,
                          managerVars
  <2>2. CASE Resize
    <3>1. /\ ResizeReservation("chat", ChatBytes[2], token, available)
          /\ pc' = "retire" /\ UNCHANGED <<child, doomed, tracked, token>>
          BY <2>2 DEF Resize, workerVars, managerVars
    <3>2. ChatHas(token, 2)' /\ ChatKept
          BY <3>1, <1>1, ChatResized
    <3>3. Live' = Live
          BY <3>1 DEF Live
    <3>4. ASSUME tracked["chat"] \in Live \ doomed
          PROVE  /\ child[tracked["chat"]].context \in 1..2
                 /\ ChatBacked(child[tracked["chat"]].owner, child[tracked["chat"]].context)'
      <4>1. PICK o, k : o = child[tracked["chat"]].owner /\ k = child[tracked["chat"]].context
            OBVIOUS
      <4>2. k \in 1..2 /\ ChatBacked(o, k) /\ tracked["chat"] \in Live
            BY <3>4, <4>1 DEF ChatInv
      <4>3. ChatBacked(o, k)'
            BY <1>1, <3>2, <4>1, <4>2, BackedStays
      <4>4. QED
            BY <3>1, <4>1, <4>2, <4>3 DEF ChatBacked, ChatHas, Lost, Owned
    <3>5. QED
          BY <3>1, <3>2, <3>3, <3>4 DEF ChatInv, ChatBacked
  <2>3. ASSUME NEW V \in SUBSET {tracked["chat"]}, Terminate({tracked["chat"]}, V),
               UNCHANGED <<file, tracked, token>>,
               pc' \notin {"chat", "fallback"}, pc' = "grow" => pc = "retire", pc' # "retire"
        PROVE  ChatInv'
    <3>1. Over("chat")'
      <4>1. /\ Live' = Live \ ({tracked["chat"]} \ V)
            /\ doomed' = (doomed \cup V) \ ({tracked["chat"]} \ V)
            BY <1>1, <2>3, TerminateEffect
      <4>2. QED
            BY <4>1, <2>3 DEF Over
    <3>2. ASSUME pc' = "grow" PROVE ChatBacked(token, 2)'
      <4>1. PICK o : o = token
            OBVIOUS
      <4>2. ChatBacked(o, 2)'
            BY <1>1, <2>3, <3>2, <4>1, ChatUntouched, BackedStays DEF ChatInv
      <4>3. QED
            BY <2>3, <4>1, <4>2 DEF ChatBacked, ChatHas, Lost, Owned
    <3>3. QED
          BY <2>3, <3>1, <3>2 DEF ChatInv, Over
  <2>4. CASE Retire
        BY <2>4, <2>3 DEF Retire, managerVars
  <2>5. CASE Grow
    <3>1. CASE pc' = "grown"
          BY <2>5, <3>1, <1>1, ChatStarts DEF Grow
    <3>2. CASE pc' # "grown"
          BY <2>5, <3>2, <1>2 DEF Grow, workerVars
    <3>3. QED
          BY <3>1, <3>2
  <2>6. CASE Restore
    <3>1. /\ UNCHANGED <<child, doomed, tracked, token>> /\ pc' \in {"free", "fallback"}
          /\ pc \in {"keep", "restore"}
          /\ pc' = "fallback" => ResizeReservation("chat", ChatBytes[1], token, available)
          BY <2>6 DEF Restore, Restores, workerVars, managerVars
    <3>2. Over("chat")'
          BY <3>1, <1>1 DEF StageInv, Over, Live
    <3>3. pc' = "fallback" => ChatHas(token, 1)'
          BY <3>1, <1>1, ChatResized
    <3>4. QED
          BY <3>1, <3>2, <3>3 DEF ChatInv, ChatBacked, Over
  <2>7. CASE Drop
        BY <2>7, <2>3, <1>4 DEF Drop, managerVars
  <2>8. CASE Fallback
    <3>1. CASE StopTo("free")
          BY <3>1, <1>4
    <3>2. CASE ~StopTo("free")
          BY <2>8, <3>2, <1>1, ChatStarts DEF Fallback
    <3>3. QED
          BY <3>1, <3>2
  <2>9. CASE FallbackEnds
        BY <2>9, <1>2, <1>4 DEF FallbackEnds, workerVars, managerVars
  <2>10. QED
         BY <1>7, <2>1, <2>2, <2>4, <2>5, <2>6, <2>7, <2>8, <2>9 DEF EnsureContext
<1>8. CASE Status
  <2>1. CASE StatusBegins \/ StatusReads
        BY <2>1, <1>2 DEF StatusBegins, StatusReads, workerVars, managerVars
  <2>2. CASE StatusClears
    <3>1. UNCHANGED <<child, doomed, tracked, token, pc>>
          BY <2>2 DEF StatusClears, workerVars
    <3>2. Live' = Live
          BY <3>1 DEF Live
    <3>3. ChatKept
      <4>1. CASE file'["chat"] = file["chat"]
            BY <4>1, ChatUntouched
      <4>2. CASE <<"chat", file["chat"].owner>> \in stripped'
            BY <4>2 DEF ChatKept, ChatBacked, ChatHas, Owned, Lost
      <4>3. QED
            BY <1>1, <2>2, <4>1, <4>2, ClearEffect, Constant
    <3>4. QED
          BY <1>1, <3>1, <3>2, <3>3, ChatStays
  <2>3. QED
        BY <1>8, <2>1, <2>2 DEF Status
<1>9. CASE Crash
  <2>1. tracked' = NoChildren /\ pc' = "free"
        BY <1>9 DEF Crash
  <2>2. Absent \notin Live'
        BY Constant DEF Live
  <2>3. QED
        BY <2>1, <2>2, Constant DEF ChatInv, NoChildren
<1>10. ASSUME NEW p \in Children,
              ChatLoads(p) \/ Claims(p) \/ DecisionLoads(p) \/ Relabels(p) \/ Leaves(p) \/ Exits(p)
       PROVE  ChatInv'
  <2>1. file'["chat"] = file["chat"]
    <3>1. CASE ChatLoads(p) \/ DecisionLoads(p) \/ Exits(p)
          BY <3>1 DEF ChatLoads, DecisionLoads, Exits
    <3>2. CASE Claims(p)
          BY <3>2, <1>1, Constant DEF Claims, ClaimReservation
    <3>3. CASE Relabels(p)
          BY <3>3, <1>1, Constant DEF Relabels, SetResident
    <3>4. CASE Leaves(p)
      <4>1. Without({"decision"})["chat"] = file["chat"]
            BY Constant DEF Without
      <4>2. QED
            BY <3>4, <4>1 DEF Leaves
    <3>5. QED
          BY <1>10, <3>1, <3>2, <3>3, <3>4
  <2>2. Steps(p) \/ Exits(p)
        BY <1>10, Constant DEF ChatLoads, Claims, DecisionLoads, Relabels, Leaves, Steps
  <2>3. Beside
        BY <2>2, <1>1, BesideSteps
  <2>4. QED
        BY <1>1, <2>1, <2>3, ChatUntouched, ChatStays DEF Beside
<1>11. ASSUME NEW l \in Launches,
              LaunchAdmitted(l) \/ LaunchLoads(l) \/ LaunchDies(l) \/ LaunchClears(l)
       PROVE  ChatInv'
  <2>1. file'["chat"] = file["chat"]
    <3>1. l # "chat"
          BY Constant
    <3>2. CASE LaunchAdmitted(l)
          BY <3>1, <3>2, <1>1, Constant DEF LaunchAdmitted, AdmitAndReserve
    <3>3. CASE LaunchLoads(l) \/ LaunchDies(l)
          BY <3>3 DEF LaunchLoads, LaunchDies
    <3>4. CASE LaunchClears(l)
          BY <3>1, <3>4, WithoutEffect, Constant DEF LaunchClears
    <3>5. QED
          BY <1>11, <3>2, <3>3, <3>4
  <2>2. UNCHANGED <<child, doomed, tracked, token, pc>>
        BY <1>11 DEF LaunchAdmitted, LaunchLoads, LaunchDies, LaunchClears, LaunchGo, workerVars,
                     managerVars
  <2>3. QED
        BY <2>1, <2>2, <1>2
<1>12. CASE UNCHANGED vars
       BY <1>12, <1>2 DEF vars, workerVars, managerVars
<1>13. QED
       BY <1>4, <1>5, <1>6, <1>7, <1>8, <1>9, <1>10, <1>11, <1>12 DEF Next, Stop

-----------------------------------------------------------------------------
(* The theorems.                                                           *)

LEMMA IInvAlways == Spec => []IInv
<1>1. Init => RecordInv
  <2> SUFFICES ASSUME Init PROVE RecordInv
      OBVIOUS
  <2>1. NoChild.st = "dead"
        BY DEF NoChild
  <2>2. Live = {} /\ Committed = {}
        BY <2>1 DEF Init, Live, Committed
  <2>3. QED
        BY <2>2 DEF Init, RecordInv, LostInv, ChatInv, DecisionInv
<1>2. BaseInv /\ BaseInv' /\ RecordInv /\ [Next]_vars => RecordInv'
  <2> SUFFICES ASSUME BaseInv, RecordInv, [Next]_vars PROVE RecordInv'
      OBVIOUS
  <2>1. LostInv /\ ChatInv /\ DecisionInv /\ ShapeInv
        BY DEF BaseInv, RecordInv
  <2>2. LostInv' /\ ChatInv' /\ DecisionInv'
        BY <2>1, LostStep, ChatStep, DecisionStep
  <2>3. QED
        BY <2>2 DEF RecordInv
<1>3. QED
      BY <1>1, <1>2, BaseAlways, PTL DEF Spec, IInv

\* What the invariant says of a worker that is the manager's business.
LEMMA WorkingFacts ==
  ASSUME IInv, NEW p \in Working
  PROVE  /\ p \in Live /\ child[p].role \in Roles
         /\ ~Lost(child[p].role, child[p].owner)
         /\ child[p].role = "chat" => /\ tracked["chat"] = p /\ p \notin doomed
                                      /\ child[p].ours
         /\ child[p].role = "decision" => p \in Committed /\ Holder(p)
<1>1. ShapeInv /\ TrackInv /\ DecisionInv
      BY DEF IInv, BaseInv, RecordInv
<1>2. /\ p \in Children /\ child[p].st \in {"loaded", "serving"}
      /\ ~Lost(child[p].role, child[p].owner)
      /\ child[p].role = "chat" => child[p].ours /\ p \notin doomed
      BY DEF Working, InMemory, Stripped, Lost
<1>3. p \in Live /\ child[p].role \in Roles
      BY <1>1, <1>2 DEF ShapeInv, Process, Live
<1>4. CASE child[p].role = "chat"
      BY <1>1, <1>2, <1>3, <1>4 DEF TrackInv
<1>5. CASE child[p].role = "decision"
      BY <1>1, <1>2, <1>3, <1>5 DEF DecisionInv, Committed
<1>6. QED
      BY <1>2, <1>3, <1>4, <1>5, Constant

\* A worker with a loaded model has the record it was started under, for as many
\* bytes as it may come to use, unless a status() has cleared that very record.
THEOREM CoveredAlways == Spec => []LiveWorkerCovered
<1>1. IInv => LiveWorkerCovered
  <2> SUFFICES ASSUME IInv, NEW p \in Working PROVE Covers(child[p].role, p)
      BY DEF LiveWorkerCovered
  <2>1. CASE child[p].role = "chat"
    <3>1. tracked["chat"] \in Live \ doomed /\ tracked["chat"] = p
          BY <2>1, WorkingFacts
    <3>2. child[p].context \in 1..2 /\ ChatHas(child[p].owner, child[p].context)
          BY <2>1, <3>1, WorkingFacts DEF IInv, RecordInv, ChatInv, ChatBacked
    <3>3. QED
          BY <2>1, <3>2 DEF Covers, ChatHas, Bytes
  <2>2. CASE child[p].role = "decision"
    <3>1. Holder(p)
          BY <2>2, WorkingFacts
    <3>2. QED
          BY <2>2, <3>1 DEF Covers, Holder, Bytes
  <2>3. QED
        BY <2>1, <2>2, WorkingFacts, Constant
<1>2. QED
      BY <1>1, IInvAlways, PTL

\* A model is not loaded a second time while the first worker still has it and
\* its record, however status() interleaves with the operations.
THEOREM OneWorkerAlways == Spec => []OneWorkerPerModel
<1>1. IInv => OneWorkerPerModel
  <2> SUFFICES ASSUME IInv, NEW p \in Working, NEW q \in Working, child[p].role = child[q].role
               PROVE  p = q
      BY DEF OneWorkerPerModel
  <2>1. CASE child[p].role = "chat"
        BY <2>1, WorkingFacts
  <2>2. CASE child[p].role = "decision"
        BY <2>2, WorkingFacts DEF Holder
  <2>3. QED
        BY <2>1, <2>2, WorkingFacts, Constant
<1>2. QED
      BY <1>1, IInvAlways, PTL

\* The manager can stop every worker it started whose record no status() took.
THEOREM TrackedAlways == Spec => []LoadedWorkerIsTracked
<1>1. IInv => LoadedWorkerIsTracked
  <2> SUFFICES ASSUME IInv, NEW p \in Working, child[p].ours
               PROVE  tracked[child[p].role] = p
      BY DEF LoadedWorkerIsTracked
  <2>1. QED
        BY WorkingFacts, Constant DEF Holder
<1>2. QED
      BY <1>1, IInvAlways, PTL

-----------------------------------------------------------------------------
(* Sums.  A sum of natural numbers over a finite set counts a set of pairs, *)
(* about which the library has theorems.                                   *)

Weighs(g, S) == \A x \in S : g[x] \in Nat

Units(g, S) == UNION {{x} \X (1..g[x]) : x \in S}

First(s) == CHOOSE x \in s : TRUE

Sums(f, g, S) ==
  f = [s \in SUBSET S |-> IF s = {} THEN 0 ELSE g[First(s)] + f[s \ {First(s)}]]

\* Adding an element adds its units.
LEMMA UnitsAdd ==
  ASSUME NEW g, NEW S, NEW x \in S, g[x] \in Nat, IsFiniteSet(Units(g, S \ {x}))
  PROVE  /\ IsFiniteSet(Units(g, S))
         /\ Cardinality(Units(g, S)) = g[x] + Cardinality(Units(g, S \ {x}))
<1> DEFINE A == {x} \X (1..g[x])
           B == Units(g, S \ {x})
<1>1. IsFiniteSet(A) /\ Cardinality(A) = g[x]
  <2>1. IsFiniteSet({x}) /\ Cardinality({x}) = 1
        BY FS_Singleton
  <2>2. IsFiniteSet(1..g[x]) /\ Cardinality(1..g[x]) = g[x]
        BY FS_Interval
  <2>3. IsFiniteSet(A) /\ Cardinality(A) = Cardinality({x}) * Cardinality(1..g[x])
        BY <2>1, <2>2, FS_Product
  <2>4. QED
        BY <2>1, <2>2, <2>3
<1>2. A \cap B = {}
      BY DEF Units
<1>3. Units(g, S) = A \cup B
      BY DEF Units
<1>4. /\ IsFiniteSet(A \cup B)
      /\ Cardinality(A \cup B) = Cardinality(A) + Cardinality(B) - Cardinality(A \cap B)
      BY <1>1, FS_Union
<1>5. Cardinality(A \cap B) = 0 /\ Cardinality(B) \in Nat
      BY <1>2, FS_EmptySet, FS_CardinalityType
<1>6. QED
      BY <1>1, <1>3, <1>4, <1>5

\* A set of subsets that is not empty has a smallest one.
LEMMA SmallestSubset ==
  ASSUME NEW S, IsFiniteSet(S), NEW Bad \in SUBSET SUBSET S, Bad # {}
  PROVE  \E s \in Bad : \A x \in s : s \ {x} \notin Bad
<1>1. IsWellFoundedOn(StrictSubsetOrdering(S), FiniteSubsetsOf(S))
      BY FS_StrictSubsetOrderingWellFounded
<1>2. FiniteSubsetsOf(S) = SUBSET S
      BY FS_FiniteSubsetsOfFinite
<1>3. PICK s \in Bad : \A t \in Bad : ~(<<t, s>> \in StrictSubsetOrdering(S))
      BY <1>1, <1>2, WFMin
<1>4. ASSUME NEW x \in s, s \ {x} \in Bad PROVE FALSE
  <2>1. <<s \ {x}, s>> \in StrictSubsetOrdering(S)
        BY <1>4 DEF StrictSubsetOrdering
  <2>2. QED
        BY <1>3, <1>4, <2>1
<1>5. QED
      BY <1>4

LEMMA UnitsFinite ==
  ASSUME NEW g, NEW S, IsFiniteSet(S), Weighs(g, S)
  PROVE  \A s \in SUBSET S : IsFiniteSet(Units(g, s))
<1> DEFINE Bad == {s \in SUBSET S : ~IsFiniteSet(Units(g, s))}
<1>1. SUFFICES ASSUME Bad # {} PROVE FALSE
      OBVIOUS
<1>2. PICK s \in Bad : \A x \in s : s \ {x} \notin Bad
      BY <1>1, SmallestSubset
<1>3. CASE s = {}
  <2>1. Units(g, {}) = {}
        BY DEF Units
  <2>2. QED
        BY <1>2, <1>3, <2>1, FS_EmptySet
<1>4. CASE s # {}
  <2>1. PICK x \in s : TRUE
        BY <1>4
  <2>2. IsFiniteSet(Units(g, s \ {x})) /\ g[x] \in Nat
        BY <1>2 DEF Weighs
  <2>3. IsFiniteSet(Units(g, s))
        BY <2>2, UnitsAdd
  <2>4. QED
        BY <1>2, <2>3
<1>5. QED
      BY <1>3, <1>4

LEMMA SumDef ==
  ASSUME NEW g, NEW S
  PROVE  SumFunctionOnSet(g, S) = (CHOOSE f : Sums(f, g, S))[S]
BY DEF SumFunctionOnSet, FoldFunctionOnSet, MapThenFoldSet, Sums, First

\* The sum is the number of units.
LEMMA SumIsCount ==
  ASSUME NEW g, NEW S, IsFiniteSet(S), Weighs(g, S)
  PROVE  SumFunctionOnSet(g, S) = Cardinality(Units(g, S))
<1> DEFINE count == [s \in SUBSET S |-> Cardinality(Units(g, s))]
           sum == CHOOSE f : Sums(f, g, S)
<1>1. ASSUME NEW s \in SUBSET S, s # {}
      PROVE  /\ First(s) \in s
             /\ Cardinality(Units(g, s)) = g[First(s)] + Cardinality(Units(g, s \ {First(s)}))
  <2>1. First(s) \in s
        BY <1>1 DEF First
  <2>2. g[First(s)] \in Nat /\ IsFiniteSet(Units(g, s \ {First(s)}))
        BY <2>1, UnitsFinite DEF Weighs
  <2>3. QED
        BY <2>1, <2>2, UnitsAdd
<1>2. Cardinality(Units(g, {})) = 0
  <2>1. Units(g, {}) = {}
        BY DEF Units
  <2>2. QED
        BY <2>1, FS_EmptySet
<1>3. Sums(count, g, S)
  <2>1. ASSUME NEW s \in SUBSET S
        PROVE  count[s] = IF s = {} THEN 0 ELSE g[First(s)] + count[s \ {First(s)}]
        BY <1>1, <1>2
  <2>2. QED
        BY <2>1 DEF Sums
<1>4. Sums(sum, g, S)
      BY <1>3
<1>5. ASSUME NEW s \in SUBSET S
      PROVE  sum[s] = IF s = {} THEN 0 ELSE g[First(s)] + sum[s \ {First(s)}]
  <2> HIDE DEF sum
  <2>1. QED
        BY <1>4 DEF Sums
<1> HIDE DEF sum
<1>6. \A s \in SUBSET S : sum[s] = Cardinality(Units(g, s))
  <2> DEFINE Bad == {s \in SUBSET S : sum[s] # Cardinality(Units(g, s))}
  <2>1. SUFFICES ASSUME Bad # {} PROVE FALSE
        OBVIOUS
  <2>2. PICK s \in Bad : \A x \in s : s \ {x} \notin Bad
        BY <2>1, SmallestSubset
  <2>3. CASE s = {}
        BY <1>2, <1>5, <2>2, <2>3
  <2>4. CASE s # {}
    <3>1. First(s) \in s
          BY <1>1, <2>4
    <3>2. sum[s \ {First(s)}] = Cardinality(Units(g, s \ {First(s)}))
          BY <2>2, <3>1
    <3>3. QED
          BY <1>1, <1>5, <2>2, <2>4, <3>2
  <2>5. QED
        BY <2>3, <2>4
<1>7. QED
      BY <1>6, SumDef DEF sum

LEMMA SumFacts ==
  ASSUME NEW S, IsFiniteSet(S), NEW g \in [S -> Nat]
  PROVE  /\ SumFunction(g) = Cardinality(Units(g, S))
         /\ IsFiniteSet(Units(g, S))
         /\ SumFunction(g) \in Nat
<1>1. Weighs(g, S) /\ S \in SUBSET S
      BY DEF Weighs
<1>2. SumFunction(g) = SumFunctionOnSet(g, S)
      BY DEF SumFunction
<1>3. IsFiniteSet(Units(g, S))
      BY <1>1, UnitsFinite
<1>4. QED
      BY <1>1, <1>2, <1>3, SumIsCount, FS_CardinalityType

\* A sum with fewer and smaller terms is smaller.
LEMMA SumBelow ==
  ASSUME NEW S, IsFiniteSet(S), NEW g \in [S -> Nat],
         NEW T, IsFiniteSet(T), NEW h \in [T -> Nat],
         \A x \in S : g[x] = 0 \/ (x \in T /\ g[x] <= h[x])
  PROVE  SumFunction(g) <= SumFunction(h)
<1>1. Units(g, S) \subseteq Units(h, T)
  <2> SUFFICES ASSUME NEW x \in S, NEW k \in 1..g[x] PROVE <<x, k>> \in Units(h, T)
      BY DEF Units
  <2>1. x \in T /\ k \in 1..h[x]
        OBVIOUS
  <2>2. QED
        BY <2>1 DEF Units
<1>2. QED
      BY <1>1, SumFacts, FS_Subset

\* A sum changes by no more than the one term that grows.
LEMMA SumShift ==
  ASSUME NEW S, IsFiniteSet(S), NEW g \in [S -> Nat], NEW h \in [S -> Nat],
         NEW x \in S, NEW k \in Int, g[x] <= h[x] + k,
         \A y \in S \ {x} : g[y] <= h[y]
  PROVE  SumFunction(g) <= SumFunction(h) + k
<1> DEFINE R == S \ {x}
<1>1. ASSUME NEW f \in [S -> Nat]
      PROVE  /\ IsFiniteSet(Units(f, R)) /\ Cardinality(Units(f, R)) \in Nat
             /\ SumFunction(f) = f[x] + Cardinality(Units(f, R))
  <2>1. Weighs(f, S) /\ R \in SUBSET S /\ f[x] \in Nat
        BY DEF Weighs
  <2>2. IsFiniteSet(Units(f, R))
        BY <2>1, UnitsFinite
  <2>3. Cardinality(Units(f, S)) = f[x] + Cardinality(Units(f, R))
        BY <2>1, <2>2, UnitsAdd
  <2>4. QED
        BY <2>2, <2>3, SumFacts, FS_CardinalityType
<1>2. Units(g, R) \subseteq Units(h, R)
  <2> SUFFICES ASSUME NEW y \in R, NEW n \in 1..g[y] PROVE <<y, n>> \in Units(h, R)
      BY DEF Units
  <2>1. n \in 1..h[y]
        OBVIOUS
  <2>2. QED
        BY <2>1 DEF Units
<1>3. Cardinality(Units(g, R)) <= Cardinality(Units(h, R))
      BY <1>1, <1>2, FS_Subset
<1>4. SumFunction(g) = g[x] + Cardinality(Units(g, R)) /\ Cardinality(Units(g, R)) \in Nat
      BY <1>1
<1>5. SumFunction(h) = h[x] + Cardinality(Units(h, R)) /\ Cardinality(Units(h, R)) \in Nat
      BY <1>1
<1>6. g[x] \in Nat /\ h[x] \in Nat
      OBVIOUS
<1> HIDE DEF R
<1>7. QED
      BY <1>3, <1>4, <1>5, <1>6

\* The same, where it may be that no term grows.
LEMMA SumGrows ==
  ASSUME NEW S, IsFiniteSet(S), NEW g \in [S -> Nat], NEW h \in [S -> Nat], NEW x, NEW k \in Nat,
         x \in S => g[x] <= h[x] + k,
         \A y \in S \ {x} : g[y] <= h[y]
  PROVE  SumFunction(g) <= SumFunction(h) + k
<1>1. CASE x \in S
      BY <1>1, SumShift
<1>2. CASE x \notin S
  <2>1. SumFunction(g) <= SumFunction(h)
        BY <1>2, SumBelow
  <2>2. SumFunction(g) \in Nat /\ SumFunction(h) \in Nat
        BY SumFacts
  <2>3. QED
        BY <2>1, <2>2
<1>3. QED
      BY <1>1, <1>2

-----------------------------------------------------------------------------
(* What the records promise, and the memory they do not account for.       *)

\* The records are the workers' own: the chat record stays pending, and is the grown
\* one while a growth is under way.
FileInv ==
  /\ launch \in [Launches -> {"none", "pending", "loaded", "gone"}]
  /\ "chat" \in Held => /\ file["chat"].state = "pending"
                        /\ file["chat"].bytes \in {ChatBytes[1], ChatBytes[2]}
  /\ "decision" \in Held =>
       /\ file["decision"].bytes = DecisionBytes
       /\ file["decision"].state = "resident" => file["decision"].floor = DecisionWeights
  /\ \A l \in Launches : /\ launch[l] # "none" => l \in Held
                         /\ l \in Held => file[l].state = "pending"

Growing == pc \in {"retire", "keep", "grow", "grown", "drop", "restore"}

GrownInv == Growing /\ Owned("chat", token) => file["chat"].bytes = ChatBytes[2]

\* A chat worker of this assistant that the record names is the one it tracks.
MyChat(p) == p \in Live /\ child[p].role = "chat" /\ child[p].ours

OwnerInv ==
  /\ \A p \in Children : MyChat(p) /\ Owned("chat", child[p].owner) => tracked["chat"] = p
  /\ pc = "chat" => \A p \in Children : MyChat(p) => ~Owned("chat", child[p].owner)

\* The decision workers that may still load a model.
Unfinished ==
  {p \in Live \ doomed : /\ child[p].role = "decision"
                         /\ \/ child[p].st \in {"claimed", "loaded"}
                            \/ child[p].st = "boot" /\ child[p].ours}

\* The pair is ready, or the chat worker of a ready pair is being restarted.
Steady ==
  \/ pc \in {"resize", "retire", "keep", "grow", "grown", "drop", "restore", "fallback",
             "fallback_health"}
  \/ pc = "free" /\ state = "ready"

LoadInv ==
  /\ \A p \in Unfinished :
       Owned("decision", child[p].owner) => file["decision"].state = "pending"
  /\ pc \in {"chat", "decision"} /\ "decision" \in Held => file["decision"].state = "pending"
  /\ Steady => \A p \in Unfinished : Lost("decision", child[p].owner)

\* Workers whose weights are in memory and in no record: a chat worker that outlives
\* its record, and a decision worker that relabelled.  Not those that a status()
\* deprived of theirs.
Stray(p) ==
  /\ p \in InMemory /\ p \in doomed /\ child[p].role = "chat" /\ child[p].ours
  /\ ~Owned("chat", child[p].owner) /\ ~Stripped(p)

Relabelled(p) ==
  p \in InMemory /\ p \in Committed /\ ~Stripped(p) /\ file["decision"].state = "resident"

Strays == [p \in Children |-> IF Stray(p) THEN ChatWeights ELSE 0]

Unbacked == [p \in Children |-> IF Stray(p) THEN ChatWeights
                                ELSE IF Relabelled(p) THEN DecisionWeights ELSE 0]

Charges == [n \in Names |-> IF n \in Held THEN Contribution(file[n]) ELSE 0]

\* What is promised and what is used beside it fits.
FitsInv == SumFunction(Unbacked) + SumFunction(Charges) <= Memory

\* What the operation read of the memory is still there when it uses it.
MeasuredInv ==
  /\ available \in Int
  /\ pc = "admit" => available + SumFunction(Strays) <= Memory
  /\ pc = "resize" => available + SumFunction(Unbacked) <= Memory

LedgerInv == FileInv /\ GrownInv /\ OwnerInv /\ LoadInv

MemoryInv == LedgerInv /\ FitsInv /\ MeasuredInv

-----------------------------------------------------------------------------
(* What a step does to the launches, the workers and the stages.           *)

\* Only a launch moves a launch.
LEMMA LaunchMoves ==
  ASSUME launch \in [Launches -> {"none", "pending", "loaded", "gone"}], [Next]_vars
  PROVE  /\ launch' \in [Launches -> {"none", "pending", "loaded", "gone"}]
         /\ \A l \in Launches : launch'[l] # "none" => launch[l] # "none" \/ LaunchAdmitted(l)
         /\ \A l \in Launches : LaunchClears(l) => launch'[l] = "none"
         /\ \A l \in Launches : LaunchAdmitted(l) => launch[l] = "none"
<1>1. ASSUME NEW l \in Launches, NEW from, NEW to \in {"none", "pending", "loaded", "gone"},
             LaunchGo(l, from, to)
      PROVE  /\ launch' \in [Launches -> {"none", "pending", "loaded", "gone"}]
             /\ launch[l] = from /\ launch'[l] = to
             /\ \A m \in Launches \ {l} : launch'[m] = launch[m]
      BY <1>1 DEF LaunchGo
<1>2. CASE UNCHANGED launch
  <2>1. \A l \in Launches : ~LaunchClears(l)
        BY <1>1, <1>2 DEF LaunchClears, LaunchGo
  <2>2. \A l \in Launches : ~LaunchAdmitted(l)
        BY <1>1, <1>2 DEF LaunchAdmitted, LaunchGo
  <2>3. QED
        BY <1>2, <2>1, <2>2
<1>3. ASSUME NEW l \in Launches,
             LaunchAdmitted(l) \/ LaunchLoads(l) \/ LaunchDies(l) \/ LaunchClears(l)
      PROVE  /\ launch' \in [Launches -> {"none", "pending", "loaded", "gone"}]
             /\ launch[l] = "none" => LaunchAdmitted(l) /\ launch'[l] = "pending"
             /\ launch[l] # "none" => ~LaunchAdmitted(l)
             /\ LaunchClears(l) => launch'[l] = "none"
             /\ \A m \in Launches \ {l} : launch'[m] = launch[m]
             /\ launch'[l] # launch[l]
      BY <1>1, <1>3 DEF LaunchAdmitted, LaunchLoads, LaunchDies, LaunchClears
<1>4. ASSUME NEW l \in Launches,
             LaunchAdmitted(l) \/ LaunchLoads(l) \/ LaunchDies(l) \/ LaunchClears(l)
      PROVE  /\ \A m \in Launches : launch'[m] # "none" => launch[m] # "none" \/ LaunchAdmitted(m)
             /\ \A m \in Launches : LaunchClears(m) => launch'[m] = "none"
             /\ \A m \in Launches : LaunchAdmitted(m) => launch[m] = "none"
      BY <1>3, <1>4
<1>5. ASSUME NEW next, StopTo(next) PROVE UNCHANGED launch
      BY <1>5 DEF StopTo
<1>6. CASE Setup \/ AdoptSaved \/ Stop \/ Status \/ Crash \/ UNCHANGED vars
      BY <1>2, <1>5, <1>6 DEF Setup, AdoptSaved, Stop, Status, StatusBegins, StatusReads,
                              StatusClears, Crash, vars
<1>7. CASE Start
      BY <1>2, <1>5, <1>7 DEF Start, StartBegins, Settle, Admit, AdmitRefused, SpawnWorker,
                              ChatHealthy, DecisionHealthy, StartFails, CleanUp
<1>8. CASE EnsureContext
      BY <1>2, <1>5, <1>8 DEF EnsureContext, GrowBegins, ResizeRefused, Resize, Retire, Grow,
                              Restore, GrownHealthy, GrownFails, Drop, Fallback, FallbackEnds
<1>9. ASSUME NEW p \in Children,
             ChatLoads(p) \/ Claims(p) \/ DecisionLoads(p) \/ Relabels(p) \/ Leaves(p) \/ Exits(p)
      PROVE  UNCHANGED launch
      BY <1>9 DEF ChatLoads, Claims, DecisionLoads, Relabels, Leaves, Exits, Moves
<1>10. QED
       BY <1>2, <1>3, <1>4, <1>6, <1>7, <1>8, <1>9 DEF Next

\* A chat worker of this assistant is an earlier one that stays where it is, or the
\* one that a spawn has just put in its place.
LEMMA ChatMoves ==
  ASSUME ShapeInv, StageInv, [Next]_vars, NEW p \in Children, MyChat(p)'
  PROVE  \/ tracked'["chat"] = p /\ pc' # "chat"
         \/ /\ MyChat(p) /\ child'[p].owner = child[p].owner
            /\ \/ tracked["chat"] = p => tracked'["chat"] = p
               \/ pc = "chat" /\ pc' # "chat"
<1>1. "chat" \in Roles /\ "decision" \in Roles /\ \A q \in Live : child[q].role \in Roles
      BY Constant, LiveFacts DEF Process
<1>2. p \in Live' /\ child'[p].role = "chat" /\ child'[p].ours
      BY DEF MyChat
<1>3. CASE Still
      BY <1>2, <1>3 DEF Still, MyChat, Live
<1>4. CASE ChatEnds
  <2>1. PICK V : Terminate({tracked["chat"]}, V) /\ tracked' = tracked
        BY <1>4 DEF ChatEnds
  <2>2. /\ Live' = Live \ ({tracked["chat"]} \ V)
        /\ \A q \in Live' : child'[q] = child[q]
        BY <2>1, TerminateEffect
  <2>3. QED
        BY <1>2, <2>1, <2>2 DEF MyChat
<1>5. CASE AllEnd
  <2>1. PICK V \in SUBSET Tracked : TerminateAll(V)
        BY <1>5 DEF AllEnd
  <2>2. /\ Terminate(Tracked, V)
        /\ \A r \in Roles : tracked'[r] = IF tracked[r] \in V THEN tracked[r] ELSE Absent
        BY <2>1, StopEffect
  <2>3. /\ Live' = Live \ (Tracked \ V)
        /\ \A q \in Live' : child'[q] = child[q]
        BY <2>2, TerminateEffect
  <2>4. tracked["chat"] = p => p \in Tracked
        BY <1>1, <1>2, <2>3, LiveFacts
  <2>5. QED
        BY <1>1, <1>2, <2>2, <2>3, <2>4 DEF MyChat
<1>6. CASE Starts
  <2>1. PICK role \in Roles, c \in 1..2 :
          /\ Spawn(role, token, c)
          /\ role = "chat" => pc' # "chat" /\ (pc = "chat" \/ tracked["chat"] \notin Live)
        BY <1>6 DEF Starts
  <2>2. token \in Tokens \cup {Absent}
        BY DEF ShapeInv
  <2>3. PICK n \in Children \ (Live \cup Tracked) :
          /\ Live' = Live \cup {n}
          /\ tracked'[role] = n
          /\ \A r \in Roles \ {role} : tracked'[r] = tracked[r]
          /\ child'[n].role = role
          /\ \A q \in Live : child'[q] = child[q]
        BY <2>1, <2>2, SpawnEffect
  <2>4. CASE role = "chat"
    <3>1. CASE p = n
          BY <2>1, <2>3, <2>4, <3>1
    <3>2. CASE p # n
      <4>1. p \in Live /\ child'[p] = child[p]
            BY <1>2, <2>3, <3>2
      <4>2. QED
            BY <1>2, <2>1, <2>4, <4>1 DEF MyChat
    <3>3. QED
          BY <3>1, <3>2
  <2>5. CASE role = "decision"
    <3>1. p \in Live /\ child'[p] = child[p]
          BY <1>2, <2>3, <2>5
    <3>2. tracked'["chat"] = tracked["chat"]
          BY <1>1, <2>3, <2>5
    <3>3. QED
          BY <1>2, <3>1, <3>2 DEF MyChat
  <2>6. QED
        BY <2>4, <2>5, Constant
<1>7. CASE Crash
  <2>1. child' = [q \in Children |-> [child[q] EXCEPT !.ours = FALSE]]
        BY <1>7 DEF Crash
  <2>2. ~child'[p].ours
        BY <2>1 DEF ShapeInv, Process
  <2>3. QED
        BY <1>2, <2>2
<1>8. ASSUME NEW q \in Children, Steps(q)
      PROVE  MyChat(p) /\ child'[p].owner = child[p].owner /\ tracked' = tracked
  <2>1. PICK role \in Roles, from \in {"boot", "claimed", "loaded", "serving"},
             to \in {"claimed", "loaded", "serving", "leaving"} : Moves(q, role, from, to)
        BY <1>8 DEF Steps
  <2>2. /\ Live' = Live /\ tracked' = tracked
        /\ \A m \in Children : /\ child'[m].role = child[m].role
                               /\ child'[m].owner = child[m].owner
                               /\ child'[m].ours = child[m].ours
        BY <2>1, MoveEffect
  <2>3. QED
        BY <1>2, <2>2 DEF MyChat
<1>9. ASSUME NEW q \in Children, Exits(q)
      PROVE  MyChat(p) /\ child'[p].owner = child[p].owner /\ tracked' = tracked
  <2>1. Terminate({q}, {}) /\ tracked' = tracked
        BY <1>9 DEF Exits, Terminate, managerVars, Died
  <2>2. Live' = Live \ {q} /\ \A m \in Live' : child'[m] = child[m]
        BY <2>1, TerminateEffect
  <2>3. QED
        BY <1>2, <2>1, <2>2 DEF MyChat
<1>10. QED
       BY <1>3, <1>4, <1>5, <1>6, <1>7, <1>8, <1>9, StepKinds, WorkKinds

\* A decision worker that may still load a model was one before, or starts now.
LEMMA DecisionMoves ==
  ASSUME BaseInv, DecisionInv, [Next]_vars, NEW p \in Unfinished'
  PROVE  \/ p \in Unfinished /\ child'[p].owner = child[p].owner
         \/ pc = "decision" /\ pc' = "health_chat"
<1>1. ShapeInv /\ StageInv /\ child \in [Children -> Process] /\ doomed \subseteq Live
      BY DEF BaseInv, ShapeInv
<1>2. /\ p \in Live' /\ p \notin doomed' /\ child'[p].role = "decision" /\ p \in Children
      /\ \/ child'[p].st \in {"claimed", "loaded"}
         \/ child'[p].st = "boot" /\ child'[p].ours
      BY DEF Unfinished, Live
<1>3. ASSUME p \in Live, p \notin doomed, child'[p] = child[p]
      PROVE  p \in Unfinished /\ child'[p].owner = child[p].owner
      BY <1>2, <1>3 DEF Unfinished
<1>4. CASE Still
      BY <1>2, <1>3, <1>4 DEF Still, Live
<1>5. ASSUME NEW S, NEW V, Terminate(S, V)
      PROVE  p \in Unfinished /\ child'[p].owner = child[p].owner
  <2>1. /\ Live' = Live \ (S \ V)
        /\ \A q \in Live' : child'[q] = child[q]
        /\ doomed' = (doomed \cup V) \ (S \ V)
        BY <1>1, <1>5, TerminateEffect
  <2>2. QED
        BY <1>2, <1>3, <2>1
<1>6. CASE ChatEnds
      BY <1>5, <1>6 DEF ChatEnds
<1>7. CASE AllEnd
      BY <1>5, <1>7 DEF AllEnd, TerminateAll
<1>8. CASE Starts
  <2>1. PICK role \in Roles, c \in 1..2 :
          /\ Spawn(role, token, c)
          /\ role = "decision" => pc = "decision" /\ pc' = "health_chat"
        BY <1>8 DEF Starts
  <2>2. token \in Tokens \cup {Absent}
        BY <1>1 DEF ShapeInv
  <2>3. /\ doomed' = doomed
        /\ \E n \in Children \ (Live \cup Tracked) :
             /\ Live' = Live \cup {n}
             /\ child'[n].role = role
             /\ \A q \in Live : child'[q] = child[q]
        BY <1>1, <2>1, <2>2, SpawnEffect
  <2>4. QED
        BY <1>2, <1>3, <2>1, <2>3
<1>9. CASE Crash
  <2>1. /\ child' = [q \in Children |-> [child[q] EXCEPT !.ours = FALSE]]
        /\ doomed' = doomed
        BY <1>9 DEF Crash
  <2>2. \A q \in Children : /\ child'[q].st = child[q].st /\ child'[q].role = child[q].role
                            /\ child'[q].owner = child[q].owner /\ ~child'[q].ours
        BY <1>1, <2>1 DEF Process
  <2>3. QED
        BY <1>2, <2>1, <2>2 DEF Unfinished, Live
<1>10. ASSUME NEW q \in Children, Works(q), ~Exits(q)
       PROVE  p \in Unfinished /\ child'[p].owner = child[p].owner
  <2>1. PICK role \in Roles, from \in {"boot", "claimed", "loaded", "serving"},
             to \in {"claimed", "loaded", "serving", "leaving"} : Moves(q, role, from, to)
        BY <1>10, WorkKinds DEF Steps
  <2>2. /\ Live' = Live /\ doomed' = doomed /\ child'[q].st = to /\ child[q].st = from
        /\ child[q].role = role
        /\ \A m \in Children : /\ child'[m].role = child[m].role
                               /\ child'[m].owner = child[m].owner
                               /\ child'[m].ours = child[m].ours
                               /\ m # q => child'[m].st = child[m].st
        BY <1>1, <2>1, MoveEffect
  <2>3. CASE p # q
        BY <1>2, <2>2, <2>3 DEF Unfinished
  <2>4. CASE p = q
    <3>1. ASSUME Claims(p) PROVE child[p].ours /\ child[p].st = "boot"
          BY <3>1 DEF Claims, ClaimReservation, Moves
    <3>2. ASSUME DecisionLoads(p) PROVE child[p].st = "claimed"
          BY <3>2 DEF DecisionLoads, Moves
    <3>3. ASSUME ChatLoads(p) \/ Relabels(p) \/ Leaves(p)
          PROVE  child'[p].st \in {"serving", "leaving"}
      <4>1. child[p].st # "dead" /\ \E t \in {"serving", "leaving"} :
               child' = [child EXCEPT ![p].st = t]
            BY <3>3 DEF ChatLoads, Relabels, Leaves, Moves
      <4>2. QED
            BY <4>1, <1>1, <1>10, <2>4
    <3>4. Claims(p) \/ DecisionLoads(p)
          BY <1>2, <1>10, <2>4, <3>3 DEF Works
    <3>5. QED
          BY <1>2, <2>2, <2>4, <3>1, <3>2, <3>4 DEF Unfinished
  <2>5. QED
        BY <2>3, <2>4
<1>11. ASSUME NEW q \in Children, Exits(q)
       PROVE  p \in Unfinished /\ child'[p].owner = child[p].owner
  <2>1. Terminate({q}, {})
        BY <1>11 DEF Exits, Terminate, Died
  <2>2. QED
        BY <1>5, <2>1
<1>12. QED
       BY <1>1, <1>4, <1>6, <1>7, <1>8, <1>9, <1>10, <1>11, StepKinds

\* Where an operation may come from, and the reading of the memory that it holds.
LEMMA StageMoves ==
  ASSUME ShapeInv, ContextInv, [Next]_vars
  PROVE  /\ Growing' => Resize \/ (Growing /\ token' = token /\ ~Restore)
         /\ Steady' => Steady \/ DecisionHealthy
         /\ pc' \in {"chat", "decision"} => Admit \/ pc \in {"chat", "decision"}
         /\ pc' = "chat" => Admit \/ pc = "chat"
         /\ pc' = "admit" => Settle \/ (pc = "admit" /\ available' = available)
         /\ pc' = "resize" => GrowBegins \/ (pc = "resize" /\ available' = available)
         /\ \/ available' \in {available, 0}
            \/ Settle \/ \E S : available' = AvailableWithout(S)
<1> DEFINE Moved ==
  /\ Growing' => Resize \/ (Growing /\ token' = token /\ ~Restore)
  /\ Steady' => Steady \/ DecisionHealthy
  /\ pc' \in {"chat", "decision"} => Admit \/ pc \in {"chat", "decision"}
  /\ pc' = "chat" => Admit \/ pc = "chat"
  /\ pc' = "admit" => Settle \/ (pc = "admit" /\ available' = available)
  /\ pc' = "resize" => GrowBegins \/ (pc = "resize" /\ available' = available)
  /\ \/ available' \in {available, 0}
     \/ Settle \/ \E S : available' = AvailableWithout(S)
<1> SUFFICES Moved
    OBVIOUS
<1>1. ASSUME UNCHANGED <<pc, token, available>>, state' = "ready" => state = "ready", ~Restore
      PROVE  Moved
      BY <1>1 DEF Growing, Steady
<1>2. ASSUME NEW next \in {"free", "settle"}, StopTo(next) PROVE Moved
      BY <1>2 DEF StopTo, Growing, Steady
<1>3. ASSUME Restore
      PROVE  /\ Growing /\ pc' \in {"free", "fallback"} /\ available' = 0
             /\ Steady
      BY <1>3 DEF Restore, Restores, Growing, Steady
<1>4. CASE Restore
      BY <1>3, <1>4 DEF Growing
<1>5. CASE Setup \/ AdoptSaved
  <2>1. pc = "free" /\ UNCHANGED <<pc, token, available, state>>
        BY <1>5 DEF Setup, AdoptSaved, Begins
  <2>2. ~Restore
        BY <2>1 DEF Restore
  <2>3. QED
        BY <1>1, <2>1, <2>2
<1>6. CASE Start
  <2>1. CASE StartBegins
    <3>1. StopTo("settle") \/ (pc' = "settle" /\ UNCHANGED <<token, available>>)
          BY <2>1 DEF StartBegins
    <3>2. QED
          BY <3>1, <1>2 DEF Growing, Steady
  <2>2. CASE Settle
    <3>1. /\ pc = "settle" /\ pc' \in {"free", "admit"} /\ state' = state
          BY <2>2 DEF Settle
    <3>2. state # "ready"
          BY <3>1 DEF ContextInv
    <3>3. QED
          BY <2>2, <3>1, <3>2 DEF Growing, Steady
  <2>3. CASE Admit
    <3>1. pc' = "chat" /\ available' = 0
          BY <2>3 DEF Admit
    <3>2. QED
          BY <2>3, <3>1 DEF Growing, Steady
  <2>4. CASE AdmitRefused \/ CleanUp
    <3>1. pc' = "free" /\ state' = "down" /\ available' \in {available, 0}
          BY <2>4 DEF AdmitRefused, CleanUp
    <3>2. QED
          BY <3>1 DEF Growing, Steady
  <2>5. ASSUME NEW r \in Roles, SpawnWorker(r) PROVE Moved
    <3>1. /\ pc = r /\ pc' = IF r = "chat" THEN "decision" ELSE "health_chat"
          /\ available' = available
          BY <2>5 DEF SpawnWorker, AfterSpawn
    <3>2. QED
          BY <3>1, Constant DEF Growing, Steady
  <2>6. CASE ChatHealthy \/ StartFails
    <3>1. pc' \in {"health_decision", "failed"} /\ available' = available
          BY <2>6 DEF ChatHealthy, StartFails
    <3>2. QED
          BY <3>1 DEF Growing, Steady
  <2>7. CASE DecisionHealthy
    <3>1. pc' = "free" /\ available' = available
          BY <2>7 DEF DecisionHealthy
    <3>2. QED
          BY <2>7, <3>1 DEF Growing, Steady
  <2>8. QED
        BY <1>6, <2>1, <2>2, <2>3, <2>4, <2>5, <2>6, <2>7 DEF Start
<1>7. CASE EnsureContext /\ ~Restore
  <2>1. CASE GrowBegins
    <3>1. /\ pc = "free" /\ state = "ready" /\ pc' = "resize"
          /\ available' = AvailableWithout({})
          BY <2>1 DEF GrowBegins, Begins
    <3>2. QED
          BY <2>1, <3>1 DEF Growing, Steady
  <2>2. CASE ResizeRefused \/ GrownHealthy \/ GrownFails
    <3>1. /\ pc \in {"resize", "grown"} /\ pc' \in {"free", "drop"} /\ available' \in {available, 0}
          /\ pc' = "drop" => pc = "grown" /\ token' = token
          BY <2>2 DEF ResizeRefused, GrownHealthy, GrownFails, managerVars
    <3>2. QED
          BY <1>7, <3>1 DEF Growing, Steady
  <2>3. CASE Resize
    <3>1. pc = "resize" /\ pc' = "retire" /\ available' = 0
          BY <2>3 DEF Resize
    <3>2. QED
          BY <2>3, <3>1 DEF Growing, Steady
  <2>4. CASE Retire \/ Grow
    <3>1. /\ pc \in {"retire", "grow"} /\ pc' \in {"keep", "grow", "grown"} /\ token' = token
          /\ available' = available \/ available' = AvailableWithout({})
          BY <2>4 DEF Retire, Grow, managerVars
    <3>2. QED
          BY <1>7, <3>1 DEF Growing, Steady
  <2>5. CASE Drop
    <3>1. CASE StopTo("free")
          BY <3>1, <1>2
    <3>2. CASE ~StopTo("free")
      <4>1. /\ pc = "drop" /\ pc' = "restore" /\ token' = token
            /\ available' = AvailableWithout({tracked["chat"]})
            BY <2>5, <3>2 DEF Drop, managerVars
      <4>2. QED
            BY <1>7, <4>1 DEF Growing, Steady
    <3>3. QED
          BY <3>1, <3>2
  <2>6. CASE Fallback \/ FallbackEnds
    <3>1. CASE StopTo("free")
          BY <3>1, <1>2
    <3>2. CASE ~StopTo("free")
      <4>1. /\ pc \in {"fallback", "fallback_health"} /\ pc' \in {"fallback_health", "free"}
            /\ available' = available
            BY <2>6, <3>2 DEF Fallback, FallbackEnds
      <4>2. QED
            BY <4>1 DEF Growing, Steady
    <3>3. QED
          BY <3>1, <3>2
  <2>7. QED
        BY <1>7, <2>1, <2>2, <2>3, <2>4, <2>5, <2>6 DEF EnsureContext
<1>8. CASE Status /\ ~Restore
  <2>1. UNCHANGED <<pc, token, available>> /\ state' \in {state, "down"}
        BY <1>8 DEF Status, StatusBegins, StatusReads, StatusClears, managerVars
  <2>2. QED
        BY <1>1, <1>8, <2>1
<1>9. CASE Crash
  <2>1. pc' = "free" /\ state' = "down" /\ available' = 0
        BY <1>9 DEF Crash
  <2>2. QED
        BY <2>1 DEF Growing, Steady
<1>10. ASSUME ~Restore, NEW p \in Children,
              ChatLoads(p) \/ Claims(p) \/ DecisionLoads(p) \/ Relabels(p) \/ Leaves(p) \/ Exits(p)
       PROVE  Moved
  <2>1. UNCHANGED <<pc, token, available, state>>
        BY <1>10 DEF ChatLoads, Claims, DecisionLoads, Relabels, Leaves, Exits, Moves, managerVars
  <2>2. QED
        BY <1>1, <1>10, <2>1
<1>11. ASSUME ~Restore, NEW l \in Launches,
              LaunchAdmitted(l) \/ LaunchLoads(l) \/ LaunchDies(l) \/ LaunchClears(l)
       PROVE  Moved
  <2>1. UNCHANGED <<pc, token, available, state>>
        BY <1>11 DEF LaunchAdmitted, LaunchLoads, LaunchDies, LaunchClears, LaunchGo, managerVars
  <2>2. QED
        BY <1>1, <1>11, <2>1
<1>12. CASE UNCHANGED vars /\ ~Restore
       BY <1>1, <1>12 DEF vars, managerVars
<1>13. CASE Stop
       BY <1>2, <1>13 DEF Stop
<1> HIDE DEF Moved
<1>14. CASE ~Restore
  <2>1. CASE Next
        BY <1>14, <2>1, <1>5, <1>6, <1>7, <1>8, <1>9, <1>10, <1>11, <1>13 DEF Next
  <2>2. QED
        BY <1>14, <2>1, <1>12
<1>15. QED
       BY <1>4, <1>14

LEMMA FileInvStep ==
  ASSUME ShapeInv, FileInv, GrownInv, [Next]_vars
  PROVE  FileInv'
<1>1. /\ launch' \in [Launches -> {"none", "pending", "loaded", "gone"}]
      /\ \A l \in Launches : launch'[l] # "none" => launch[l] # "none" \/ LaunchAdmitted(l)
      /\ \A l \in Launches : LaunchClears(l) => launch'[l] = "none"
      BY LaunchMoves DEF FileInv
<1>2. ASSUME "chat" \in Held'
      PROVE  /\ file'["chat"].state = "pending"
             /\ file'["chat"].bytes \in {ChatBytes[1], ChatBytes[2]}
  <2>1. "chat" \notin Launches /\ "chat" # "decision" /\ Bytes("chat", 1) = ChatBytes[1]
        BY Constant DEF Bytes
  <2>2. QED
        BY <1>2, <2>1, RecordMoves DEF FileInv
<1>3. ASSUME "decision" \in Held'
      PROVE  /\ file'["decision"].bytes = DecisionBytes
             /\ file'["decision"].state = "resident" =>
                  file'["decision"].floor = DecisionWeights
  <2>1. "decision" \notin Launches /\ Bytes("decision", 1) = DecisionBytes
        BY Constant DEF Bytes
  <2>2. QED
        BY <1>3, <2>1, RecordMoves DEF FileInv
<1>4. ASSUME NEW l \in Launches, l \in Held' PROVE file'[l].state = "pending"
  <2>1. l \notin Roles /\ l # "decision"
        BY Constant
  <2>2. QED
        BY <1>4, <2>1, RecordMoves DEF FileInv
<1>5. ASSUME NEW l \in Launches, launch'[l] # "none" PROVE l \in Held'
  <2>1. ASSUME l \in Held \ Held' PROVE FALSE
    <3>1. LaunchClears(l)
          BY <2>1, RecordMoves, Constant
    <3>2. QED
          BY <3>1, <1>1, <1>5
  <2>2. LaunchAdmitted(l) => l \in Held'
        BY FileEffects
  <2>3. launch[l] # "none" => l \in Held
        BY DEF FileInv
  <2>4. QED
        BY <1>1, <1>5, <2>1, <2>2, <2>3
<1>6. QED
      BY <1>1, <1>2, <1>3, <1>4, <1>5 DEF FileInv

LEMMA GrownStep ==
  ASSUME ShapeInv, ContextInv, GrownInv, [Next]_vars
  PROVE  GrownInv'
<1> SUFFICES ASSUME Growing', Owned("chat", token)'
             PROVE  file'["chat"].bytes = ChatBytes[2]
    BY DEF GrownInv
<1>1. "chat" \in Held' /\ file'["chat"].owner = token'
      BY DEF Owned
<1>2. Resize \/ (Growing /\ token' = token /\ ~Restore)
      BY StageMoves
<1>3. CASE Resize
  <2>1. /\ ResizeReservation("chat", ChatBytes[2], token, available)
        BY <1>3 DEF Resize
  <2>2. "chat" \in Held /\ file'["chat"] = [file["chat"] EXCEPT !.bytes = ChatBytes[2]]
        BY <2>1, FileEffects, Sizes
  <2>3. file["chat"] \in Record
        BY <2>2, FileFacts DEF ShapeInv, FileType
  <2>4. QED
        BY <2>2, <2>3 DEF Record
<1>4. CASE Growing /\ token' = token /\ ~Restore
  <2>1. ~Admit /\ ~Shrinks /\ "chat" \notin Launches
        BY <1>4, Constant DEF Admit, Growing, Shrinks
  <2>2. /\ "chat" \in Held /\ file'["chat"].owner = file["chat"].owner
        /\ file'["chat"].bytes \in {file["chat"].bytes, ChatBytes[2]}
        BY <1>1, <2>1, RecordMoves
  <2>3. Owned("chat", token)
        BY <1>1, <1>4, <2>2 DEF Owned
  <2>4. QED
        BY <1>4, <2>2, <2>3 DEF GrownInv
<1>5. QED
      BY <1>2, <1>3, <1>4

LEMMA OwnerStep ==
  ASSUME ShapeInv, StageInv, ContextInv, OwnerInv, [Next]_vars
  PROVE  OwnerInv'
<1>1. ASSUME Admit, NEW p \in Children, MyChat(p)' PROVE ~Owned("chat", child[p].owner)'
  <2>1. UNCHANGED <<child>> /\ token' \in SpareTokens
        BY <1>1, FileEffects DEF Admit, workerVars
  <2>2. p \in Live /\ child'[p].owner # token'
        BY <1>1, <2>1 DEF MyChat, Live, SpareTokens
  <2>3. file'["chat"].owner = token'
        BY <1>1, FileEffects DEF Pending
  <2>4. QED
        BY <2>2, <2>3 DEF Owned
<1>2. ASSUME ~Admit, NEW o, "chat" \in Held', file'["chat"].owner = o PROVE Owned("chat", o)
  <2>1. "chat" \notin Launches
        BY Constant
  <2>2. QED
        BY <1>2, <2>1, RecordMoves DEF Owned
<1>3. ASSUME NEW p \in Children, MyChat(p)', Owned("chat", child[p].owner)'
      PROVE  tracked'["chat"] = p /\ pc' # "chat"
  <2>1. ~Admit
        BY <1>1, <1>3
  <2>2. Owned("chat", child'[p].owner)
        BY <1>2, <1>3, <2>1 DEF Owned
  <2>3. pc' = "chat" => pc = "chat"
        BY <2>1, StageMoves
  <2>4. CASE tracked'["chat"] = p /\ pc' # "chat"
        BY <2>4
  <2>5. CASE /\ MyChat(p) /\ child'[p].owner = child[p].owner
             /\ \/ tracked["chat"] = p => tracked'["chat"] = p
                \/ pc = "chat" /\ pc' # "chat"
    <3>1. tracked["chat"] = p /\ pc # "chat"
          BY <2>2, <2>5 DEF OwnerInv
    <3>2. QED
          BY <2>3, <2>5, <3>1
  <2>6. QED
        BY <1>3, <2>4, <2>5, ChatMoves
<1>4. QED
      BY <1>3 DEF OwnerInv

LEMMA LoadStep ==
  ASSUME BaseInv, LostInv, DecisionInv, LoadInv, [Next]_vars
  PROVE  LoadInv'
<1>1. ShapeInv /\ TrackInv /\ ContextInv
      BY DEF BaseInv
<1>2. "decision" \notin Launches /\ "decision" # "chat" /\ "decision" \in Roles
      BY Constant
<1>3. \/ "decision" \notin Held'
      \/ file'["decision"].state = "pending"
      \/ /\ "decision" \in Held /\ file'["decision"].owner = file["decision"].owner
         /\ file'["decision"].state = file["decision"].state
      \/ /\ "decision" \in Held /\ file'["decision"].owner = file["decision"].owner
         /\ \E q \in Children : Relabels(q)
      BY <1>1, <1>2, RecordMoves
<1>4. ASSUME NEW q \in Children, Relabels(q)
      PROVE  /\ q \in Committed /\ q \in Unfinished /\ q \notin Unfinished' /\ pc' = pc
             /\ Owned("decision", child[q].owner) /\ ~Lost("decision", child[q].owner)
  <2>1. Moves(q, "decision", "loaded", "serving")
        BY <1>4 DEF Relabels
  <2>2. /\ q \in Live \ doomed /\ child[q].role = "decision" /\ child[q].st = "loaded"
        /\ child'[q].st = "serving" /\ pc' = pc
        BY <1>1, <2>1, MoveEffect, Constant
  <2>3. Owned("decision", child[q].owner)
        BY <1>4 DEF Relabels, SetResident
  <2>4. QED
        BY <2>2, <2>3, OwnerKeeps DEF Committed, Unfinished
<1>5. ASSUME NEW p \in Unfinished', Owned("decision", child[p].owner)'
      PROVE  file'["decision"].state = "pending"
  <2>1. "decision" \in Held' /\ file'["decision"].owner = child'[p].owner
        BY <1>5 DEF Owned
  <2>2. CASE pc = "decision" /\ pc' = "health_chat"
    <3>1. \A q \in Children : ~Relabels(q)
          BY <2>2, <1>4
    <3>2. "decision" \in Held => file["decision"].state = "pending"
          BY <2>2 DEF LoadInv
    <3>3. QED
          BY <2>1, <1>3, <3>1, <3>2
  <2>3. CASE p \in Unfinished /\ child'[p].owner = child[p].owner
    <3>1. SUFFICES ASSUME "decision" \in Held, file'["decision"].owner = file["decision"].owner
                   PROVE  /\ file["decision"].state = "pending"
                          /\ \A q \in Children : ~Relabels(q)
          BY <2>1, <1>3
    <3>2. Owned("decision", child[p].owner)
          BY <2>1, <2>3, <3>1 DEF Owned
    <3>3. file["decision"].state = "pending"
          BY <2>3, <3>2 DEF LoadInv
    <3>4. ASSUME NEW q \in Children, Relabels(q) PROVE FALSE
      <4>1. q \in Committed /\ Holder(q) /\ q # p
            BY <1>4, <1>5, <3>4 DEF DecisionInv
      <4>2. /\ p \in Live /\ p \notin doomed /\ child[p].role = "decision"
            /\ \/ p \in Committed
               \/ child[p].st = "boot" /\ child[p].ours
            BY <2>3 DEF Unfinished, Committed, Live
      <4>3. CASE p \in Committed
        <5>1. ~Lost("decision", child[p].owner)
              BY <3>2, OwnerKeeps
        <5>2. QED
              BY <4>1, <4>3, <5>1 DEF DecisionInv, Holder
      <4>4. CASE child[p].ours
        <5>1. tracked["decision"] = p
              BY <1>1, <4>2, <4>4 DEF TrackInv
        <5>2. p # Absent
              BY <1>1, <4>2, LiveFacts
        <5>3. QED
              BY <4>1, <5>1, <5>2 DEF Holder
      <4>5. QED
            BY <4>2, <4>3, <4>4
    <3>5. QED
          BY <3>3, <3>4
  <2>4. QED
        BY <2>2, <2>3, <1>5, DecisionMoves
<1>6. ASSUME pc' \in {"chat", "decision"}, "decision" \in Held'
      PROVE  file'["decision"].state = "pending"
  <2>1. CASE Admit
        BY <2>1, <1>1, FileEffects DEF Pending
  <2>2. CASE ~Admit
    <3>1. pc \in {"chat", "decision"}
          BY <1>1, <1>6, <2>2, StageMoves
    <3>2. \A q \in Children : ~Relabels(q)
          BY <3>1, <1>4 DEF DecisionInv
    <3>3. "decision" \in Held => file["decision"].state = "pending"
          BY <3>1 DEF LoadInv
    <3>4. QED
          BY <1>3, <1>6, <3>2, <3>3
  <2>3. QED
        BY <2>1, <2>2
<1>7. ASSUME Steady', NEW p \in Unfinished' PROVE Lost("decision", child[p].owner)'
  <2>1. ~(pc' = "health_chat")
        BY <1>7 DEF Steady
  <2>2. p \in Unfinished /\ p \in Live /\ child'[p].owner = child[p].owner
        BY <1>7, <2>1, DecisionMoves DEF Unfinished
  <2> SUFFICES Lost("decision", child[p].owner)
      BY <1>1, <2>2, LostStays DEF Lost
  <2>3. CASE Steady
        BY <2>2, <2>3 DEF LoadInv
  <2>4. CASE DecisionHealthy
    <3>1. tracked["decision"] \in Live /\ child[tracked["decision"]].st = "serving"
          BY <2>4 DEF DecisionHealthy, Healthy
    <3>2. p # tracked["decision"] /\ tracked["decision"] # Absent
          BY <1>1, <2>2, <3>1, LiveFacts DEF Unfinished
    <3>3. CASE p \in Committed
          BY <3>2, <3>3 DEF DecisionInv, Holder
    <3>4. CASE child[p].ours
          BY <1>1, <2>2, <3>2, <3>4 DEF TrackInv, Unfinished
    <3>5. QED
          BY <2>2, <3>3, <3>4 DEF Unfinished, Committed, Live
  <2>5. QED
        BY <1>1, <1>7, <2>3, <2>4, StageMoves
<1>8. QED
      BY <1>5, <1>6, <1>7 DEF LoadInv

-----------------------------------------------------------------------------
(* What a step does to the memory that no record accounts for.             *)

\* A worker that is doomed and in memory was in memory, and is what it was.
LEMMA DoomedMoves ==
  ASSUME ShapeInv, StageInv, [Next]_vars, NEW p \in Children,
         p \in InMemory', p \in doomed', child'[p].ours
  PROVE  p \in InMemory /\ child'[p] = child[p] /\ (p \in doomed \/ p \in Tracked)
<1>1. /\ p \in Live' /\ child'[p].st \in {"loaded", "serving", "leaving"}
      BY DEF InMemory, Live
<1>2. ASSUME child'[p] = child[p] PROVE p \in InMemory
      BY <1>1, <1>2 DEF InMemory
<1>3. CASE Still
      BY <1>2, <1>3 DEF Still
<1>4. ASSUME NEW S, NEW V, Terminate(S, V)
      PROVE  child'[p] = child[p] /\ (p \in doomed \/ p \in S)
  <2>1. /\ \A q \in Live' : child'[q] = child[q]
        /\ doomed' = (doomed \cup V) \ (S \ V)
        /\ V \subseteq S \cap Live
        BY <1>4, TerminateEffect
  <2>2. QED
        BY <1>1, <2>1
<1>5. CASE ChatEnds
  <2>1. PICK V : Terminate({tracked["chat"]}, V)
        BY <1>5 DEF ChatEnds
  <2>2. child'[p] = child[p] /\ (p \in doomed \/ p = tracked["chat"])
        BY <2>1, <1>4
  <2>3. p # Absent
        BY Constant
  <2>4. QED
        BY <1>2, <2>2, <2>3, Constant DEF Tracked
<1>6. CASE AllEnd
      BY <1>2, <1>4, <1>6 DEF AllEnd, TerminateAll
<1>7. CASE Starts
  <2>1. PICK role \in Roles, c \in 1..2 : Spawn(role, token, c)
        BY <1>7 DEF Starts
  <2>2. token \in Tokens \cup {Absent}
        BY DEF ShapeInv
  <2>3. /\ doomed' = doomed
        /\ \E n \in Children \ (Live \cup Tracked) :
             /\ Live' = Live \cup {n}
             /\ child'[n].st = "boot"
             /\ \A q \in Live : child'[q] = child[q]
        BY <2>1, <2>2, SpawnEffect
  <2>4. child'[p] = child[p]
        BY <1>1, <2>3
  <2>5. QED
        BY <1>2, <2>3, <2>4
<1>8. CASE Crash
  <2>1. child' = [q \in Children |-> [child[q] EXCEPT !.ours = FALSE]]
        BY <1>8 DEF Crash
  <2>2. ~child'[p].ours
        BY <2>1 DEF ShapeInv, Process
  <2>3. QED
        BY <2>2
<1>9. ASSUME NEW q \in Children, Steps(q) PROVE child'[p] = child[p] /\ p \in doomed
  <2>1. PICK role \in Roles, from \in {"boot", "claimed", "loaded", "serving"},
             to \in {"claimed", "loaded", "serving", "leaving"} : Moves(q, role, from, to)
        BY <1>9 DEF Steps
  <2>2. q \notin doomed /\ doomed' = doomed /\ child' = [child EXCEPT ![q].st = to]
        BY <2>1 DEF Moves
  <2>3. QED
        BY <2>2 DEF ShapeInv
<1>10. ASSUME NEW q \in Children, Exits(q) PROVE child'[p] = child[p] /\ p \in doomed
  <2>1. Terminate({q}, {}) /\ Live' = Live \ {q}
    <3>1. Terminate({q}, {})
          BY <1>10 DEF Exits, Terminate, Died
    <3>2. QED
          BY <3>1, TerminateEffect
  <2>2. QED
        BY <1>1, <1>4, <2>1
<1>11. QED
       BY <1>2, <1>3, <1>5, <1>6, <1>7, <1>8, <1>9, <1>10, StepKinds, WorkKinds

\* A chat worker becomes a stray only when the chat record goes, and not to a status().
LEMMA StrayMoves ==
  ASSUME BaseInv, ChatInv, OwnerInv, [Next]_vars, NEW p \in Children, Stray(p)'
  PROVE  /\ p \in InMemory /\ child'[p] = child[p]
         /\ \/ Stray(p)
            \/ p = tracked["chat"] /\ "chat" \in Held \ Held' /\ ~StatusClears
<1>1. ShapeInv /\ StageInv /\ TrackInv
      BY DEF BaseInv
<1>2. /\ p \in InMemory' /\ p \in doomed' /\ child'[p].role = "chat" /\ child'[p].ours
      /\ ~Owned("chat", child[p].owner)' /\ ~Stripped(p)'
      BY DEF Stray
<1>3. p \in InMemory /\ child'[p] = child[p] /\ (p \in doomed \/ p \in Tracked)
      BY <1>1, <1>2, DoomedMoves
<1>4. CASE Owned("chat", child[p].owner)
  <2>1. tracked["chat"] = p /\ "chat" \in Held
    <3>1. MyChat(p)
          BY <1>2, <1>3 DEF MyChat, InMemory, Live
    <3>2. QED
          BY <1>4, <3>1 DEF OwnerInv, Owned
  <2>2. ASSUME "chat" \in Held' PROVE file'["chat"].owner = file["chat"].owner
        BY <1>1, <2>1, <2>2, RecordMoves
  <2>3. "chat" \notin Held'
        BY <1>2, <1>3, <1>4, <2>2 DEF Owned
  <2>4. ASSUME StatusClears PROVE FALSE
    <3>1. file'["chat"] = file["chat"] => "chat" \in Held'
          BY <2>1 DEF Held
    <3>2. <<"chat", file["chat"].owner>> \in stripped'
          BY <1>1, <2>3, <2>4, <3>1, ClearEffect, Constant
    <3>3. QED
          BY <1>2, <1>3, <1>4, <3>2 DEF Owned, Stripped
  <2>5. QED
        BY <1>3, <2>1, <2>3, <2>4
<1>5. CASE ~Owned("chat", child[p].owner)
  <2>1. p \in Live /\ child[p].role = "chat"
        BY <1>2, <1>3 DEF InMemory, Live
  <2>2. ~Stripped(p)
        BY <1>1, <1>2, <1>3, <2>1, StrippedStays
  <2>3. ASSUME p \notin doomed PROVE FALSE
    <3>1. PICK r \in Roles : tracked[r] = p
          BY <1>3, <2>3 DEF Tracked
    <3>2. r = "chat"
          BY <1>1, <2>1, <3>1 DEF TrackInv
    <3>3. ~Lost("chat", child[p].owner)
          BY <2>1, <2>2 DEF Stripped, Lost
    <3>4. QED
          BY <1>5, <2>1, <2>3, <3>1, <3>2, <3>3 DEF ChatInv, ChatBacked, ChatHas
  <2>4. QED
        BY <1>2, <1>3, <1>5, <2>2, <2>3 DEF Stray
<1>6. QED
      BY <1>4, <1>5

\* A decision worker that has claimed its record is loaded, or loads now.
LEMMA LoadedMoves ==
  ASSUME ShapeInv, StageInv, [Next]_vars, NEW p \in InMemory' \cap Committed'
  PROVE  /\ p \in InMemory \cap Committed \/ DecisionLoads(p)
         /\ child'[p].role = child[p].role /\ child'[p].owner = child[p].owner
<1> DEFINE Same == child'[p].role = child[p].role /\ child'[p].owner = child[p].owner
<1>1. /\ p \in Children /\ p \in Live' /\ child'[p].role = "decision"
      /\ child'[p].st \in {"loaded", "serving"}
      BY DEF InMemory, Committed, Live
<1>2. ASSUME child'[p].st = child[p].st, Same
      PROVE  p \in InMemory \cap Committed /\ Same
      BY <1>1, <1>2 DEF InMemory, Committed
<1>3. CASE Still
      BY <1>2, <1>3 DEF Still
<1>4. ASSUME NEW S, NEW V, Terminate(S, V) PROVE child'[p] = child[p]
      BY <1>1, <1>4, TerminateEffect
<1>5. CASE ChatEnds \/ AllEnd
      BY <1>2, <1>4, <1>5 DEF ChatEnds, AllEnd, TerminateAll
<1>6. CASE Starts
  <2>1. PICK role \in Roles, c \in 1..2 : Spawn(role, token, c)
        BY <1>6 DEF Starts
  <2>2. token \in Tokens \cup {Absent}
        BY DEF ShapeInv
  <2>3. \E n \in Children \ (Live \cup Tracked) :
          /\ Live' = Live \cup {n}
          /\ child'[n].st = "boot"
          /\ \A q \in Live : child'[q] = child[q]
        BY <2>1, <2>2, SpawnEffect
  <2>4. QED
        BY <1>1, <1>2, <2>3
<1>7. CASE Crash
  <2>1. child' = [q \in Children |-> [child[q] EXCEPT !.ours = FALSE]]
        BY <1>7 DEF Crash
  <2>2. QED
        BY <1>1, <1>2, <2>1 DEF ShapeInv, Process
<1>8. ASSUME NEW q \in Children, Works(q), ~Exits(q)
      PROVE  (p \in InMemory \cap Committed \/ DecisionLoads(p)) /\ Same
  <2>1. PICK role \in Roles, from \in {"boot", "claimed", "loaded", "serving"},
             to \in {"claimed", "loaded", "serving", "leaving"} : Moves(q, role, from, to)
        BY <1>8, WorkKinds DEF Steps
  <2>2. /\ child'[q].st = to /\ child[q].st = from
        /\ \A m \in Children : /\ child'[m].role = child[m].role
                               /\ child'[m].owner = child[m].owner
                               /\ m # q => child'[m].st = child[m].st
        BY <2>1, MoveEffect
  <2>3. CASE p # q
        BY <1>1, <1>2, <2>2, <2>3
  <2>4. CASE p = q
    <3>1. \A from2, to2 : Moves(p, "decision", from2, to2) =>
                             child[p].st = from2 /\ child'[p].st = to2
          BY <1>1 DEF Moves, ShapeInv, Process
    <3>2. ~Claims(p) /\ ~Leaves(p)
          BY <1>1, <3>1 DEF Claims, Leaves
    <3>3. ASSUME ChatLoads(p) PROVE FALSE
      <4>1. child[p].role = "chat"
            BY <3>3 DEF ChatLoads, Moves
      <4>2. QED
            BY <1>1, <2>2, <4>1
    <3>4. ASSUME Relabels(p) PROVE p \in InMemory \cap Committed
      <4>1. child[p].st = "loaded" /\ child[p].role = "decision"
            BY <3>4 DEF Relabels, Moves
      <4>2. QED
            BY <1>1, <4>1 DEF InMemory, Committed
    <3>5. Same
          BY <1>1, <2>2
    <3>6. QED
          BY <1>8, <2>4, <3>2, <3>3, <3>4, <3>5 DEF Works
  <2>5. QED
        BY <2>3, <2>4
<1>9. ASSUME NEW q \in Children, Exits(q) PROVE p \in InMemory \cap Committed /\ Same
  <2>1. Terminate({q}, {})
        BY <1>9 DEF Exits, Terminate, Died
  <2>2. QED
        BY <1>2, <1>4, <2>1
<1>10. QED
       BY <1>3, <1>5, <1>6, <1>7, <1>8, <1>9, StepKinds

\* A worker that relabels has claimed the record and had not relabelled it.
LEMMA RelabelFacts ==
  ASSUME BaseInv, DecisionInv, LoadInv, NEW q \in Children, Relabels(q)
  PROVE  /\ q \in Committed /\ q \in Unfinished /\ q \in InMemory
         /\ Owned("decision", child[q].owner)
         /\ "decision" \in Held /\ file["decision"].state = "pending"
<1>1. ShapeInv
      BY DEF BaseInv
<1>2. Moves(q, "decision", "loaded", "serving") /\ Owned("decision", child[q].owner)
      BY DEF Relabels, SetResident
<1>3. q \in Live \ doomed /\ child[q].role = "decision" /\ child[q].st = "loaded"
      BY <1>1, <1>2, MoveEffect, Constant
<1>4. q \in Committed /\ q \in Unfinished /\ q \in InMemory
      BY <1>3 DEF Committed, Unfinished, InMemory
<1>5. QED
      BY <1>2, <1>4 DEF LoadInv, Owned

\* What a worker uses beside a resident record, it used before or uses from now on.
LEMMA RelabelledMoves ==
  ASSUME BaseInv, LostInv, DecisionInv, LoadInv, DecisionInv', [Next]_vars,
         NEW p \in Children, Relabelled(p)'
  PROVE  Relabelled(p) \/ Relabels(p)
<1>1. ShapeInv /\ StageInv
      BY DEF BaseInv
<1>2. /\ p \in InMemory' \cap Committed' /\ "decision" \in Held'
      /\ file'["decision"].state = "resident" /\ ~Stripped(p)'
  <2>1. /\ p \in InMemory' /\ p \in Committed' /\ file'["decision"].state = "resident"
        /\ ~Stripped(p)'
        BY DEF Relabelled
  <2>2. ~Lost("decision", child[p].owner)'
        BY <2>1 DEF Committed, Stripped, Lost
  <2>3. QED
        BY <2>1, <2>2 DEF DecisionInv, Holder, Owned
<1>3. "decision" \notin Launches /\ "decision" # "chat"
      BY Constant
<1>4. /\ "decision" \in Held
      /\ file'["decision"].state = file["decision"].state \/ \E q \in Children : Relabels(q)
  <2>1. "resident" # "pending"
        OBVIOUS
  <2>2. QED
        BY <1>1, <1>2, <1>3, <2>1, RecordMoves
<1>5. ASSUME p \in Committed PROVE ~Stripped(p) /\ Holder(p)
  <2>1. p \in Live /\ child'[p].role = child[p].role /\ child'[p].owner = child[p].owner
        BY <1>1, <1>2, <1>5, LoadedMoves, LiveFacts
  <2>2. ~Stripped(p)
        BY <1>1, <1>2, <2>1, StrippedStays
  <2>3. QED
        BY <1>5, <2>2 DEF DecisionInv, Committed, Stripped, Lost
<1>6. CASE p \in InMemory \cap Committed
  <2>1. ASSUME NEW q \in Children, Relabels(q) PROVE q = p
    <3>1. q \in Committed /\ Owned("decision", child[q].owner)
          BY <2>1, RelabelFacts
    <3>2. Holder(q)
          BY <3>1, OwnerKeeps DEF DecisionInv
    <3>3. QED
          BY <1>5, <1>6, <3>2 DEF Holder
  <2>2. QED
        BY <1>2, <1>4, <1>5, <1>6, <2>1 DEF Relabelled
<1>7. CASE DecisionLoads(p)
  <2>1. Moves(p, "decision", "claimed", "loaded") /\ file' = file
        BY <1>7 DEF DecisionLoads
  <2>2. p \in Live \ doomed /\ child[p].role = "decision" /\ child[p].st = "claimed"
        BY <1>1, <2>1, MoveEffect, Constant
  <2>3. p \in Unfinished /\ p \in Committed
        BY <2>2 DEF Unfinished, Committed
  <2>4. file["decision"].state = "pending"
        BY <1>5, <2>3 DEF Holder, LoadInv
  <2>5. QED
        BY <1>2, <2>1, <2>4
<1>8. QED
      BY <1>1, <1>2, <1>6, <1>7, LoadedMoves

-----------------------------------------------------------------------------
(* What is promised and used fits, after every step.                       *)

SumTypes ==
  /\ Charges \in [Names -> Nat]
  /\ Strays \in [Children -> Nat] /\ Unbacked \in [Children -> Nat]
  /\ \A n \in Held : Charges[n] = Contribution(file[n]) /\ Contribution(file[n]) \in Nat
  /\ \A n \in Held : file[n].state = "pending" => Charges[n] = file[n].bytes

LEMMA SumShapes == ShapeInv /\ FileInv => SumTypes
<1> SUFFICES ASSUME ShapeInv, FileInv PROVE SumTypes
    OBVIOUS
<1>1. \A n \in Held : n \in Names /\ file[n] \in Record
      BY FileFacts DEF ShapeInv, FileType, Held
<1>2. ASSUME NEW n \in Held
      PROVE  /\ Contribution(file[n]) \in Nat
             /\ file[n].state = "pending" => Contribution(file[n]) = file[n].bytes
  <2>1. file[n].bytes \in Nat /\ file[n].state \in {"pending", "resident"}
        BY <1>1 DEF Record
  <2>2. CASE file[n].state = "pending"
        BY <2>1, <2>2 DEF Contribution
  <2>3. CASE file[n].state = "resident"
    <3>1. n = "decision"
          BY <1>1, <2>3, Constant DEF FileInv, Launches
    <3>2. Contribution(file[n]) = DecisionBytes - DecisionWeights
          BY <2>3, <3>1 DEF FileInv, Contribution
    <3>3. QED
          BY <2>3, <3>2, Sizes
  <2>4. QED
        BY <2>1, <2>2, <2>3
<1>3. Charges \in [Names -> Nat]
      BY <1>2 DEF Charges
<1>4. \A n \in Held : Charges[n] = Contribution(file[n])
      BY <1>1 DEF Charges
<1>5. Strays \in [Children -> Nat] /\ Unbacked \in [Children -> Nat]
      BY Sizes DEF Strays, Unbacked
<1>6. QED
      BY <1>2, <1>3, <1>4, <1>5 DEF SumTypes

LEMMA SumShapesNext == (ShapeInv /\ FileInv)' => SumTypes'
<1>1. ShapeInv /\ FileInv => SumTypes
      BY SumShapes
<1>2. QED
      BY <1>1, PTL

\* The headroom leaves room for what the records hold.
LEMMA HeadroomFacts ==
  ASSUME ShapeInv, FileInv, NEW S \in SUBSET Held, NEW a \in Int, NEW b \in Nat,
         Headroom(a, S, b) >= 0,
         NEW h \in [Names -> Nat], \A n \in Names : h[n] = 0 \/ (n \in S /\ h[n] = Charges[n])
  PROVE  SumFunction(h) + b <= a
<1> DEFINE c == [n \in S |-> Contribution(file[n])]
<1>1. /\ c \in [S -> Nat] /\ S \subseteq Names
      /\ \A n \in S : c[n] = Charges[n]
      BY SumShapes DEF Held, SumTypes
<1>2. IsFiniteSet(S)
      BY <1>1, Sizes, FS_Subset
<1>3. a - SumFunction(c) - b >= 0
      BY DEF Headroom
<1> HIDE DEF c
<1>4. SumFunction(h) <= SumFunction(c)
      BY <1>1, <1>2, Sizes, SumBelow
<1>5. SumFunction(c) \in Nat /\ SumFunction(h) \in Nat
      BY <1>1, <1>2, Sizes, SumFacts
<1>6. QED
      BY <1>3, <1>4, <1>5

\* The memory that is left, and what may be promised of it.
LEMMA AvailableBound ==
  ASSUME ShapeInv, NEW S
  PROVE  /\ AvailableWithout(S) \in Int
         /\ \A g \in [Children -> Nat] :
              (\A p \in Children : g[p] = 0 \/ (p \in InMemory \ S /\ g[p] <= Weights(child[p].role)))
                => AvailableWithout(S) + SumFunction(g) <= Memory
<1> DEFINE w == [p \in InMemory \ S |-> Weights(child[p].role)]
           v == [l \in Loaded |-> LaunchWeights]
<1>1. /\ InMemory \ S \subseteq Children /\ Loaded \subseteq Names
      /\ w \in [InMemory \ S -> Nat] /\ v \in [Loaded -> Nat]
      BY Sizes, Constant DEF InMemory, Loaded, Weights
<1>2. IsFiniteSet(InMemory \ S) /\ IsFiniteSet(Loaded)
      BY <1>1, Sizes, FS_Subset
<1>3. AvailableWithout(S) = Memory - SumFunction(w) - SumFunction(v)
      BY DEF AvailableWithout
<1>4. \A p \in InMemory \ S : w[p] = Weights(child[p].role)
      OBVIOUS
<1> HIDE DEF w, v
<1>5. SumFunction(w) \in Nat /\ SumFunction(v) \in Nat
      BY <1>1, <1>2, SumFacts
<1>6. ASSUME NEW g \in [Children -> Nat],
             \A p \in Children : g[p] = 0 \/ (p \in InMemory \ S /\ g[p] <= Weights(child[p].role))
      PROVE  AvailableWithout(S) + SumFunction(g) <= Memory
  <2>1. SumFunction(g) <= SumFunction(w)
        BY <1>1, <1>2, <1>4, <1>6, Sizes, SumBelow
  <2>2. SumFunction(g) \in Nat
        BY Sizes, SumFacts
  <2>3. QED
        BY <1>3, <1>5, <2>1, <2>2, Sizes
<1>7. QED
      BY <1>3, <1>5, <1>6, Sizes

\* What a record holds against others grows only where a transaction gives it more.
LEMMA ChargeMoves ==
  ASSUME BaseInv, FileInv, GrownInv, DecisionInv, LoadInv, [Next]_vars
  PROVE  /\ \A n \in Names : \/ Charges'[n] <= Charges[n]
                             \/ Admit /\ n \in Roles
                             \/ Resize /\ n = "chat"
                             \/ n \in Launches /\ LaunchAdmitted(n)
         /\ (\E q \in Children : Relabels(q)) =>
               Charges'["decision"] = Charges["decision"] - DecisionWeights
         /\ "chat" \in Held \ Held' => Charges["chat"] >= ChatWeights /\ Charges'["chat"] = 0
<1>1. ShapeInv /\ ShapeInv' /\ FileInv'
      BY ShapeStep, FileInvStep DEF BaseInv
<1>2. /\ Charges \in [Names -> Nat] /\ Charges' \in [Names -> Nat]
      /\ \A n \in Held : Charges[n] = Contribution(file[n])
      /\ \A n \in Held' : Charges'[n] = Contribution(file'[n])
      BY <1>1, SumShapes, SumShapesNext DEF SumTypes
<1>3. \A n \in Held : file[n] \in Record
      BY <1>1, FileFacts DEF ShapeInv, FileType
<1>4. \A n \in Names \ Held' : Charges'[n] = 0
      BY DEF Charges
<1>5. ASSUME NEW q \in Children, Relabels(q)
      PROVE  /\ "decision" \in Held /\ "decision" \in Held'
             /\ Charges["decision"] = DecisionBytes
             /\ Charges'["decision"] = DecisionBytes - DecisionWeights
  <2>1. "decision" \in Held /\ file["decision"].state = "pending"
        BY <1>5, RelabelFacts
  <2>2. /\ Held' = Held
        /\ file'["decision"] = [file["decision"] EXCEPT !.state = "resident",
                                                        !.floor = DecisionWeights]
        BY <1>1, <1>5, FileEffects
  <2>3. /\ file'["decision"].state = "resident" /\ file'["decision"].floor = DecisionWeights
        /\ file'["decision"].bytes = DecisionBytes /\ file["decision"].bytes = DecisionBytes
        BY <1>3, <2>1, <2>2 DEF Record, FileInv
  <2>4. QED
        BY <1>2, <2>1, <2>2, <2>3 DEF Contribution
<1>6. ASSUME "chat" \in Held \ Held'
      PROVE  Charges["chat"] >= ChatWeights /\ Charges'["chat"] = 0
  <2>1. Charges["chat"] \in {ChatBytes[1], ChatBytes[2]}
        BY <1>1, <1>6, SumShapes DEF FileInv, SumTypes
  <2>2. QED
        BY <1>4, <1>6, <2>1, Sizes, Constant
<1>7. ASSUME NEW n \in Names,
             ~(Admit /\ n \in Roles), ~(Resize /\ n = "chat"), ~(n \in Launches /\ LaunchAdmitted(n))
      PROVE  Charges'[n] <= Charges[n]
  <2>1. CASE n \notin Held'
        BY <1>2, <1>4, <2>1
  <2>2. CASE \E q \in Children : Relabels(q) /\ n = "decision"
        BY <1>5, <2>2, Sizes
  <2>3. CASE /\ n \in Held' /\ n \in Held /\ file'[n].bytes = file[n].bytes
             /\ file'[n].state = file[n].state /\ file'[n].floor = file[n].floor
    <3>1. Charges'[n] = Charges[n]
          BY <1>2, <2>3 DEF Contribution
    <3>2. QED
          BY <1>2, <3>1
  <2>4. CASE /\ n \in Held' /\ n \in Held /\ n = "chat" /\ Shrinks
             /\ file'[n].bytes = ChatBytes[1] /\ file'[n].state = file[n].state
    <3>1. Growing /\ Owned("chat", token)
          BY <2>4 DEF Shrinks, Restore, Growing, ResizeReservation, CanResize
    <3>2. file["chat"].bytes = ChatBytes[2]
          BY <3>1 DEF GrownInv
    <3>3. file["chat"].state = "pending" /\ file'["chat"].state = "pending"
          BY <2>4 DEF FileInv
    <3>4. Charges["chat"] = ChatBytes[2] /\ Charges'["chat"] = ChatBytes[1]
          BY <1>2, <2>4, <3>2, <3>3 DEF Contribution
    <3>5. QED
          BY <2>4, <3>4, Sizes, Constant
  <2>5. QED
        BY <1>1, <1>7, <2>1, <2>2, <2>3, <2>4, RecordMoves
<1>8. QED
      BY <1>2, <1>5, <1>6, <1>7

\* What the records do not account for grows only where a worker relabels its record,
\* and where the record of a chat worker goes that is still there, not to a status().
LEMMA UnbackedMoves ==
  ASSUME BaseInv, LostInv, ChatInv, DecisionInv, OwnerInv, LoadInv, DecisionInv', [Next]_vars,
         NEW p \in Children
  PROVE  /\ \/ Unbacked'[p] <= Unbacked[p]
            \/ Relabels(p) /\ Unbacked'[p] <= Unbacked[p] + DecisionWeights
            \/ /\ p = tracked["chat"] /\ "chat" \in Held \ Held' /\ ~StatusClears
               /\ Unbacked'[p] <= Unbacked[p] + ChatWeights
         /\ \/ Strays'[p] <= Strays[p]
            \/ p = tracked["chat"] /\ "chat" \in Held \ Held' /\ ~StatusClears
<1>1. /\ Unbacked[p] = IF Stray(p) THEN ChatWeights
                       ELSE IF Relabelled(p) THEN DecisionWeights ELSE 0
      /\ Unbacked'[p] = IF Stray(p)' THEN ChatWeights
                        ELSE IF Relabelled(p)' THEN DecisionWeights ELSE 0
      /\ Strays[p] = IF Stray(p) THEN ChatWeights ELSE 0
      /\ Strays'[p] = IF Stray(p)' THEN ChatWeights ELSE 0
      BY DEF Unbacked, Strays
<1>2. ChatWeights \in Nat /\ DecisionWeights \in Nat
      BY Sizes
<1>3. CASE Stray(p)'
  <2>1. Stray(p) \/ (p = tracked["chat"] /\ "chat" \in Held \ Held' /\ ~StatusClears)
        BY <1>3, StrayMoves
  <2>2. CASE Stray(p)
        BY <1>1, <1>2, <1>3, <2>2
  <2>3. CASE p = tracked["chat"] /\ "chat" \in Held \ Held' /\ ~StatusClears
        BY <1>1, <1>2, <1>3, <2>3
  <2>4. QED
        BY <2>1, <2>2, <2>3
<1>4. CASE ~Stray(p)' /\ Relabelled(p)'
  <2>1. Relabelled(p) \/ Relabels(p)
        BY <1>4, RelabelledMoves
  <2>2. ASSUME Relabelled(p) PROVE ~Stray(p)
    <3>1. child[p].role = "decision"
          BY <2>2 DEF Relabelled, Committed
    <3>2. QED
          BY <3>1 DEF Stray
  <2>3. Strays'[p] <= Strays[p]
        BY <1>1, <1>2, <1>4
  <2>4. CASE Relabelled(p)
        BY <1>1, <1>2, <1>4, <2>2, <2>3, <2>4
  <2>5. CASE Relabels(p)
        BY <1>1, <1>2, <1>4, <2>3, <2>5
  <2>6. QED
        BY <2>1, <2>4, <2>5
<1>5. CASE ~Stray(p)' /\ ~Relabelled(p)'
      BY <1>1, <1>2, <1>5
<1>6. QED
      BY <1>3, <1>4, <1>5

\* A worker uses no more beside the records than it has in memory.
LEMMA UnbackedWeights ==
  \A p \in Children :
    /\ Unbacked[p] = 0 \/ (p \in InMemory /\ Unbacked[p] <= Weights(child[p].role))
    /\ Strays[p] = 0 \/ (p \in InMemory /\ Strays[p] <= Weights(child[p].role))
<1> SUFFICES ASSUME NEW p \in Children
             PROVE  /\ \/ Unbacked[p] = 0
                       \/ p \in InMemory /\ Unbacked[p] <= Weights(child[p].role)
                    /\ \/ Strays[p] = 0
                       \/ p \in InMemory /\ Strays[p] <= Weights(child[p].role)
    OBVIOUS
<1>1. CASE Stray(p)
      BY <1>1, Sizes DEF Stray, Unbacked, Strays, Weights
<1>2. CASE ~Stray(p) /\ Relabelled(p)
      BY <1>2, Sizes DEF Relabelled, Committed, Unbacked, Strays, Weights
<1>3. CASE ~Stray(p) /\ ~Relabelled(p)
      BY <1>3 DEF Unbacked, Strays
<1>4. QED
      BY <1>1, <1>2, <1>3

\* A batch costs at least what its two records hold.
LEMMA PairCosts == SumFunction(PairItems) \in Nat
                   /\ ChatBytes[1] + DecisionBytes <= SumFunction(PairItems)
<1> DEFINE none == [r \in Roles |-> 0]
           one == [r \in Roles |-> IF r = "chat" THEN ChatBytes[1] ELSE 0]
<1>1. IsFiniteSet(Roles)
      BY Constant, Sizes, FS_Subset
<1>2. /\ PairItems \in [Roles -> Nat] /\ none \in [Roles -> Nat] /\ one \in [Roles -> Nat]
      /\ PairItems["chat"] = ChatBytes[1] /\ PairItems["decision"] = DecisionBytes
      BY Constant DEF PairItems, Bytes
<1>3. -ChatBytes[1] \in Int /\ -DecisionBytes \in Int
      BY Sizes
<1>4. /\ none["chat"] <= one["chat"] + (-ChatBytes[1])
      /\ \A r \in Roles \ {"chat"} : none[r] <= one[r]
      BY Sizes, Constant
<1>5. /\ one["decision"] <= PairItems["decision"] + (-DecisionBytes)
      /\ \A r \in Roles \ {"decision"} : one[r] <= PairItems[r]
      BY <1>2, Sizes, Constant
<1> HIDE DEF none, one
<1>6. SumFunction(none) <= SumFunction(one) + (-ChatBytes[1])
      BY <1>1, <1>2, <1>3, <1>4, Constant, SumShift
<1>7. SumFunction(one) <= SumFunction(PairItems) + (-DecisionBytes)
      BY <1>1, <1>2, <1>3, <1>5, Constant, SumShift
<1>8. SumFunction(none) \in Nat /\ SumFunction(one) \in Nat /\ SumFunction(PairItems) \in Nat
      BY <1>1, <1>2, SumFacts
<1>9. QED
      BY <1>6, <1>7, <1>8, Sizes

LEMMA FitsStep ==
  ASSUME BaseInv, LostInv, ChatInv, DecisionInv, DecisionInv', LedgerInv, FitsInv, MeasuredInv,
         [Next]_vars
  PROVE  FitsInv'
<1>1. FileInv /\ GrownInv /\ OwnerInv /\ LoadInv /\ ShapeInv /\ FileInv' /\ ShapeInv'
      BY ShapeStep, FileInvStep DEF BaseInv, LedgerInv
<1>2. /\ Charges \in [Names -> Nat] /\ Charges' \in [Names -> Nat]
      /\ Unbacked \in [Children -> Nat] /\ Unbacked' \in [Children -> Nat]
      /\ Strays \in [Children -> Nat]
      BY <1>1, SumShapes, SumShapesNext DEF SumTypes
<1> DEFINE U == SumFunction(Unbacked)
           C == SumFunction(Charges)
           V == SumFunction(Unbacked')
           D == SumFunction(Charges')
<1>3. U \in Nat /\ C \in Nat /\ V \in Nat /\ D \in Nat
      BY <1>2, Sizes, SumFacts
<1>4. U + C <= Memory
      BY DEF FitsInv
<1>5. SUFFICES V + D <= Memory
      BY DEF FitsInv
<1>6. ASSUME \A p \in Children : Unbacked'[p] <= Unbacked[p] PROVE V <= U
  <2>1. \A p \in Children : Unbacked'[p] = 0 \/ (p \in Children /\ Unbacked'[p] <= Unbacked[p])
        BY <1>6
  <2>2. QED
        BY <1>2, <2>1, Sizes, SumBelow
<1> HIDE DEF U, C, V, D
<1>7. /\ \A p \in Children : \/ Unbacked'[p] <= Unbacked[p]
                             \/ Relabels(p) /\ Unbacked'[p] <= Unbacked[p] + DecisionWeights
                             \/ /\ p = tracked["chat"] /\ "chat" \in Held \ Held'
                                /\ Unbacked'[p] <= Unbacked[p] + ChatWeights
      /\ \A n \in Names : \/ Charges'[n] <= Charges[n]
                          \/ Admit /\ n \in Roles
                          \/ Resize /\ n = "chat"
                          \/ n \in Launches /\ LaunchAdmitted(n)
      BY <1>1, UnbackedMoves, ChargeMoves
<1>8. CASE \E q \in Children : Relabels(q)
  <2>1. PICK q \in Children : Relabels(q)
        BY <1>8
  <2>2. /\ Held' = Held
        /\ \A p \in Children : Relabels(p) => p = q
        /\ \A n \in Names \ {"decision"} : Charges'[n] <= Charges[n]
        /\ Charges'["decision"] = Charges["decision"] - DecisionWeights
    <3>1. Held' = Held /\ "decision" \in Held
          BY <1>1, <2>1, FileEffects
    <3>2. ASSUME NEW p \in Children, Relabels(p) PROVE p = q
      <4>1. /\ p \in Committed /\ Owned("decision", child[p].owner)
            /\ q \in Committed /\ Owned("decision", child[q].owner)
            BY <1>1, <2>1, <3>2, RelabelFacts
      <4>2. Holder(p) /\ Holder(q)
            BY <4>1, OwnerKeeps DEF DecisionInv
      <4>3. QED
            BY <4>2 DEF Holder
    <3>3. \A n \in Launches : ~LaunchAdmitted(n)
          BY <1>1, <3>1, FileEffects
    <3>4. ~Admit /\ ~Resize
      <4>1. pc' = pc
            BY <2>1 DEF Relabels, Moves
      <4>2. QED
            BY <4>1 DEF Admit, Resize
    <3>5. Charges'["decision"] = Charges["decision"] - DecisionWeights
          BY <1>1, <1>8, ChargeMoves
    <3>6. QED
          BY <1>7, <3>1, <3>2, <3>3, <3>4, <3>5
  <2>3. /\ q \in Children => Unbacked'[q] <= Unbacked[q] + DecisionWeights
        /\ \A p \in Children \ {q} : Unbacked'[p] <= Unbacked[p]
    <3>1. Unbacked[q] \in Nat /\ Unbacked'[q] \in Nat /\ DecisionWeights \in Nat
          BY <1>2, Sizes
    <3>2. Unbacked'[q] <= Unbacked[q] + DecisionWeights
          BY <1>7, <2>2, <3>1
    <3>3. QED
          BY <1>7, <2>2, <3>2
  <2>4. V <= U + DecisionWeights
        BY <1>2, <2>3, Sizes, SumGrows DEF U, V
  <2>5. D <= C + (-DecisionWeights)
    <3>1. -DecisionWeights \in Int /\ "decision" \in Names
          BY Sizes, Constant
    <3>2. Charges["decision"] \in Nat /\ DecisionWeights \in Nat
          BY <1>2, <3>1, Sizes
    <3>3. Charges'["decision"] <= Charges["decision"] + (-DecisionWeights)
          BY <2>2, <3>2
    <3>4. QED
          BY <1>2, <2>2, <3>1, <3>3, Sizes, SumShift DEF C, D
  <2>6. QED
        BY <1>3, <1>4, <2>4, <2>5, Sizes
<1>9. CASE Admit
  <2>1. /\ Held' = Held \cup Roles /\ Held \cap Roles = {}
        /\ file'["chat"] = Pending(ChatBytes[1], token')
        /\ file'["decision"] = Pending(DecisionBytes, token')
        BY <1>1, <1>9, FileEffects
  <2>2. V <= SumFunction(Strays)
    <3>1. ASSUME NEW p \in Children PROVE Unbacked'[p] <= Strays[p]
      <4>1. ~Relabelled(p)'
            BY <2>1 DEF Relabelled, Pending
      <4>2. Unbacked'[p] = Strays'[p]
            BY <4>1 DEF Unbacked, Strays
      <4>3. Strays'[p] <= Strays[p]
            BY <1>1, <2>1, UnbackedMoves
      <4>4. QED
            BY <4>2, <4>3
    <3>2. \A p \in Children : Unbacked'[p] = 0 \/ (p \in Children /\ Unbacked'[p] <= Strays[p])
          BY <3>1
    <3>3. QED
          BY <1>2, <3>2, Sizes, SumBelow DEF V
  <2>3. D <= C + ChatBytes[1] + DecisionBytes
    <3> DEFINE h == [n \in Names |-> IF n = "chat" THEN ChatBytes[1] ELSE Charges[n]]
    <3>1. h \in [Names -> Nat]
          BY <1>2, Sizes
    <3>2. /\ Charges'["chat"] = ChatBytes[1] /\ Charges'["decision"] = DecisionBytes
          /\ Charges["decision"] \in Nat
      <4>1. Charges'["chat"] = Contribution(file'["chat"])
            BY <2>1, Constant DEF Charges
      <4>2. Charges'["decision"] = Contribution(file'["decision"])
            BY <2>1, Constant DEF Charges
      <4>3. QED
            BY <1>2, <2>1, <4>1, <4>2, Constant DEF Contribution, Pending
    <3>3. ASSUME NEW n \in Names, n \notin Roles PROVE Charges'[n] <= Charges[n]
      <4>1. n \notin Held \/ n \in Held'
            BY <2>1
      <4>2. ~LaunchAdmitted(n)
        <5>1. pc' # pc
              BY <1>9 DEF Admit
        <5>2. QED
              BY <5>1 DEF LaunchAdmitted, LaunchGo
      <4>3. ~(Resize /\ n = "chat")
            BY <3>3, Constant
      <4>4. QED
            BY <1>7, <3>3, <4>2, <4>3
    <3>4. /\ "chat" \in Names => h["chat"] <= Charges["chat"] + ChatBytes[1]
          /\ \A n \in Names \ {"chat"} : h[n] <= Charges[n]
      <4>1. "chat" \in Names /\ Charges["chat"] \in Nat
            BY <1>2, Constant
      <4>2. ASSUME NEW n \in Names, n # "chat" PROVE h[n] <= Charges[n]
            BY <1>2, <4>2
      <4>3. h["chat"] <= Charges["chat"] + ChatBytes[1]
            BY <4>1, Sizes
      <4>4. QED
            BY <4>2, <4>3
    <3>5. /\ "decision" \in Names => Charges'["decision"] <= h["decision"] + DecisionBytes
          /\ \A n \in Names \ {"decision"} : Charges'[n] <= h[n]
      <4>1. "decision" \in Names /\ h["decision"] \in Nat
            BY <3>1, Constant
      <4>2. Charges'["decision"] <= h["decision"] + DecisionBytes
            BY <3>2, <4>1, Sizes
      <4>3. Charges'["chat"] <= h["chat"]
            BY <3>2, Sizes, Constant
      <4>4. ASSUME NEW n \in Names, n \notin Roles PROVE Charges'[n] <= h[n]
            BY <3>3, <4>4, Constant
      <4>5. QED
            BY <4>2, <4>3, <4>4, Constant
    <3> HIDE DEF h
    <3>6. SumFunction(h) <= C + ChatBytes[1]
          BY <1>2, <3>1, <3>4, Sizes, SumGrows DEF C
    <3>7. D <= SumFunction(h) + DecisionBytes
          BY <1>2, <3>1, <3>5, Sizes, SumGrows DEF D
    <3>8. SumFunction(h) \in Nat
          BY <3>1, Sizes, SumFacts
    <3>9. QED
          BY <1>3, <3>6, <3>7, <3>8, Sizes
  <2>4. C + SumFunction(PairItems) <= available
    <3>1. Headroom(available, Held, SumFunction(PairItems)) >= 0
          BY <1>9 DEF Admit, AdmitBatch, CanAdmitBatch
    <3>2. available \in Int /\ SumFunction(PairItems) \in Nat
          BY PairCosts DEF MeasuredInv
    <3>3. \A n \in Names : Charges[n] = 0 \/ (n \in Held /\ Charges[n] = Charges[n])
          BY DEF Charges
    <3>4. QED
          BY <1>1, <1>2, <3>1, <3>2, <3>3, HeadroomFacts DEF C
  <2>5. available + SumFunction(Strays) <= Memory /\ available \in Int
        BY <1>9 DEF Admit, MeasuredInv
  <2>6. SumFunction(Strays) \in Nat
        BY <1>2, Sizes, SumFacts
  <2>7. QED
        BY <1>3, <2>2, <2>3, <2>4, <2>5, <2>6, PairCosts, Sizes
<1>10. CASE Resize
  <2>1. Held' = Held /\ "chat" \in Held
    <3>1. ResizeReservation("chat", ChatBytes[2], token, available)
          BY <1>10 DEF Resize
    <3>2. QED
          BY <1>1, <3>1, FileEffects, Sizes
  <2>2. pc = "resize" /\ pc' = "retire"
        BY <1>10 DEF Resize
  <2>3. \A q \in Children : ~Relabels(q)
        BY <2>2 DEF Relabels, Moves
  <2>4. V <= U
        BY <1>6, <1>7, <2>1, <2>3
  <2>5. D + U <= Memory
    <3> DEFINE h == [n \in Names |-> IF n = "chat" THEN 0 ELSE Charges[n]]
    <3>1. h \in [Names -> Nat]
          BY <1>2
    <3>2. SumFunction(h) + ChatBytes[2] <= available
      <4>1. Headroom(available, Held \ {"chat"}, ChatBytes[2]) >= 0
            BY <1>10 DEF Resize, ResizeReservation, CanResize
      <4>2. available \in Int /\ ChatBytes[2] \in Nat
            BY Sizes DEF MeasuredInv
      <4>3. \A n \in Names : h[n] = 0 \/ (n \in Held \ {"chat"} /\ h[n] = Charges[n])
            BY DEF Charges
      <4>4. Held \ {"chat"} \in SUBSET Held
            OBVIOUS
      <4> HIDE DEF h
      <4>5. QED
            BY <1>1, <3>1, <4>1, <4>2, <4>3, <4>4, HeadroomFacts
    <3>3. /\ "chat" \in Names => Charges'["chat"] <= h["chat"] + ChatBytes[2]
          /\ \A n \in Names \ {"chat"} : Charges'[n] <= h[n]
      <4>1. Charges'["chat"] = ChatBytes[2]
        <5>1. ResizeReservation("chat", ChatBytes[2], token, available)
              BY <1>10 DEF Resize
        <5>2. file'["chat"] = [file["chat"] EXCEPT !.bytes = ChatBytes[2]]
              BY <1>1, <5>1, FileEffects, Sizes
        <5>3. file["chat"] \in Record /\ file'["chat"].state = "pending"
              BY <1>1, <2>1, FileFacts DEF ShapeInv, FileType, FileInv
        <5>4. file'["chat"].bytes = ChatBytes[2]
              BY <5>2, <5>3 DEF Record
        <5>5. Charges'["chat"] = Contribution(file'["chat"])
              BY <2>1, Constant DEF Charges
        <5>6. QED
              BY <5>3, <5>4, <5>5 DEF Contribution
      <4>2. Charges'["chat"] <= h["chat"] + ChatBytes[2]
            BY <4>1, Sizes, Constant
      <4>3. ASSUME NEW n \in Names, n # "chat" PROVE Charges'[n] <= h[n]
        <5>1. ~Admit /\ ~LaunchAdmitted(n)
              BY <2>2 DEF Admit, LaunchAdmitted, LaunchGo
        <5>2. QED
              BY <1>7, <4>3, <5>1
      <4>4. QED
            BY <4>2, <4>3
    <3> HIDE DEF h
    <3>4. D <= SumFunction(h) + ChatBytes[2]
          BY <1>2, <3>1, <3>3, Sizes, SumGrows DEF D
    <3>5. available + U <= Memory /\ available \in Int
          BY <2>2 DEF MeasuredInv, U
    <3>6. SumFunction(h) \in Nat
          BY <3>1, Sizes, SumFacts
    <3>7. QED
          BY <1>3, <3>2, <3>4, <3>5, <3>6, Sizes
  <2>6. QED
        BY <1>3, <2>4, <2>5, Sizes
<1>11. CASE \E l \in Launches : LaunchAdmitted(l)
  <2>1. PICK l \in Launches : LaunchAdmitted(l)
        BY <1>11
  <2>2. PICK b \in LaunchBytes :
          /\ l \notin Held /\ Held' = Held \cup {l}
          /\ file'[l] = Pending(b, Absent)
          /\ Headroom(AvailableWithout({}), Held, b) >= 0
        BY <1>1, <2>1, FileEffects
  <2>3. pc' = pc /\ child' = child /\ launch[l] = "none"
        BY <2>1 DEF LaunchAdmitted, LaunchGo, workerVars
  <2>4. ~Admit /\ ~Resize /\ \A m \in Launches : LaunchAdmitted(m) => m = l
    <3>1. ~Admit /\ ~Resize
          BY <2>3 DEF Admit, Resize
    <3>2. ASSUME NEW m \in Launches, LaunchAdmitted(m) PROVE m = l
          BY <1>1, <2>2, <3>2, FileEffects
    <3>3. QED
          BY <3>1, <3>2
  <2>5. V <= U
    <3>1. ASSUME NEW q \in Children, Relabels(q) PROVE FALSE
          BY <1>1, <2>2, <3>1, FileEffects
    <3>2. QED
          BY <1>6, <1>7, <2>2, <3>1
  <2>6. D <= C + b
    <3>1. b \in Nat
          BY Sizes
    <3>2. Charges[l] = 0 /\ Charges'[l] = b
      <4>1. Charges'[l] = Contribution(file'[l]) /\ Charges[l] = 0
            BY <2>2, Constant DEF Charges
      <4>2. QED
            BY <2>2, <4>1 DEF Contribution, Pending
    <3>3. /\ l \in Names => Charges'[l] <= Charges[l] + b
          /\ \A n \in Names \ {l} : Charges'[n] <= Charges[n]
          BY <1>7, <2>4, <3>1, <3>2
    <3>4. QED
          BY <1>2, <3>1, <3>3, Sizes, SumGrows DEF C, D
  <2>7. C + b <= AvailableWithout({})
    <3>1. \A n \in Names : Charges[n] = 0 \/ (n \in Held /\ Charges[n] = Charges[n])
          BY DEF Charges
    <3>2. AvailableWithout({}) \in Int /\ b \in Nat
          BY <1>1, AvailableBound, Sizes
    <3>3. QED
          BY <1>1, <1>2, <2>2, <3>1, <3>2, HeadroomFacts DEF C
  <2>8. AvailableWithout({}) + U <= Memory /\ AvailableWithout({}) \in Int
    <3>1. \A p \in Children :
            \/ Unbacked[p] = 0
            \/ p \in InMemory \ {} /\ Unbacked[p] <= Weights(child[p].role)
          BY UnbackedWeights
    <3>2. QED
          BY <1>1, <1>2, <3>1, AvailableBound DEF U
  <2>9. QED
        BY <1>3, <2>5, <2>6, <2>7, <2>8, Sizes
<1>12. CASE /\ "chat" \in Held \ Held'
            /\ ~Admit /\ ~Resize /\ \A l \in Launches : ~LaunchAdmitted(l)
            /\ \A q \in Children : ~Relabels(q)
  <2>1. V <= U + ChatWeights
    <3>1. \A p \in Children \ {tracked["chat"]} : Unbacked'[p] <= Unbacked[p]
          BY <1>7, <1>12
    <3>2. ASSUME tracked["chat"] \in Children
          PROVE  Unbacked'[tracked["chat"]] <= Unbacked[tracked["chat"]] + ChatWeights
      <4>1. /\ Unbacked[tracked["chat"]] \in Nat /\ Unbacked'[tracked["chat"]] \in Nat
            /\ ChatWeights \in Nat
            BY <1>2, <3>2, Sizes
      <4>2. QED
            BY <1>7, <1>12, <3>2, <4>1
    <3>3. QED
          BY <1>2, <3>1, <3>2, Sizes, SumGrows DEF U, V
  <2>2. D <= C + (-ChatWeights)
    <3>1. -ChatWeights \in Int /\ "chat" \in Names
          BY Sizes, Constant
    <3>2. Charges["chat"] >= ChatWeights /\ Charges'["chat"] = 0 /\ Charges["chat"] \in Nat
          BY <1>1, <1>2, <1>12, <3>1, ChargeMoves
    <3>3. Charges'["chat"] <= Charges["chat"] + (-ChatWeights)
          BY <3>2, Sizes
    <3>4. QED
          BY <1>2, <1>7, <1>12, <3>1, <3>3, Sizes, SumShift DEF C, D
  <2>3. QED
        BY <1>3, <1>4, <2>1, <2>2, Sizes
<1>13. CASE /\ "chat" \notin Held \ Held'
            /\ ~Admit /\ ~Resize /\ \A l \in Launches : ~LaunchAdmitted(l)
            /\ \A q \in Children : ~Relabels(q)
  <2>1. V <= U
        BY <1>6, <1>7, <1>13
  <2>2. D <= C
    <3>1. \A n \in Names : Charges'[n] = 0 \/ (n \in Names /\ Charges'[n] <= Charges[n])
          BY <1>7, <1>13
    <3>2. QED
          BY <1>2, <3>1, Sizes, SumBelow DEF C, D
  <2>3. QED
        BY <1>3, <1>4, <2>1, <2>2, Sizes
<1>14. QED
       BY <1>8, <1>9, <1>10, <1>11, <1>12, <1>13

-----------------------------------------------------------------------------
(* What an operation read of the memory is still there.                    *)

\* The steps beside an operation that waits to use its reading of the memory.
LEMMA WaitMoves ==
  ASSUME ShapeInv, [Next]_vars, pc \in {"admit", "resize"}, pc' = pc
  PROVE  "chat" \notin Held \ Held' \/ StatusClears
<1>1. ASSUME file' = file PROVE "chat" \notin Held \ Held'
      BY <1>1 DEF Held
<1>2. ~Begins
      BY DEF Begins
<1>3. ~Setup /\ ~AdoptSaved /\ ~Stop
      BY <1>2 DEF Setup, AdoptSaved, Stop
<1>4. ~Start
  <2>1. \A r \in Roles : ~SpawnWorker(r)
        BY Constant DEF SpawnWorker
  <2>2. /\ ~StartBegins /\ ~Settle /\ ~Admit /\ ~AdmitRefused /\ ~ChatHealthy
        /\ ~DecisionHealthy /\ ~StartFails /\ ~CleanUp
        BY <1>2 DEF StartBegins, Settle, Admit, AdmitRefused, ChatHealthy, DecisionHealthy,
                    StartFails, CleanUp
  <2>3. QED
        BY <2>1, <2>2 DEF Start
<1>5. ~EnsureContext
      BY <1>2 DEF EnsureContext, GrowBegins, ResizeRefused, Resize, Retire, Grow, Restore,
                  GrownHealthy, GrownFails, Drop, Fallback, FallbackEnds
<1>6. ~Crash /\ (Status => file' = file \/ StatusClears)
      BY DEF Status, StatusBegins, StatusReads, Crash
<1>7. ASSUME NEW p \in Children, Works(p) PROVE "chat" \notin Held \ Held'
  <2>1. CASE Claims(p)
        BY <2>1, FileEffects
  <2>2. CASE Relabels(p)
        BY <2>2, FileEffects
  <2>3. CASE Leaves(p)
    <3>1. file' = file \/ file' = Without({"decision"})
          BY <2>3 DEF Leaves
    <3>2. QED
          BY <3>1, <1>1, FileEffects, Constant
  <2>4. CASE ChatLoads(p) \/ DecisionLoads(p) \/ Exits(p)
        BY <2>4, <1>1 DEF ChatLoads, DecisionLoads, Exits
  <2>5. QED
        BY <1>7, <2>1, <2>2, <2>3, <2>4 DEF Works
<1>8. ASSUME NEW l \in Launches,
             LaunchAdmitted(l) \/ LaunchLoads(l) \/ LaunchDies(l) \/ LaunchClears(l)
      PROVE  "chat" \notin Held \ Held'
  <2>1. l # "chat"
        BY Constant
  <2>2. CASE LaunchAdmitted(l)
        BY <2>2, FileEffects
  <2>3. CASE LaunchClears(l)
    <3>1. file' = Without({l})
          BY <2>3 DEF LaunchClears
    <3>2. QED
          BY <2>1, <3>1, FileEffects
  <2>4. CASE LaunchLoads(l) \/ LaunchDies(l)
        BY <2>4, <1>1 DEF LaunchLoads, LaunchDies
  <2>5. QED
        BY <1>8, <2>2, <2>3, <2>4
<1>9. CASE UNCHANGED vars
      BY <1>1, <1>9 DEF vars
<1>10. QED
       BY <1>1, <1>3, <1>4, <1>5, <1>6, <1>7, <1>8, <1>9 DEF Next, Works

LEMMA MeasuredStep ==
  ASSUME BaseInv, LostInv, ChatInv, DecisionInv, DecisionInv', LedgerInv, MeasuredInv, [Next]_vars
  PROVE  MeasuredInv'
<1>1. /\ FileInv /\ GrownInv /\ OwnerInv /\ LoadInv /\ ShapeInv /\ ContextInv /\ StageInv
      /\ FileInv' /\ ShapeInv'
      BY ShapeStep, FileInvStep DEF BaseInv, LedgerInv
<1>2. /\ Unbacked \in [Children -> Nat] /\ Unbacked' \in [Children -> Nat]
      /\ Strays \in [Children -> Nat] /\ Strays' \in [Children -> Nat]
      BY <1>1, SumShapes, SumShapesNext DEF SumTypes
<1>3. ASSUME Settle
      PROVE  /\ available' \in Int
             /\ pc' = "admit" => available' + SumFunction(Strays') <= Memory
  <2>1. PICK V \in SUBSET Tracked :
          /\ TerminateAll(V)
          /\ \/ available' = AvailableWithout(Tracked \ V) /\ pc' = "admit"
             \/ available' = 0 /\ pc' = "free"
        BY <1>3 DEF Settle
  <2>2. Live' = Live \ (Tracked \ V)
        BY <1>1, <2>1, StopEffect
  <2>3. ASSUME NEW p \in Children
        PROVE  \/ Strays'[p] = 0
               \/ p \in InMemory \ (Tracked \ V) /\ Strays'[p] <= Weights(child[p].role)
    <3>1. CASE Stray(p)'
      <4>1. p \in InMemory /\ child'[p] = child[p]
            BY <1>1, <3>1, StrayMoves
      <4>2. p \in Live' /\ child'[p].role = "chat"
            BY <3>1 DEF Stray, InMemory, Live
      <4>3. Strays'[p] = ChatWeights
            BY <3>1 DEF Strays
      <4>4. QED
            BY <2>2, <4>1, <4>2, <4>3, Sizes DEF Weights
    <3>2. CASE ~Stray(p)'
          BY <3>2 DEF Strays
    <3>3. QED
          BY <3>1, <3>2
  <2>4. /\ AvailableWithout(Tracked \ V) \in Int
        /\ AvailableWithout(Tracked \ V) + SumFunction(Strays') <= Memory
        BY <1>1, <1>2, <2>3, AvailableBound
  <2>5. QED
        BY <2>1, <2>4
<1>4. available' \in Int
  <2>1. \A S : AvailableWithout(S) \in Int
        BY <1>1, AvailableBound
  <2>2. available \in Int
        BY DEF MeasuredInv
  <2>3. QED
        BY <1>1, <1>3, <2>1, <2>2, StageMoves
<1>5. ASSUME pc' = "admit", ~Settle PROVE available' + SumFunction(Strays') <= Memory
  <2>1. pc = "admit" /\ available' = available
        BY <1>1, <1>5, StageMoves
  <2>2. "chat" \notin Held \ Held' \/ StatusClears
        BY <1>1, <1>5, <2>1, WaitMoves
  <2>3. \A p \in Children : Strays'[p] = 0 \/ (p \in Children /\ Strays'[p] <= Strays[p])
        BY <1>1, <2>2, UnbackedMoves
  <2>4. SumFunction(Strays') <= SumFunction(Strays)
        BY <1>2, <2>3, Sizes, SumBelow
  <2>5. available + SumFunction(Strays) <= Memory /\ available \in Int
        BY <2>1 DEF MeasuredInv
  <2>6. SumFunction(Strays) \in Nat /\ SumFunction(Strays') \in Nat
        BY <1>2, Sizes, SumFacts
  <2>7. QED
        BY <2>1, <2>4, <2>5, <2>6, Sizes
<1>6. ASSUME GrowBegins PROVE available' + SumFunction(Unbacked') <= Memory
  <2>1. available' = AvailableWithout({}) /\ child' = child
        BY <1>6 DEF GrowBegins, workerVars
  <2>2. ASSUME NEW p \in Children
        PROVE  \/ Unbacked'[p] = 0
               \/ p \in InMemory \ {} /\ Unbacked'[p] <= Weights(child[p].role)
    <3>1. CASE Stray(p)'
      <4>1. p \in InMemory /\ child[p].role = "chat"
            BY <2>1, <3>1 DEF Stray, InMemory
      <4>2. Unbacked'[p] = ChatWeights
            BY <3>1 DEF Unbacked
      <4>3. QED
            BY <4>1, <4>2, Sizes DEF Weights
    <3>2. CASE ~Stray(p)' /\ Relabelled(p)'
      <4>1. p \in InMemory /\ child[p].role = "decision"
            BY <2>1, <3>2 DEF Relabelled, InMemory, Committed
      <4>2. Unbacked'[p] = DecisionWeights
            BY <3>2 DEF Unbacked
      <4>3. QED
            BY <4>1, <4>2, Sizes DEF Weights
    <3>3. CASE ~Stray(p)' /\ ~Relabelled(p)'
          BY <3>3 DEF Unbacked
    <3>4. QED
          BY <3>1, <3>2, <3>3
  <2>3. QED
        BY <1>1, <1>2, <2>1, <2>2, AvailableBound
<1>7. ASSUME pc' = "resize", ~GrowBegins PROVE available' + SumFunction(Unbacked') <= Memory
  <2>1. pc = "resize" /\ available' = available
        BY <1>1, <1>7, StageMoves
  <2>2. "chat" \notin Held \ Held' \/ StatusClears
        BY <1>1, <1>7, <2>1, WaitMoves
  <2>3. \A q \in Children : ~Relabels(q)
    <3>1. \A q \in Unfinished : Lost("decision", child[q].owner)
          BY <1>1, <2>1 DEF LoadInv, Steady
    <3>2. QED
          BY <1>1, <3>1, RelabelFacts, OwnerKeeps
  <2>4. \A p \in Children : Unbacked'[p] = 0 \/ (p \in Children /\ Unbacked'[p] <= Unbacked[p])
        BY <1>1, <2>2, <2>3, UnbackedMoves
  <2>5. SumFunction(Unbacked') <= SumFunction(Unbacked)
        BY <1>2, <2>4, Sizes, SumBelow
  <2>6. available + SumFunction(Unbacked) <= Memory /\ available \in Int
        BY <2>1 DEF MeasuredInv
  <2>7. SumFunction(Unbacked) \in Nat /\ SumFunction(Unbacked') \in Nat
        BY <1>2, Sizes, SumFacts
  <2>8. QED
        BY <2>1, <2>5, <2>6, <2>7, Sizes
<1>8. QED
      BY <1>3, <1>4, <1>5, <1>6, <1>7 DEF MeasuredInv

-----------------------------------------------------------------------------
(* The loaded models fit.                                                  *)

LEMMA MemoryInit == Init => MemoryInv
<1> SUFFICES ASSUME Init PROVE MemoryInv
    OBVIOUS
<1>1. /\ \A p \in Children : child[p] = NoChild
      /\ \A n \in Names : file[n] = Absent
      /\ pc = "free" /\ state = "down" /\ available = 0
      /\ launch = [l \in Launches |-> "none"]
      BY DEF Init
<1>2. NoChild.st = "dead"
      BY DEF NoChild
<1>3. Live = {} /\ InMemory = {} /\ Held = {} /\ Unfinished = {}
      BY <1>1, <1>2 DEF Live, InMemory, Held, Unfinished
<1>4. LedgerInv
  <2>1. FileInv
        BY <1>1, <1>3 DEF FileInv
  <2>2. GrownInv /\ OwnerInv /\ LoadInv
        BY <1>1, <1>3 DEF GrownInv, Growing, OwnerInv, MyChat, LoadInv, Steady
  <2>3. QED
        BY <2>1, <2>2 DEF LedgerInv
<1>5. MeasuredInv
      BY <1>1 DEF MeasuredInv
<1>6. FitsInv
  <2> DEFINE one == [p \in {} |-> 0]
  <2>1. /\ Unbacked \in [Children -> Nat] /\ \A p \in Children : Unbacked[p] = 0
        BY <1>3 DEF Unbacked, Stray, Relabelled
  <2>2. /\ Charges \in [Names -> Nat] /\ \A n \in Names : Charges[n] = 0
        BY <1>3 DEF Charges
  <2>3. IsFiniteSet({}) /\ Cardinality({}) = 0
        BY FS_EmptySet
  <2>4. Units(Unbacked, Children) = {} /\ Units(Charges, Names) = {}
        BY <2>1, <2>2 DEF Units
  <2>5. SumFunction(Unbacked) = 0 /\ SumFunction(Charges) = 0
        BY <2>1, <2>2, <2>3, <2>4, Sizes, SumFacts
  <2>6. QED
        BY <2>5, Sizes DEF FitsInv
<1>7. QED
      BY <1>4, <1>5, <1>6 DEF MemoryInv

LEMMA MemoryAlways == Spec => []MemoryInv
<1>1. IInv /\ IInv' /\ MemoryInv /\ [Next]_vars => MemoryInv'
  <2> SUFFICES ASSUME IInv, IInv', MemoryInv, [Next]_vars PROVE MemoryInv'
      OBVIOUS
  <2>1. /\ BaseInv /\ LostInv /\ ChatInv /\ DecisionInv /\ DecisionInv'
        /\ LedgerInv /\ FitsInv /\ MeasuredInv
        BY DEF IInv, RecordInv, MemoryInv
  <2>2. /\ ShapeInv /\ StageInv /\ ContextInv /\ FileInv /\ GrownInv /\ OwnerInv /\ LoadInv
        BY <2>1 DEF BaseInv, LedgerInv
  <2>3. LedgerInv'
        BY <2>1, <2>2, FileInvStep, GrownStep, OwnerStep, LoadStep DEF LedgerInv
  <2>4. FitsInv' /\ MeasuredInv'
        BY <2>1, FitsStep, MeasuredStep
  <2>5. QED
        BY <2>3, <2>4 DEF MemoryInv
<1>2. QED
      BY <1>1, MemoryInit, IInvAlways, PTL DEF Spec

\* A model that the file accounts for is backed by its record, or counted beside it.
LEMMA AccountedFacts ==
  ASSUME IInv, LedgerInv, NEW p \in Accounted
  PROVE  /\ p \in Children /\ Need(p) \in Nat
         /\ \/ Need(p) <= Unbacked[p]
            \/ /\ child[p].role = "chat" /\ p = tracked["chat"]
               /\ Need(p) <= Unbacked[p] + Charges["chat"]
            \/ /\ child[p].role = "decision" /\ p = file["decision"].claimed
               /\ Need(p) <= Unbacked[p] + Charges["decision"]
<1>1. /\ ShapeInv /\ TrackInv /\ ChatInv /\ DecisionInv /\ FileInv /\ OwnerInv
      BY DEF IInv, BaseInv, RecordInv, LedgerInv
<1>2. /\ Charges \in [Names -> Nat] /\ Unbacked \in [Children -> Nat]
      /\ \A n \in Held : file[n].state = "pending" => Charges[n] = file[n].bytes
      /\ \A n \in Held : Charges[n] = Contribution(file[n])
      BY <1>1, SumShapes DEF SumTypes
<1>3. /\ p \in Children /\ p \in InMemory /\ p \in Live /\ child[p].st \in {"loaded", "serving"}
      /\ child[p].role \in Roles /\ child[p] \in Process
      /\ child[p].role = "chat" => child[p].ours
      /\ ~Stripped(p) /\ ~Lost(child[p].role, child[p].owner)
  <2>1. /\ p \in Children /\ p \in InMemory /\ child[p].st \in {"loaded", "serving"}
        /\ ~Stripped(p) /\ ~Lost(child[p].role, child[p].owner)
        BY DEF Accounted, InMemory, Stripped, Lost
  <2>2. QED
        BY <1>1, <2>1 DEF Accounted, ShapeInv, Process, Live
<1>4. Unbacked[p] \in Nat
      BY <1>2, <1>3
<1>5. CASE child[p].role = "chat" /\ p \notin doomed
  <2>1. p \in Working
        BY <1>3, <1>5 DEF Working
  <2>2. tracked["chat"] = p
        BY <1>1, <1>3, <1>5 DEF TrackInv
  <2>3. /\ child[p].context \in 1..2 /\ "chat" \in Held
        /\ file["chat"].bytes >= ChatBytes[child[p].context]
        BY <1>1, <1>3, <1>5, <2>2 DEF ChatInv, ChatBacked, ChatHas, Owned
  <2>4. Need(p) = ChatBytes[child[p].context] /\ ChatBytes[child[p].context] \in Nat
        BY <1>5, <2>1, <2>3, PairsAssumption DEF Need, Bytes
  <2>5. Charges["chat"] = file["chat"].bytes /\ Charges["chat"] \in Nat
        BY <1>1, <1>2, <2>3, Constant DEF FileInv
  <2>6. Need(p) <= Unbacked[p] + Charges["chat"]
        BY <1>4, <2>3, <2>4, <2>5
  <2>7. QED
        BY <1>3, <1>5, <2>2, <2>4, <2>6
<1>6. CASE child[p].role = "chat" /\ p \in doomed
  <2>1. Need(p) = ChatWeights /\ ChatWeights \in Nat
        BY <1>6, Sizes DEF Need, Weights, Working
  <2>2. CASE Owned("chat", child[p].owner)
    <3>1. tracked["chat"] = p /\ "chat" \in Held
          BY <1>1, <1>3, <1>6, <2>2 DEF OwnerInv, MyChat, Owned
    <3>2. Charges["chat"] \in {ChatBytes[1], ChatBytes[2]}
          BY <1>1, <1>2, <3>1 DEF FileInv
    <3>3. ChatWeights <= Charges["chat"] /\ Charges["chat"] \in Nat
          BY <3>2, Sizes
    <3>4. Need(p) <= Unbacked[p] + Charges["chat"]
          BY <1>4, <2>1, <3>3
    <3>5. QED
          BY <1>3, <1>6, <2>1, <3>1, <3>4
  <2>3. CASE ~Owned("chat", child[p].owner)
    <3>1. Unbacked[p] = ChatWeights
          BY <1>3, <1>6, <2>3 DEF Unbacked, Stray
    <3>2. QED
          BY <1>3, <2>1, <3>1
  <2>4. QED
        BY <2>2, <2>3
<1>7. CASE child[p].role = "decision"
  <2>1. p \in Working /\ p \in Committed
        BY <1>3, <1>7 DEF Working, Committed
  <2>2. "decision" \in Held /\ file["decision"].claimed = p
        BY <1>1, <1>3, <1>7, <2>1 DEF DecisionInv, Holder, Owned
  <2>3. Need(p) = DecisionBytes
        BY <1>7, <2>1 DEF Need, Bytes
  <2>4. file["decision"] \in Record
        BY <1>1, <2>2, FileFacts DEF ShapeInv, FileType
  <2>5. CASE file["decision"].state = "pending"
    <3>1. Charges["decision"] = DecisionBytes
          BY <1>1, <1>2, <2>2, <2>5 DEF FileInv
    <3>2. QED
          BY <1>3, <1>4, <1>7, <2>2, <2>3, <3>1, Sizes
  <2>6. CASE file["decision"].state = "resident"
    <3>1. Charges["decision"] = DecisionBytes - DecisionWeights
          BY <1>1, <1>2, <2>2, <2>6 DEF FileInv, Contribution
    <3>2. Unbacked[p] = DecisionWeights
      <4>1. Relabelled(p) /\ ~Stray(p)
            BY <1>3, <1>7, <2>1, <2>6 DEF Relabelled, Stray
      <4>2. QED
            BY <1>3, <4>1 DEF Unbacked
    <3>3. QED
          BY <1>3, <1>7, <2>2, <2>3, <3>1, <3>2, Sizes
  <2>7. QED
        BY <2>4, <2>5, <2>6 DEF Record
<1>8. QED
      BY <1>3, <1>5, <1>6, <1>7, Constant

\* What the loaded models may come to use together fits in the memory, for any number
\* of launches and any sizes, but for the workers whose record a status() took.
THEOREM NoOvercommitAlways == Spec => []NoOvercommit
<1>1. IInv /\ MemoryInv => NoOvercommit
  <2> SUFFICES ASSUME IInv, MemoryInv PROVE NoOvercommit
      OBVIOUS
  <2>1. LedgerInv /\ FileInv /\ FitsInv /\ ShapeInv
        BY DEF MemoryInv, LedgerInv, IInv, BaseInv
  <2>2. /\ Charges \in [Names -> Nat] /\ Unbacked \in [Children -> Nat]
        /\ \A n \in Held : file[n].state = "pending" => Charges[n] = file[n].bytes
        BY <2>1, SumShapes DEF SumTypes
  <2> DEFINE needs == [p \in Accounted |-> Need(p)]
             held == [l \in Loaded |-> file[l].bytes]
             total == [p \in Children |-> IF p \in Accounted THEN Need(p) ELSE 0]
             mid == [p \in Children |-> IF child[p].role = "chat" THEN Unbacked[p] ELSE total[p]]
             chat == tracked["chat"]
             claimed == file["decision"].claimed
             others == [n \in Names |-> IF n \in Roles THEN 0 ELSE Charges[n]]
             beside == [n \in Names |-> IF n = "chat" THEN 0 ELSE Charges[n]]
             X == Charges["chat"]
             Y == Charges["decision"]
  <2>3. /\ needs \in [Accounted -> Nat] /\ total \in [Children -> Nat]
        /\ mid \in [Children -> Nat] /\ others \in [Names -> Nat] /\ beside \in [Names -> Nat]
        /\ X \in Nat /\ Y \in Nat /\ Accounted \subseteq Children
        BY <2>1, <2>2, AccountedFacts, Constant
  <2>4. ASSUME NEW l \in Loaded
        PROVE  l \in Names /\ held[l] = others[l] /\ held[l] \in Nat
    <3>1. l \in Launches /\ l \in Held /\ l \in Names /\ l \notin Roles
          BY <2>1, Constant DEF Loaded, FileInv
    <3>2. file[l].state = "pending"
          BY <2>1, <3>1 DEF FileInv
    <3>3. QED
          BY <2>2, <3>1, <3>2
  <2>5. IsFiniteSet(Accounted) /\ IsFiniteSet(Loaded) /\ held \in [Loaded -> Nat]
    <3>1. Loaded \subseteq Names /\ held \in [Loaded -> Nat]
          BY <2>4
    <3>2. QED
          BY <2>3, <3>1, Sizes, FS_Subset
  <2>6. SumFunction(needs) <= SumFunction(total)
    <3>1. \A p \in Accounted : needs[p] = 0 \/ (p \in Children /\ needs[p] <= total[p])
          BY <2>3
    <3> HIDE DEF needs, total
    <3>2. QED
          BY <2>3, <2>5, <3>1, Sizes, SumBelow
  <2>7. SumFunction(held) <= SumFunction(others)
    <3>1. \A l \in Loaded : held[l] = 0 \/ (l \in Names /\ held[l] <= others[l])
          BY <2>4
    <3> HIDE DEF held, others
    <3>2. QED
          BY <2>3, <2>5, <3>1, Sizes, SumBelow
  <2>8. ASSUME NEW p \in Children
        PROVE  \/ total[p] <= Unbacked[p]
               \/ child[p].role = "chat" /\ p = chat /\ total[p] <= Unbacked[p] + X
               \/ child[p].role = "decision" /\ p = claimed /\ total[p] <= Unbacked[p] + Y
    <3>1. CASE p \in Accounted
          BY <2>1, <3>1, AccountedFacts
    <3>2. CASE p \notin Accounted
          BY <2>2, <3>2
    <3>3. QED
          BY <3>1, <3>2
  <2>9. ASSUME NEW p \in Children
        PROVE  /\ total[p] <= mid[p] \/ (p = chat /\ total[p] <= mid[p] + X)
               /\ mid[p] <= Unbacked[p] \/ (p = claimed /\ mid[p] <= Unbacked[p] + Y)
    <3>1. total[p] \in Nat /\ Unbacked[p] \in Nat /\ mid[p] \in Nat
          BY <2>2, <2>3
    <3>2. CASE child[p].role = "chat"
      <4>1. mid[p] = Unbacked[p]
            BY <3>2
      <4> HIDE DEF total, mid, X, Y, chat, claimed
      <4>2. QED
            BY <2>8, <3>1, <3>2, <4>1
    <3>3. CASE child[p].role # "chat"
      <4>1. mid[p] = total[p]
            BY <3>3
      <4> HIDE DEF total, mid, X, Y, chat, claimed
      <4>2. QED
            BY <2>8, <3>1, <3>3, <4>1
    <3>4. QED
          BY <3>2, <3>3
  <2>10. SumFunction(total) <= SumFunction(mid) + X
    <3> HIDE DEF total, mid, X, chat
    <3>1. chat \in Children => total[chat] <= mid[chat] + X
          BY <2>3, <2>9
    <3>2. \A p \in Children \ {chat} : total[p] <= mid[p]
          BY <2>9
    <3>3. QED
          BY <2>3, <3>1, <3>2, Sizes, SumGrows
  <2>11. SumFunction(mid) <= SumFunction(Unbacked) + Y
    <3> HIDE DEF mid, Y, claimed
    <3>1. claimed \in Children => mid[claimed] <= Unbacked[claimed] + Y
          BY <2>2, <2>3, <2>9
    <3>2. \A p \in Children \ {claimed} : mid[p] <= Unbacked[p]
          BY <2>9
    <3>3. QED
          BY <2>2, <2>3, <3>1, <3>2, Sizes, SumGrows
  <2>12. SumFunction(beside) <= SumFunction(Charges) + (-X)
    <3>1. "chat" \in Names /\ -X \in Int /\ beside["chat"] <= Charges["chat"] + (-X)
          BY <2>3, Constant
    <3>2. \A n \in Names \ {"chat"} : beside[n] <= Charges[n]
          BY <2>2
    <3> HIDE DEF beside, X
    <3>3. QED
          BY <2>2, <2>3, <3>1, <3>2, Sizes, SumShift
  <2>13. SumFunction(others) <= SumFunction(beside) + (-Y)
    <3>1. "decision" \in Names /\ -Y \in Int /\ others["decision"] <= beside["decision"] + (-Y)
          BY <2>3, Constant
    <3>2. \A n \in Names \ {"decision"} : others[n] <= beside[n]
          BY <2>2, Constant
    <3> HIDE DEF beside, others, Y
    <3>3. QED
          BY <2>3, <3>1, <3>2, Sizes, SumShift
  <2>14. NoOvercommit = (SumFunction(needs) + SumFunction(held) <= Memory)
         BY DEF NoOvercommit
  <2>15. SumFunction(Unbacked) + SumFunction(Charges) <= Memory
         BY <2>1 DEF FitsInv
  <2> HIDE DEF needs, held, total, mid, others, beside, X, Y
  <2>16. /\ SumFunction(needs) \in Nat /\ SumFunction(held) \in Nat /\ SumFunction(total) \in Nat
         /\ SumFunction(mid) \in Nat /\ SumFunction(others) \in Nat /\ SumFunction(beside) \in Nat
         /\ SumFunction(Unbacked) \in Nat /\ SumFunction(Charges) \in Nat
         BY <2>2, <2>3, <2>5, Sizes, SumFacts
  <2>17. SumFunction(needs) + SumFunction(held) <= Memory
         BY <2>3, <2>6, <2>7, <2>10, <2>11, <2>12, <2>13, <2>15, <2>16, Sizes
  <2>18. QED
         BY <2>14, <2>17
<1>2. QED
      BY <1>1, IInvAlways, MemoryAlways, PTL

-----------------------------------------------------------------------------
(* The types.                                                              *)

\* What TypeOK says beside ShapeInv, and that the roles' records belong to a token.
RestInv ==
  /\ launch \in [Launches -> {"none", "pending", "loaded", "gone"}]
  /\ available \in Int
  /\ pc \in {"free", "settle", "admit", "chat", "decision", "health_chat",
             "health_decision", "failed", "resize", "retire", "keep", "grow",
             "grown", "drop", "restore", "fallback", "fallback_health"}
  /\ state \in {"down", "starting", "ready"}
  /\ prepared \in BOOLEAN /\ paired \in BOOLEAN
  /\ poll \in {"idle", "read", "clear"}
  /\ seen \in [Roles -> Children \cup {Absent}]
  /\ targets \subseteq Roles \X Tokens /\ stripped \subseteq Roles \X Tokens
  /\ \A n \in Roles \cap Held : file[n].owner \in Tokens

\* Where the operations go, and what they say of themselves.
LEMMA StageTypes ==
  ASSUME RestInv, [Next]_vars
  PROVE  /\ pc' \in {"free", "settle", "admit", "chat", "decision", "health_chat",
                     "health_decision", "failed", "resize", "retire", "keep", "grow",
                     "grown", "drop", "restore", "fallback", "fallback_health"}
         /\ state' \in {"down", "starting", "ready"}
         /\ prepared' \in BOOLEAN /\ paired' \in BOOLEAN
<1> DEFINE Stages == {"free", "settle", "admit", "chat", "decision", "health_chat",
                      "health_decision", "failed", "resize", "retire", "keep", "grow",
                      "grown", "drop", "restore", "fallback", "fallback_health"}
           Typed == /\ pc' \in Stages /\ state' \in {"down", "starting", "ready"}
                    /\ prepared' \in BOOLEAN /\ paired' \in BOOLEAN
<1> SUFFICES Typed
    OBVIOUS
<1>1. /\ pc \in Stages /\ state \in {"down", "starting", "ready"}
      /\ prepared \in BOOLEAN /\ paired \in BOOLEAN
      BY DEF RestInv
<1>2. ASSUME NEW next \in Stages, StopTo(next) PROVE Typed
      BY <1>1, <1>2 DEF StopTo
<1>3. CASE Setup \/ AdoptSaved \/ Stop
      BY <1>1, <1>2, <1>3 DEF Setup, AdoptSaved, Stop
<1>4. CASE Start
  <2>1. CASE StartBegins
    <3>1. StopTo("settle") \/ (pc' = "settle" /\ UNCHANGED <<state, prepared, paired>>)
          BY <2>1 DEF StartBegins
    <3>2. QED
          BY <3>1, <1>1, <1>2
  <2>2. CASE Settle \/ Admit \/ AdmitRefused
        BY <2>2, <1>1 DEF Settle, Admit, AdmitRefused
  <2>3. CASE \E r \in Roles : SpawnWorker(r)
        BY <2>3, <1>1 DEF SpawnWorker, AfterSpawn
  <2>4. CASE ChatHealthy \/ DecisionHealthy \/ StartFails \/ CleanUp
        BY <2>4, <1>1 DEF ChatHealthy, DecisionHealthy, StartFails, CleanUp, managerVars
  <2>5. QED
        BY <1>4, <2>1, <2>2, <2>3, <2>4 DEF Start
<1>5. CASE EnsureContext
  <2>1. CASE GrowBegins \/ ResizeRefused \/ Resize \/ Retire
        BY <2>1, <1>1 DEF GrowBegins, ResizeRefused, Resize, Retire, managerVars
  <2>2. CASE Grow \/ Restore \/ GrownHealthy \/ GrownFails
        BY <2>2, <1>1 DEF Grow, Restore, Restores, GrownHealthy, GrownFails, managerVars
  <2>3. CASE Drop
        BY <2>3, <1>1, <1>2 DEF Drop, managerVars
  <2>4. CASE Fallback
        BY <2>4, <1>1, <1>2 DEF Fallback
  <2>5. CASE FallbackEnds
        BY <2>5, <1>1, <1>2 DEF FallbackEnds, managerVars
  <2>6. QED
        BY <1>5, <2>1, <2>2, <2>3, <2>4, <2>5 DEF EnsureContext
<1>6. CASE Status \/ Crash
      BY <1>6, <1>1 DEF Status, StatusBegins, StatusReads, StatusClears, Crash, managerVars
<1>7. ASSUME NEW p \in Children,
             ChatLoads(p) \/ Claims(p) \/ DecisionLoads(p) \/ Relabels(p) \/ Leaves(p) \/ Exits(p)
      PROVE  Typed
      BY <1>7, <1>1 DEF ChatLoads, Claims, DecisionLoads, Relabels, Leaves, Exits, Moves, managerVars
<1>8. ASSUME NEW l \in Launches,
             LaunchAdmitted(l) \/ LaunchLoads(l) \/ LaunchDies(l) \/ LaunchClears(l)
      PROVE  Typed
      BY <1>8, <1>1 DEF LaunchAdmitted, LaunchLoads, LaunchDies, LaunchClears, LaunchGo, managerVars
<1>9. CASE UNCHANGED vars
      BY <1>9, <1>1 DEF vars, managerVars
<1>10. QED
       BY <1>3, <1>4, <1>5, <1>6, <1>7, <1>8, <1>9 DEF Next

LEMMA RestStep ==
  ASSUME BaseInv, RestInv, [Next]_vars
  PROVE  RestInv'
<1>1. ShapeInv /\ ContextInv
      BY DEF BaseInv
<1>2. launch' \in [Launches -> {"none", "pending", "loaded", "gone"}]
      BY LaunchMoves DEF RestInv
<1>3. available' \in Int
  <2>1. \A S : AvailableWithout(S) \in Int
        BY <1>1, AvailableBound
  <2>2. Settle => available' \in Int
        BY <2>1 DEF Settle
  <2>3. available \in Int
        BY DEF RestInv
  <2>4. QED
        BY <1>1, <2>1, <2>2, <2>3, StageMoves
<1>4. \A n \in Roles \cap Held' : file'[n].owner \in Tokens
  <2>1. Admit => token' \in Tokens
        BY <1>1, FileEffects DEF SpareTokens
  <2>2. Roles \cap Launches = {}
        BY Constant
  <2>3. QED
        BY <1>1, <2>1, <2>2, RecordMoves DEF RestInv
<1>5. /\ poll' \in {"idle", "read", "clear"} /\ seen' \in [Roles -> Children \cup {Absent}]
      /\ targets' \subseteq Roles \X Tokens /\ stripped' \subseteq Roles \X Tokens
  <2>1. /\ poll \in {"idle", "read", "clear"} /\ seen \in [Roles -> Children \cup {Absent}]
        /\ targets \subseteq Roles \X Tokens /\ tracked \in [Roles -> Children \cup {Absent}]
        /\ stripped \subseteq Roles \X Tokens
        BY <1>1 DEF RestInv, ShapeInv
  <2>2. NoChildren \in [Roles -> Children \cup {Absent}]
        BY DEF NoChildren
  <2>3. {<<n, file[n].owner>> : n \in Reaped(seen, Live)} \subseteq Roles \X Tokens
        BY DEF RestInv, Reaped
  <2>4. QED
        BY <2>1, <2>2, <2>3, PollMoves
        DEF Status, StatusBegins, StatusReads, StatusClears, Crash, Admit, pollVars
<1>6. QED
      BY <1>2, <1>3, <1>4, <1>5, StageTypes DEF RestInv

\* Every variable keeps its type, the memory that is left and the records that
\* status() is about to clear included.
THEOREM TypesAlways == Spec => []TypeOK
<1>1. Init => RestInv
  <2> SUFFICES ASSUME Init PROVE RestInv
      OBVIOUS
  <2>1. Held = {}
        BY DEF Init, Held
  <2>2. seen \in [Roles -> Children \cup {Absent}]
        BY DEF Init, NoChildren
  <2>3. launch \in [Launches -> {"none", "pending", "loaded", "gone"}]
        BY DEF Init
  <2>4. pc = "free" /\ state = "down" /\ poll = "idle" /\ targets = {} /\ stripped = {}
        BY DEF Init
  <2>5. available \in Int
        BY DEF Init
  <2>6. prepared \in BOOLEAN /\ paired \in BOOLEAN
        BY DEF Init
  <2>7. QED
        BY <2>1, <2>2, <2>3, <2>4, <2>5, <2>6 DEF RestInv
<1>2. BaseInv /\ RestInv /\ [Next]_vars => RestInv'
      BY RestStep
<1>3. BaseInv /\ RestInv => TypeOK
      BY DEF BaseInv, ShapeInv, RestInv, TypeOK, Process, Live
<1>4. QED
      BY <1>1, <1>2, <1>3, BaseAlways, PTL DEF Spec
=============================================================================
