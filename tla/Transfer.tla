------------------------------ MODULE Transfer ------------------------------
(***************************************************************************)
(* Offline installation of a transfer bundle (transfer.py): extract and    *)
(* verify into a staging directory, build the runtime in a generation      *)
(* directory of its own, point the venv at it, swap the units (a pair's    *)
(* artifacts, the wheels, a voice pack) one by one, activate the pair      *)
(* locks, and undo all of it in reverse order when a step raises.  Every   *)
(* action is one change of the file system; a kill falls between any two   *)
(* of them and leaves nothing in memory.                                   *)
(***************************************************************************)
EXTENDS Integers, Sequences, FiniteSets

CONSTANTS
    Absent,     \* nothing at a path
    Old,        \* what was installed before the first transfer
    Bundles,    \* bundle ids
    Units,
    Swaps,      \* the units of each bundle, in the order of _swap_units
    Locked,     \* the units that are pairs: each has a pair lock
    Activates,  \* the pairs of each bundle, in the order of their activation
    Fresh,      \* the units that are not installed at first
    WithVenv,   \* TRUE: installations with the runtime, FALSE: import_bundle alone
    MaxAttempts,\* bound: installations that are started
    MaxKills    \* bound: times the process is killed

Carries == [x \in Bundles |-> {Swaps[x][k] : k \in DOMAIN Swaps[x]}]
Attempts == 1 .. MaxAttempts
Contents == Bundles \cup {Old}

ASSUME BundleAssumption ==
    /\ Absent \notin Contents /\ Old \notin Bundles
    /\ Swaps \in [Bundles -> Seq(Units)] /\ Activates \in [Bundles -> Seq(Locked)]
    /\ \A x \in Bundles :
        /\ \A k, l \in DOMAIN Swaps[x] : Swaps[x][k] = Swaps[x][l] => k = l
        /\ \A k, l \in DOMAIN Activates[x] : Activates[x][k] = Activates[x][l] => k = l
        /\ {Activates[x][k] : k \in DOMAIN Activates[x]} = Carries[x] \cap Locked
    /\ Locked \subseteq Units /\ Fresh \subseteq Units
    /\ "partial" \notin Contents \cup {Absent}
    /\ MaxAttempts \in Nat /\ MaxKills \in Nat /\ WithVenv \subseteq BOOLEAN

VARIABLES
    pc,         \* the step of the running installation, "idle" when none runs
    job,        \* [bundle, venv]: its bundle; with the runtime (install_bundle) or not
    dest,       \* what is installed for a unit
    staged,     \* per bundle: the units in its staging directory
    back,       \* per bundle: the units in its backup directory
    lock,       \* the active pair lock of a unit: whose artifacts it names
    lockBack,   \* per bundle: the pair locks in its backup directory
    gen,        \* generation directories, one per attempt: a bundle's runtime or "partial"
    link,       \* the generation the venv symlink points at, 0: no symlink
    legacy,     \* where the real venv directory of an earlier installer is
    i, j,       \* swaps and locks that are done
    moved,      \* commit_runtime moved the real directory away
    retired,    \* the generation the venv pointed at before
    n,          \* attempts so far; the current attempt's generation
    kills,      \* kills so far
    outcome,    \* how the last attempt ended
    broken,     \* history: a step of a rollback has raised
    before,     \* history: what was installed when the attempt began
    had         \* history: units installed when the last attempt that ended did

fileVars == <<dest, staged, back, lock, lockBack>>
venvVars == <<gen, link, legacy, moved, retired>>
stepVars == <<i, j>>
histVars == <<n, kills, outcome, broken, before, had>>
vars == <<pc, job, fileVars, venvVars, stepVars, histVars>>

b == job.bundle
Nowhere == [u \in Units |-> Absent]
Plan == Swaps[b]
LockPlan == Activates[b]

\* What runs when the venv is used: the old directory, a generation's runtime, or nothing.
Venv == IF link # 0 THEN gen[link] ELSE IF legacy = "venv" THEN Old ELSE Absent
Installed == [dest |-> dest, lock |-> lock, venv |-> Venv]

Init ==
    /\ pc = "idle" /\ job \in [bundle : Bundles, venv : {TRUE}]
    /\ dest = [u \in Units |-> IF u \in Fresh THEN Absent ELSE Old]
    /\ lock = [u \in Units |-> IF u \in Locked \ Fresh THEN Old ELSE Absent]
    /\ staged = [x \in Bundles |-> {}]
    /\ back = [x \in Bundles |-> Nowhere] /\ lockBack = [x \in Bundles |-> Nowhere]
    /\ gen = [g \in Attempts |-> Absent] /\ link = 0 /\ legacy \in {"venv", "gone"}
    /\ moved = FALSE /\ retired = 0 /\ i = 0 /\ j = 0
    /\ n = 0 /\ kills = 0 /\ outcome = "none" /\ broken = FALSE
    /\ before = Installed /\ had = {u \in Units : dest[u] # Absent}

----------------------------------------------------------------------------
(* Staging.                                                                *)

\* stage_import after its checks: staging and backup directory of an earlier
\* attempt with the same bundle are removed.
StageBegins ==
    /\ pc = "idle" /\ n < MaxAttempts
    /\ \E x \in Bundles, v \in WithVenv :
        /\ job' = [bundle |-> x, venv |-> v]
        /\ staged' = [staged EXCEPT ![x] = {}]
        /\ back' = [back EXCEPT ![x] = Nowhere]
        /\ lockBack' = [lockBack EXCEPT ![x] = Nowhere]
    /\ pc' = "extract" /\ n' = n + 1
    /\ i' = 0 /\ j' = 0 /\ moved' = FALSE /\ retired' = 0
    /\ outcome' = "running" /\ before' = Installed
    /\ UNCHANGED <<dest, lock, gen, link, legacy, kills, broken, had>>

Extract ==
    /\ pc = "extract"
    /\ staged' = [staged EXCEPT ![b] = Carries[b]]
    /\ pc' = IF job.venv THEN "build" ELSE "swap"
    /\ UNCHANGED <<job, dest, back, lock, lockBack, venvVars, stepVars, histVars>>

\* A payload that does not match, or no space: nothing else was touched.
ExtractFails ==
    /\ pc = "extract"
    /\ pc' = "idle" /\ outcome' = "failed" /\ had' = {u \in Units : dest[u] # Absent}
    /\ UNCHANGED <<job, fileVars, venvVars, stepVars, n, kills, broken, before>>

\* stage_runtime: venv creation, offline pip, probe, record hashes.
BuildRuntime ==
    /\ pc = "build"
    /\ gen' = [gen EXCEPT ![n] = b] /\ pc' = "venv"
    /\ UNCHANGED <<job, fileVars, link, legacy, moved, retired, stepVars, histVars>>

BuildFails ==
    /\ pc = "build" /\ pc' = "drop"
    /\ UNCHANGED <<job, fileVars, venvVars, stepVars, histVars>>

----------------------------------------------------------------------------
(* commit_runtime and restore_runtime.                                     *)

RetireGeneration ==
    /\ pc = "venv" /\ link # 0
    /\ gen[link] # Absent           \* _owned_generation: it is a directory
    /\ retired' = link /\ pc' = "point"
    /\ UNCHANGED <<job, fileVars, gen, link, legacy, moved, stepVars, histVars>>

MoveRealVenv ==
    /\ pc = "venv" /\ link = 0
    /\ legacy' = IF legacy = "venv" THEN "hidden" ELSE legacy
    /\ moved' = (legacy = "venv")
    /\ pc' = "point"
    /\ UNCHANGED <<job, fileVars, gen, link, retired, stepVars, histVars>>

\* The symlink is made beside and replaces venv_target in one step.
PointVenv ==
    /\ pc = "point"
    /\ link' = n /\ pc' = "swap"
    /\ UNCHANGED <<job, fileVars, gen, legacy, moved, retired, stepVars, histVars>>

CommitRuntimeFails ==
    /\ pc \in {"venv", "point"} /\ pc' = "drop"
    /\ legacy' = IF moved THEN "venv" ELSE legacy
    /\ UNCHANGED <<job, fileVars, gen, link, moved, retired, stepVars, histVars>>

\* restore_runtime, first half: the symlink to the candidate goes away.
UnlinkVenv ==
    /\ pc = "unlink"
    /\ link' = 0 /\ pc' = "relink"
    /\ UNCHANGED <<job, fileVars, gen, legacy, moved, retired, stepVars, histVars>>

\* Second half: the directory or the retired generation is back.
RelinkVenv ==
    /\ pc = "relink" /\ pc' = "drop"
    /\ LET isBack == moved /\ legacy = "hidden"
       IN  /\ legacy' = IF isBack THEN "venv" ELSE legacy
           /\ link' = IF ~isBack /\ retired # 0 /\ gen[retired] # Absent THEN retired ELSE link
    /\ UNCHANGED <<job, fileVars, gen, moved, retired, stepVars, histVars>>

\* The candidate that is not in use is removed.
DropCandidate ==
    /\ pc = "drop" /\ pc' = "failing"
    /\ gen' = [gen EXCEPT ![n] = Absent]
    /\ UNCHANGED <<job, fileVars, link, legacy, moved, retired, stepVars, histVars>>

\* A step of restore_runtime or of commit_runtime's own rollback raises.
RestoreFails ==
    /\ pc \in {"point", "unlink", "relink"} /\ pc' = "failing"
    /\ broken' = TRUE
    /\ UNCHANGED <<job, fileVars, venvVars, stepVars, n, kills, outcome, before, had>>

----------------------------------------------------------------------------
(* commit_import: swap the units, activate the locks.                      *)

\* Mutant of MoveOld: the old tree is removed, not kept.
MoveOldGone ==
    /\ pc = "swap" /\ i < Len(Plan)
    /\ dest[Plan[i + 1]] # Absent
    /\ dest' = [dest EXCEPT ![Plan[i + 1]] = Absent]
    /\ UNCHANGED <<pc, job, staged, back, lock, lockBack, venvVars, stepVars, histVars>>

MoveOld ==
    /\ pc = "swap" /\ i < Len(Plan)
    /\ LET u == Plan[i + 1]
       IN  /\ dest[u] # Absent
           /\ back' = [back EXCEPT ![b][u] = dest[u]]
           /\ dest' = [dest EXCEPT ![u] = Absent]
    /\ UNCHANGED <<pc, job, staged, lock, lockBack, venvVars, stepVars, histVars>>

\* Mutant of PlaceNew: a unit that is there already is left alone.
PlaceNewFresh ==
    /\ pc = "swap" /\ i < Len(Plan) /\ i' = i + 1
    /\ dest' = [dest EXCEPT ![Plan[i + 1]] = IF @ = Absent THEN b ELSE @]
    /\ staged' = [staged EXCEPT ![b] = @ \ {Plan[i + 1]}]
    /\ UNCHANGED <<pc, job, back, lock, lockBack, venvVars, j, histVars>>

PlaceNew ==
    /\ pc = "swap" /\ i < Len(Plan)
    /\ LET u == Plan[i + 1]
       IN  /\ dest[u] = Absent
           /\ dest' = [dest EXCEPT ![u] = b]
           /\ staged' = [staged EXCEPT ![b] = @ \ {u}]
    /\ i' = i + 1
    /\ UNCHANGED <<pc, job, back, lock, lockBack, venvVars, j, histVars>>

MoveLock ==
    /\ pc = "swap" /\ i = Len(Plan) /\ j < Len(LockPlan)
    /\ LET u == LockPlan[j + 1]
       IN  /\ lock[u] # Absent
           /\ lockBack' = [lockBack EXCEPT ![b][u] = lock[u]]
           /\ lock' = [lock EXCEPT ![u] = Absent]
    /\ UNCHANGED <<pc, job, dest, staged, back, venvVars, stepVars, histVars>>

WriteLock ==
    /\ pc = "swap" /\ i = Len(Plan) /\ j < Len(LockPlan)
    /\ LET u == LockPlan[j + 1]
       IN  lock[u] = Absent /\ lock' = [lock EXCEPT ![u] = b]
    /\ j' = j + 1
    /\ UNCHANGED <<pc, job, dest, staged, back, lockBack, venvVars, i, histVars>>

Committed ==
    /\ pc = "swap" /\ i = Len(Plan) /\ j = Len(LockPlan)
    /\ pc' = IF job.venv THEN "prune" ELSE "done"
    /\ UNCHANGED <<job, fileVars, venvVars, stepVars, histVars>>

\* A rename or a lock write raises.  _activate_lock puts its own backup back first.
CommitImportFails ==
    /\ pc = "swap" /\ (i < Len(Plan) \/ j < Len(LockPlan))
    /\ IF i = Len(Plan) /\ lockBack[b][LockPlan[j + 1]] # Absent
          THEN LET u == LockPlan[j + 1]
               IN  /\ lock' = [lock EXCEPT ![u] = lockBack[b][u]]
                   /\ lockBack' = [lockBack EXCEPT ![b][u] = Absent]
          ELSE UNCHANGED <<lock, lockBack>>
    /\ pc' = "undo"
    /\ UNCHANGED <<job, dest, staged, back, venvVars, stepVars, histVars>>

\* Mutant of UndoLock: a lock that had no predecessor stays.
UndoLockKeepsNew ==
    /\ pc = "undo" /\ j > 0
    /\ LET u == LockPlan[j]
       IN  /\ lock' = [lock EXCEPT ![u] = IF lockBack[b][u] = Absent THEN @ ELSE lockBack[b][u]]
           /\ lockBack' = [lockBack EXCEPT ![b][u] = Absent]
    /\ j' = j - 1
    /\ UNCHANGED <<pc, job, dest, staged, back, venvVars, i, histVars>>

\* The rollback: locks, then the new units, then the old ones, each in reverse.
UndoLock ==
    /\ pc = "undo" /\ j > 0
    /\ LET u == LockPlan[j]
       IN  /\ lock' = [lock EXCEPT ![u] = lockBack[b][u]]
           /\ lockBack' = [lockBack EXCEPT ![b][u] = Absent]
    /\ j' = j - 1
    /\ UNCHANGED <<pc, job, dest, staged, back, venvVars, i, histVars>>

UndoNew ==
    /\ pc = "undo" /\ j = 0 /\ i > 0
    /\ LET u == Plan[i]
       IN  /\ dest' = [dest EXCEPT ![u] = Absent]
           /\ staged' = [staged EXCEPT ![b] = @ \cup {u}]
    /\ i' = i - 1
    /\ UNCHANGED <<pc, job, back, lock, lockBack, venvVars, j, histVars>>

\* The code goes backwards here too; the units do not depend on each other.
UndoOld ==
    /\ pc = "undo" /\ j = 0 /\ i = 0
    /\ \E u \in Units :
        /\ back[b][u] # Absent
        /\ dest' = [dest EXCEPT ![u] = back[b][u]]
        /\ back' = [back EXCEPT ![b][u] = Absent]
    /\ UNCHANGED <<pc, job, staged, lock, lockBack, venvVars, stepVars, histVars>>

Undone ==
    /\ pc = "undo" /\ j = 0 /\ i = 0 /\ back[b] = Nowhere
    /\ pc' = IF job.venv THEN "unlink" ELSE "failing"
    /\ UNCHANGED <<job, fileVars, venvVars, stepVars, histVars>>

UndoRaises ==
    /\ pc = "undo" /\ (i > 0 \/ j > 0 \/ back[b] # Nowhere)
    /\ pc' = IF job.venv THEN "unlink" ELSE "failing"
    /\ broken' = TRUE
    /\ UNCHANGED <<job, fileVars, venvVars, stepVars, n, kills, outcome, before, had>>

----------------------------------------------------------------------------
(* The end of an attempt.                                                  *)

\* install_bundle: the backup of the units first, then what the venv was.
PruneBackup ==
    /\ pc = "prune" /\ pc' = "prune_venv"
    /\ back' = [back EXCEPT ![b] = Nowhere]
    /\ lockBack' = [lockBack EXCEPT ![b] = Nowhere]
    /\ UNCHANGED <<job, dest, staged, lock, venvVars, stepVars, histVars>>

PruneVenv ==
    /\ pc = "prune_venv" /\ pc' = "done"
    /\ legacy' = IF moved THEN "gone" ELSE legacy
    /\ gen' = IF retired # 0 THEN [gen EXCEPT ![retired] = Absent] ELSE gen
    /\ UNCHANGED <<job, fileVars, link, moved, retired, stepVars, histVars>>

\* The finally clauses: staging goes; import_bundle discards its backup as well.
Ends ==
    /\ pc \in {"failing", "done"} /\ pc' = "idle"
    /\ staged' = [staged EXCEPT ![b] = {}]
    /\ IF job.venv THEN UNCHANGED <<back, lockBack>>
       ELSE /\ back' = [back EXCEPT ![b] = Nowhere]
            /\ lockBack' = [lockBack EXCEPT ![b] = Nowhere]
    /\ outcome' = IF pc = "done" THEN "ok" ELSE "failed"
    /\ had' = {u \in Units : dest[u] # Absent}
    /\ UNCHANGED <<job, dest, lock, venvVars, stepVars, n, kills, broken, before>>

\* The process is killed.  A generation that is being built or removed is left in part.
Kill ==
    /\ pc # "idle" /\ kills < MaxKills
    /\ pc' = "idle" /\ kills' = kills + 1 /\ outcome' = "killed"
    /\ \/ gen' = gen
       \/ pc \in {"build", "drop"} /\ gen' = [gen EXCEPT ![n] = "partial"]
       \/ pc = "prune_venv" /\ retired # 0 /\ gen' = [gen EXCEPT ![retired] = "partial"]
    /\ UNCHANGED <<job, fileVars, link, legacy, moved, retired, stepVars, n, broken, before, had>>

Stage == StageBegins \/ Extract \/ ExtractFails \/ BuildRuntime \/ BuildFails
Runtime == RetireGeneration \/ MoveRealVenv \/ PointVenv \/ CommitRuntimeFails
           \/ UnlinkVenv \/ RelinkVenv \/ DropCandidate \/ RestoreFails
Import == MoveOld \/ PlaceNew \/ MoveLock \/ WriteLock \/ Committed \/ CommitImportFails
          \/ UndoLock \/ UndoNew \/ UndoOld \/ Undone \/ UndoRaises
Next == Stage \/ Runtime \/ Import \/ PruneBackup \/ PruneVenv \/ Ends \/ Kill

Spec == Init /\ [][Next]_vars

----------------------------------------------------------------------------
(* Properties.                                                             *)

\* Types.
TypeOK ==
    /\ pc \in {"idle", "extract", "build", "venv", "point", "unlink", "relink", "drop",
               "swap", "undo", "prune", "prune_venv", "failing", "done"}
    /\ job \in [bundle : Bundles, venv : BOOLEAN]
    /\ dest \in [Units -> Contents \cup {Absent}] /\ lock \in [Units -> Contents \cup {Absent}]
    /\ staged \in [Bundles -> SUBSET Units]
    /\ back \in [Bundles -> [Units -> Contents \cup {Absent}]]
    /\ lockBack \in [Bundles -> [Units -> Contents \cup {Absent}]]
    /\ gen \in [Attempts -> Bundles \cup {Absent, "partial"}]
    /\ link \in 0 .. MaxAttempts /\ retired \in 0 .. MaxAttempts
    /\ legacy \in {"venv", "hidden", "gone"} /\ moved \in BOOLEAN
    /\ i \in 0 .. Len(Plan) /\ j \in 0 .. Len(LockPlan)
    /\ n \in 0 .. MaxAttempts /\ kills \in 0 .. MaxKills
    /\ outcome \in {"none", "running", "ok", "failed", "killed"} /\ broken \in BOOLEAN

\* "Any failure leaves the previous installation untouched": however far it came,
\* an attempt that reports a failure has put back the units, the pair locks and
\* the runtime that it found, as long as no step of the rollback raised itself.
FailureRestores == outcome = "failed" /\ ~broken => Installed = before

\* A completed attempt installed every unit of its bundle with its lock and its
\* runtime, also over what a killed attempt left behind, and kept every other unit.
SuccessInstalls ==
    outcome = "ok" =>
        /\ \A u \in Units : IF u \in Carries[b] THEN dest[u] = b ELSE dest[u] = before.dest[u]
        /\ \A u \in Units : lock[u] = IF u \in Carries[b] \cap Locked THEN b ELSE before.lock[u]
        /\ Venv = IF job.venv THEN b ELSE before.venv

\* At every moment, a kill included, the venv symlink leads to a complete,
\* verified generation.
VenvIsWhole == link # 0 => gen[link] \in Bundles

\* A unit, a pair lock or a runtime that was there when an attempt began is whole
\* somewhere, in place or in its backup, throughout the attempt, its rollback and
\* a kill.  (import_bundle discards the backup even after a rollback that raised.)
CopyKept ==
    job.venv \/ ~broken =>
        /\ \A u \in Units : before.dest[u] # Absent => dest[u] # Absent \/ back[b][u] # Absent
        /\ \A u \in Units : before.lock[u] # Absent => lock[u] # Absent \/ lockBack[b][u] # Absent
        /\ before.venv # Absent => Venv # Absent \/ (moved /\ legacy = "hidden")
                                  \/ (retired # 0 /\ gen[retired] \in Bundles)

\* What the docstring of import_bundle says: "a previous installation is kept until the
\* verified staging tree is swapped in".  Violated: see the run transfer_retry.
PreviousKept ==
    \A u \in had : dest[u] # Absent \/ \E x \in Bundles : back[x][u] # Absent
============================================================================
