--------------------------- MODULE TransferProofs ---------------------------
(***************************************************************************)
(* An installation that fails leaves what it found and one that finishes   *)
(* is complete, at no moment is the only copy of something gone or the     *)
(* venv link dangling: for any bundles, units and pair locks, any number   *)
(* of attempts and kills, and failures in every step.                      *)
(***************************************************************************)
EXTENDS Transfer, TLAPS

-----------------------------------------------------------------------------
\* The inductive invariant

Files == [Units -> Contents \cup {Absent}]
TypeInv ==
    /\ TypeOK
    /\ before \in [dest : Files, lock : Files, venv : Contents \cup {Absent, "partial"}]

\* The steps before anything is swapped, those of a rollback behind the swaps, and
\* those after everything is swapped.
Early == {"extract", "build", "venv", "point"}
Failing == {"unlink", "relink", "drop", "failing"}
Late == {"prune", "prune_venv", "done"}

\* An attempt runs until it has an outcome.
OutcomeInv ==
    /\ pc = "idle" <=> outcome # "running"
    /\ pc # "idle" => n # 0

\* The units.  Those whose swap is done have the new content and the old one in
\* the backup; at most one is between the two renames, until a rollback leaves
\* all of the undone ones there.
Swapped == {Plan[k] : k \in 1 .. i}
UnitFound(u) == dest[u] = before.dest[u] /\ back[b][u] = Absent
UnitMoved(u) == dest[u] = Absent /\ back[b][u] = before.dest[u]
UnitNew(u) == dest[u] = b /\ back[b][u] = before.dest[u]
UnitKept(u) == before.dest[u] # Absent => dest[u] # Absent \/ back[b][u] # Absent
UnitsInstalled ==
    \A u \in Units : IF u \in Carries[b] THEN dest[u] = b ELSE dest[u] = before.dest[u]

UnitInv ==
    /\ pc \in Early => i = 0 /\ \A u \in Units : UnitFound(u)
    /\ pc = "swap" =>
        \A u \in Units :
            IF u \in Swapped THEN UnitNew(u)
            ELSE UnitFound(u) \/ (i < Len(Plan) /\ u = Plan[i + 1] /\ UnitMoved(u))
    /\ pc = "undo" =>
        \A u \in Units :
            IF u \in Swapped THEN UnitNew(u) ELSE UnitFound(u) \/ UnitMoved(u)
    /\ pc \in Failing =>
        \A u \in Units : UnitKept(u) /\ (~broken => UnitFound(u))
    /\ pc \in Late \/ outcome = "ok" => UnitsInstalled
    /\ outcome = "failed" /\ ~broken => \A u \in Units : dest[u] = before.dest[u]
    /\ pc = "idle" /\ (job.venv \/ ~broken) => \A u \in Units : UnitKept(u)

\* The pair locks, in the same way; they come after all of the units.
Activated == {LockPlan[k] : k \in 1 .. j}
LockFound(u) == lock[u] = before.lock[u] /\ lockBack[b][u] = Absent
LockMoved(u) == lock[u] = Absent /\ lockBack[b][u] = before.lock[u]
LockNew(u) == lock[u] = b /\ lockBack[b][u] = before.lock[u]
LockKept(u) == before.lock[u] # Absent => lock[u] # Absent \/ lockBack[b][u] # Absent
LocksInstalled ==
    \A u \in Units :
        lock[u] = IF u \in Carries[b] \cap Locked THEN b ELSE before.lock[u]

LockInv ==
    /\ pc \in Early => j = 0 /\ \A u \in Units : LockFound(u)
    /\ pc = "swap" =>
        /\ i < Len(Plan) => j = 0
        /\ \A u \in Units :
            IF u \in Activated THEN LockNew(u)
            ELSE \/ LockFound(u)
                 \/ i = Len(Plan) /\ j < Len(LockPlan) /\ u = LockPlan[j + 1] /\ LockMoved(u)
    /\ pc = "undo" =>
        \A u \in Units : IF u \in Activated THEN LockNew(u) ELSE LockFound(u)
    /\ pc \in Failing =>
        \A u \in Units : LockKept(u) /\ (~broken => LockFound(u))
    /\ pc \in Late \/ outcome = "ok" => LocksInstalled
    /\ outcome = "failed" /\ ~broken => \A u \in Units : lock[u] = before.lock[u]
    /\ pc = "idle" /\ (job.venv \/ ~broken) => \A u \in Units : LockKept(u)

\* The runtime.  Until the new one is pruned or dropped, what the venv was is a
\* generation of its own, a directory out of the way, or nothing.
OldVenv ==
    \/ /\ retired \in 1 .. n - 1 /\ ~moved /\ legacy # "venv"
       /\ gen[retired] \in Bundles /\ gen[retired] = before.venv
    \/ retired = 0 /\ moved /\ legacy = "hidden" /\ before.venv = Old
    \/ retired = 0 /\ ~moved /\ legacy # "venv" /\ before.venv = Absent
VenvKept ==
    before.venv # Absent => Venv # Absent \/ (moved /\ legacy = "hidden")
                            \/ (retired # 0 /\ gen[retired] \in Bundles)
NewVenv == link = n /\ gen[n] = b

VenvInv ==
    /\ link <= n
    /\ VenvIsWhole
    /\ link # 0 => legacy # "venv"
    /\ pc \in {"extract", "build", "venv"} =>
        link # n /\ Venv = before.venv /\ ~moved /\ retired = 0
    /\ pc \notin {"idle", "extract", "swap", "undo", "failing", "done"} => job.venv
    /\ pc = "venv" => gen[n] = b
    /\ pc = "point" => link = retired /\ gen[n] = b /\ OldVenv
    /\ pc \in {"swap", "undo"} =>
        IF job.venv THEN NewVenv /\ OldVenv ELSE Venv = before.venv
    /\ pc = "unlink" => NewVenv /\ OldVenv
    /\ pc = "relink" => link = 0 /\ OldVenv
    /\ pc = "drop" => link # n /\ Venv = before.venv
    /\ pc = "failing" => VenvKept /\ (~broken => Venv = before.venv)
    /\ pc \in {"prune", "prune_venv"} => NewVenv /\ retired # n
    /\ pc = "done" => IF job.venv THEN NewVenv ELSE Venv = before.venv
    /\ pc = "idle" =>
        /\ VenvKept
        /\ outcome = "ok" => Venv = IF job.venv THEN b ELSE before.venv
        /\ outcome = "failed" /\ ~broken => Venv = before.venv

IInv == TypeInv /\ OutcomeInv /\ UnitInv /\ LockInv /\ VenvInv

-----------------------------------------------------------------------------
\* Facts about the constants

\* The plan of a bundle names each of its units once, and each of its pairs once.
LEMMA PlanFacts ==
    ASSUME TypeOK
    PROVE  /\ Plan \in Seq(Units) /\ Len(Plan) \in Nat
           /\ \A k \in 1 .. Len(Plan) : Plan[k] \in Units
           /\ \A k, l \in 1 .. Len(Plan) : Plan[k] = Plan[l] => k = l
           /\ Carries[b] = {Plan[k] : k \in 1 .. Len(Plan)} /\ Carries[b] \subseteq Units
           /\ LockPlan \in Seq(Locked) /\ Len(LockPlan) \in Nat
           /\ \A k \in 1 .. Len(LockPlan) : LockPlan[k] \in Locked /\ LockPlan[k] \in Units
           /\ \A k, l \in 1 .. Len(LockPlan) : LockPlan[k] = LockPlan[l] => k = l
           /\ Carries[b] \cap Locked = {LockPlan[k] : k \in 1 .. Len(LockPlan)}
<1>1. b \in Bundles
      BY DEF TypeOK, b
<1>2. Plan \in Seq(Units) /\ LockPlan \in Seq(Locked) /\ Locked \subseteq Units
      BY <1>1, BundleAssumption DEF Plan, LockPlan
<1>3. DOMAIN Plan = 1 .. Len(Plan) /\ DOMAIN LockPlan = 1 .. Len(LockPlan)
      BY <1>2
<1>4. Carries[b] = {Plan[k] : k \in 1 .. Len(Plan)}
      BY <1>1, <1>3 DEF Carries, Plan
<1>5. Carries[b] \cap Locked = {LockPlan[k] : k \in 1 .. Len(LockPlan)}
      BY <1>1, <1>3, BundleAssumption DEF LockPlan
<1>6. /\ \A k, l \in 1 .. Len(Plan) : Plan[k] = Plan[l] => k = l
      /\ \A k, l \in 1 .. Len(LockPlan) : LockPlan[k] = LockPlan[l] => k = l
      BY <1>1, <1>3, BundleAssumption DEF Plan, LockPlan
<1>7. \A k \in 1 .. Len(Plan) : Plan[k] \in Units
      BY <1>2
<1>8. Carries[b] \subseteq Units
      BY <1>4, <1>7
<1>9. QED
      BY <1>2, <1>4, <1>5, <1>6, <1>8

\* A bundle's content is neither nothing nor what was there at first.
LEMMA ContentFacts ==
    ASSUME TypeOK
    PROVE  b \in Bundles /\ b # Absent /\ b # Old /\ b # "partial"
           /\ Old # Absent /\ Absent \notin Bundles
BY BundleAssumption DEF TypeOK, Contents, b

\* Changing one entry of a function of functions.
LEMMA EntryFacts ==
    ASSUME NEW S, NEW T, NEW R, NEW f \in [S -> [T -> R]],
           NEW x \in S, NEW y \in T, NEW r \in R
    PROVE  LET g == [f EXCEPT ![x][y] = r]
           IN  /\ g \in [S -> [T -> R]] /\ g[x][y] = r
               /\ \A v \in T : v # y => g[x][v] = f[x][v]
OBVIOUS

LEMMA InitInv == Init => IInv
<1> SUFFICES ASSUME Init PROVE IInv
      OBVIOUS
<1> USE BundleAssumption DEF Init
<1>1. TypeInv
  <2>1. job \in [bundle : Bundles, venv : BOOLEAN]
        OBVIOUS
  <2>2. 0 \in 0 .. Len(Plan) /\ 0 \in 0 .. Len(LockPlan)
        BY <2>1 DEF Plan, LockPlan, b
  <2>3. dest \in Files /\ lock \in Files /\ Nowhere \in Files
        BY DEF Files, Contents, Nowhere
  <2>4. Venv \in Contents \cup {Absent, "partial"}
        BY DEF Venv, Contents
  <2>5. before \in [dest : Files, lock : Files, venv : Contents \cup {Absent, "partial"}]
        BY <2>3, <2>4 DEF Installed
  <2>6. gen \in [Attempts -> Bundles \cup {Absent, "partial"}]
        OBVIOUS
  <2>7. i \in 0 .. Len(Plan) /\ j \in 0 .. Len(LockPlan)
        BY <2>2
  <2>8. back \in [Bundles -> Files] /\ lockBack \in [Bundles -> Files]
        BY <2>3
  <2>9. n \in 0 .. MaxAttempts /\ kills \in 0 .. MaxKills /\ link \in 0 .. MaxAttempts
        OBVIOUS
  <2>10. QED
        BY <2>1, <2>3, <2>5, <2>6, <2>7, <2>8, <2>9 DEF TypeInv, TypeOK, Files
<1>2. OutcomeInv
      BY DEF OutcomeInv
<1>3. UnitInv
      BY DEF UnitInv, UnitKept, Installed, Early, Failing, Late
<1>4. LockInv
      BY DEF LockInv, LockKept, Installed, Early, Failing, Late
<1>5. VenvInv
      BY DEF VenvInv, VenvIsWhole, VenvKept, Installed, Venv
<1>6. QED
      BY <1>1, <1>2, <1>3, <1>4, <1>5 DEF IInv

-----------------------------------------------------------------------------
\* Each part under each action

\* Every action keeps the shape of the state.
LEMMA TypeStep ==
    TypeInv /\ [Next]_vars => TypeInv'
<1> SUFFICES ASSUME TypeInv, [Next]_vars PROVE TypeInv'
      OBVIOUS
<1> USE BundleAssumption DEF TypeInv, TypeOK, Files, Attempts, Contents, Plan,
   LockPlan, b
<1>1. ASSUME StageBegins PROVE TypeInv'
  <2>1. PICK x \in Bundles, v \in WithVenv :
              /\ job' = [bundle |-> x, venv |-> v]
              /\ staged' = [staged EXCEPT ![x] = {}]
              /\ back' = [back EXCEPT ![x] = Nowhere]
              /\ lockBack' = [lockBack EXCEPT ![x] = Nowhere]
        BY <1>1 DEF StageBegins
  <2>2. job' \in [bundle : Bundles, venv : BOOLEAN]
        BY <2>1
  <2>3. 0 \in 0 .. Len(Plan)' /\ 0 \in 0 .. Len(LockPlan)'
    <3>1. Plan' \in Seq(Units) /\ LockPlan' \in Seq(Locked)
          BY <2>2
    <3>2. QED
          BY <3>1
  <2>4. Nowhere \in Files
        BY DEF Nowhere
  <2>5. Installed \in [dest : Files, lock : Files, venv : Contents \cup {Absent, "partial"}]
        BY DEF Installed, Venv
  <2>6. before' \in [dest : Files, lock : Files, venv : Contents \cup {Absent, "partial"}]
        BY <2>5, <1>1 DEF StageBegins
  <2>7. /\ staged' \in [Bundles -> SUBSET Units]
        /\ back' \in [Bundles -> Files] /\ lockBack' \in [Bundles -> Files]
        BY <2>1, <2>4
  <2>8. i' \in 0 .. Len(Plan)' /\ j' \in 0 .. Len(LockPlan)'
        BY <1>1, <2>3 DEF StageBegins
  <2>9. n' \in 0 .. MaxAttempts
        BY <1>1 DEF StageBegins
  <2>10. QED
    <3>1. /\ pc' = "extract" /\ moved' = FALSE /\ retired' = 0 /\ outcome' = "running"
          /\ UNCHANGED <<dest, lock, gen, link, legacy, kills, broken>>
          BY <1>1 DEF StageBegins
    <3>2. retired' \in 0 .. MaxAttempts
          BY <3>1
    <3> HIDE DEF Plan, LockPlan, b
    <3>3. QED
          BY <2>2, <2>6, <2>7, <2>8, <2>9, <3>1, <3>2
<1>2. ASSUME Extract PROVE TypeInv'
  <2>1. Carries[b] \in SUBSET Units
    <3> HIDE DEF Plan, LockPlan, b, Files, Contents
    <3>1. QED
          BY PlanFacts
  <2>2. staged' = [staged EXCEPT ![b] = Carries[b]]
        BY <1>2 DEF Extract
  <2>3. staged' \in [Bundles -> SUBSET Units]
        BY <2>1, <2>2
  <2>4. QED
        BY <2>3, <1>2 DEF Extract, fileVars, venvVars, stepVars, histVars
<1>3. ASSUME ExtractFails PROVE TypeInv'
      BY <1>3, PlanFacts, ContentFacts DEF ExtractFails, fileVars, venvVars,
         stepVars, histVars, Nowhere
<1>4. ASSUME BuildRuntime PROVE TypeInv'
      BY <1>4, PlanFacts, ContentFacts DEF BuildRuntime, fileVars, venvVars,
         stepVars, histVars, Nowhere
<1>5. ASSUME BuildFails PROVE TypeInv'
      BY <1>5, PlanFacts, ContentFacts DEF BuildFails, fileVars, venvVars,
         stepVars, histVars, Nowhere
<1>6. ASSUME RetireGeneration PROVE TypeInv'
      BY <1>6, PlanFacts, ContentFacts DEF RetireGeneration, fileVars, venvVars,
         stepVars, histVars, Nowhere
<1>7. ASSUME MoveRealVenv PROVE TypeInv'
      BY <1>7, PlanFacts, ContentFacts DEF MoveRealVenv, fileVars, venvVars,
         stepVars, histVars, Nowhere
<1>8. ASSUME PointVenv PROVE TypeInv'
      BY <1>8, PlanFacts, ContentFacts DEF PointVenv, fileVars, venvVars,
         stepVars, histVars, Nowhere
<1>9. ASSUME CommitRuntimeFails PROVE TypeInv'
      BY <1>9, PlanFacts, ContentFacts DEF CommitRuntimeFails, fileVars,
         venvVars, stepVars, histVars, Nowhere
<1>10. ASSUME UnlinkVenv PROVE TypeInv'
      BY <1>10, PlanFacts, ContentFacts DEF UnlinkVenv, fileVars, venvVars,
         stepVars, histVars, Nowhere
<1>11. ASSUME RelinkVenv PROVE TypeInv'
      BY <1>11, PlanFacts, ContentFacts DEF RelinkVenv, fileVars, venvVars,
         stepVars, histVars, Nowhere
<1>12. ASSUME DropCandidate PROVE TypeInv'
      BY <1>12, PlanFacts, ContentFacts DEF DropCandidate, fileVars, venvVars,
         stepVars, histVars, Nowhere
<1>13. ASSUME RestoreFails PROVE TypeInv'
      BY <1>13, PlanFacts, ContentFacts DEF RestoreFails, fileVars, venvVars,
         stepVars, histVars, Nowhere
<1>14. ASSUME MoveOld PROVE TypeInv'
      BY <1>14, PlanFacts, ContentFacts DEF MoveOld, fileVars, venvVars,
         stepVars, histVars, Nowhere
<1>15. ASSUME PlaceNew PROVE TypeInv'
      BY <1>15, PlanFacts, ContentFacts DEF PlaceNew, fileVars, venvVars,
         stepVars, histVars, Nowhere
<1>16. ASSUME MoveLock PROVE TypeInv'
      BY <1>16, PlanFacts, ContentFacts DEF MoveLock, fileVars, venvVars,
         stepVars, histVars, Nowhere
<1>17. ASSUME WriteLock PROVE TypeInv'
      BY <1>17, PlanFacts, ContentFacts DEF WriteLock, fileVars, venvVars,
         stepVars, histVars, Nowhere
<1>18. ASSUME Committed PROVE TypeInv'
      BY <1>18, PlanFacts, ContentFacts DEF Committed, fileVars, venvVars,
         stepVars, histVars, Nowhere
<1>19. ASSUME CommitImportFails PROVE TypeInv'
  <2>1. CASE i = Len(Plan) /\ lockBack[b][LockPlan[j + 1]] # Absent
    <3>1. LockPlan[j + 1] \in Units
          BY <2>1, <1>19, PlanFacts DEF CommitImportFails
    <3>2. lock' \in Files
      <4>1. lockBack[b][LockPlan[j + 1]] \in Contents \cup {Absent}
            BY <3>1, ContentFacts
      <4>2. lock' = [lock EXCEPT ![LockPlan[j + 1]] = lockBack[b][LockPlan[j + 1]]]
            BY <2>1, <1>19 DEF CommitImportFails
      <4>3. QED
            BY <3>1, <4>1, <4>2
    <3>3. lockBack' \in [Bundles -> Files]
      <4>1. lockBack' = [lockBack EXCEPT ![b][LockPlan[j + 1]] = Absent]
            BY <2>1, <1>19 DEF CommitImportFails
      <4>2. b \in Bundles /\ Absent \in Contents \cup {Absent}
            BY ContentFacts
      <4>3. QED
            BY <3>1, <4>1, <4>2, EntryFacts
    <3>4. QED
          BY <3>2, <3>3, <1>19 DEF CommitImportFails, venvVars, stepVars, histVars
  <2>2. CASE ~(i = Len(Plan) /\ lockBack[b][LockPlan[j + 1]] # Absent)
        BY <2>2, <1>19 DEF CommitImportFails, venvVars, stepVars, histVars
  <2>3. QED
        BY <2>1, <2>2
<1>20. ASSUME UndoLock PROVE TypeInv'
      BY <1>20, PlanFacts, ContentFacts DEF UndoLock, fileVars, venvVars,
         stepVars, histVars, Nowhere
<1>21. ASSUME UndoNew PROVE TypeInv'
      BY <1>21, PlanFacts, ContentFacts DEF UndoNew, fileVars, venvVars,
         stepVars, histVars, Nowhere
<1>22. ASSUME UndoOld PROVE TypeInv'
      BY <1>22, PlanFacts, ContentFacts DEF UndoOld, fileVars, venvVars,
         stepVars, histVars, Nowhere
<1>23. ASSUME Undone PROVE TypeInv'
      BY <1>23, PlanFacts, ContentFacts DEF Undone, fileVars, venvVars,
         stepVars, histVars, Nowhere
<1>24. ASSUME UndoRaises PROVE TypeInv'
      BY <1>24, PlanFacts, ContentFacts DEF UndoRaises, fileVars, venvVars,
         stepVars, histVars, Nowhere
<1>25. ASSUME PruneBackup PROVE TypeInv'
      BY <1>25, PlanFacts, ContentFacts DEF PruneBackup, fileVars, venvVars,
         stepVars, histVars, Nowhere
<1>26. ASSUME PruneVenv PROVE TypeInv'
      BY <1>26, PlanFacts, ContentFacts DEF PruneVenv, fileVars, venvVars,
         stepVars, histVars, Nowhere
<1>27. ASSUME Ends PROVE TypeInv'
  <2>1. Nowhere \in Files
        BY DEF Nowhere
  <2>2. staged' \in [Bundles -> SUBSET Units]
        BY <1>27 DEF Ends
  <2>3. back' \in [Bundles -> Files] /\ lockBack' \in [Bundles -> Files]
    <3>1. \/ back' = back /\ lockBack' = lockBack
          \/ back' = [back EXCEPT ![b] = Nowhere] /\ lockBack' = [lockBack EXCEPT ![b] = Nowhere]
          BY <1>27 DEF Ends
    <3>2. CASE back' = back /\ lockBack' = lockBack
          BY <3>2
    <3>3. CASE /\ back' = [back EXCEPT ![b] = Nowhere]
               /\ lockBack' = [lockBack EXCEPT ![b] = Nowhere]
          BY <2>1, <3>3
    <3>4. QED
          BY <3>1, <3>2, <3>3
  <2>4. QED
        BY <2>2, <2>3, <1>27 DEF Ends, venvVars, stepVars
<1>28. ASSUME Kill PROVE TypeInv'
  <2>1. gen' \in [Attempts -> Bundles \cup {Absent, "partial"}]
        BY <1>28 DEF Kill
  <2>2. kills' \in 0 .. MaxKills
        BY <1>28 DEF Kill
  <2>3. QED
        BY <1>28, <2>1, <2>2 DEF Kill, fileVars, stepVars
<1>29. ASSUME UNCHANGED vars PROVE TypeInv'
      BY <1>29, PlanFacts, ContentFacts DEF vars, fileVars, venvVars, stepVars,
         histVars, Nowhere
<1>30. QED
      BY <1>1, <1>2, <1>3, <1>4, <1>5, <1>6, <1>7, <1>8, <1>9, <1>10, <1>11,
         <1>12, <1>13, <1>14, <1>15, <1>16, <1>17, <1>18, <1>19, <1>20, <1>21,
         <1>22, <1>23, <1>24, <1>25, <1>26, <1>27, <1>28, <1>29 DEF Next, Stage,
         Runtime, Import

\* Only the last step of an attempt gives it an outcome.
LEMMA OutcomeStep ==
    TypeInv /\ OutcomeInv /\ [Next]_vars => OutcomeInv'
<1> SUFFICES ASSUME TypeInv, OutcomeInv, [Next]_vars PROVE OutcomeInv'
      OBVIOUS
<1> USE DEF TypeInv, TypeOK, OutcomeInv
<1>1. ASSUME StageBegins PROVE OutcomeInv'
      BY <1>1 DEF StageBegins, fileVars, venvVars, stepVars, histVars
<1>2. ASSUME Extract PROVE OutcomeInv'
      BY <1>2 DEF Extract, fileVars, venvVars, stepVars, histVars
<1>3. ASSUME ExtractFails PROVE OutcomeInv'
      BY <1>3 DEF ExtractFails, fileVars, venvVars, stepVars, histVars
<1>4. ASSUME BuildRuntime PROVE OutcomeInv'
      BY <1>4 DEF BuildRuntime, fileVars, venvVars, stepVars, histVars
<1>5. ASSUME BuildFails PROVE OutcomeInv'
      BY <1>5 DEF BuildFails, fileVars, venvVars, stepVars, histVars
<1>6. ASSUME RetireGeneration PROVE OutcomeInv'
      BY <1>6 DEF RetireGeneration, fileVars, venvVars, stepVars, histVars
<1>7. ASSUME MoveRealVenv PROVE OutcomeInv'
      BY <1>7 DEF MoveRealVenv, fileVars, venvVars, stepVars, histVars
<1>8. ASSUME PointVenv PROVE OutcomeInv'
      BY <1>8 DEF PointVenv, fileVars, venvVars, stepVars, histVars
<1>9. ASSUME CommitRuntimeFails PROVE OutcomeInv'
      BY <1>9 DEF CommitRuntimeFails, fileVars, venvVars, stepVars, histVars
<1>10. ASSUME UnlinkVenv PROVE OutcomeInv'
      BY <1>10 DEF UnlinkVenv, fileVars, venvVars, stepVars, histVars
<1>11. ASSUME RelinkVenv PROVE OutcomeInv'
      BY <1>11 DEF RelinkVenv, fileVars, venvVars, stepVars, histVars
<1>12. ASSUME DropCandidate PROVE OutcomeInv'
      BY <1>12 DEF DropCandidate, fileVars, venvVars, stepVars, histVars
<1>13. ASSUME RestoreFails PROVE OutcomeInv'
      BY <1>13 DEF RestoreFails, fileVars, venvVars, stepVars, histVars
<1>14. ASSUME MoveOld PROVE OutcomeInv'
      BY <1>14 DEF MoveOld, fileVars, venvVars, stepVars, histVars
<1>15. ASSUME PlaceNew PROVE OutcomeInv'
      BY <1>15 DEF PlaceNew, fileVars, venvVars, stepVars, histVars
<1>16. ASSUME MoveLock PROVE OutcomeInv'
      BY <1>16 DEF MoveLock, fileVars, venvVars, stepVars, histVars
<1>17. ASSUME WriteLock PROVE OutcomeInv'
      BY <1>17 DEF WriteLock, fileVars, venvVars, stepVars, histVars
<1>18. ASSUME Committed PROVE OutcomeInv'
      BY <1>18 DEF Committed, fileVars, venvVars, stepVars, histVars
<1>19. ASSUME CommitImportFails PROVE OutcomeInv'
      BY <1>19 DEF CommitImportFails, fileVars, venvVars, stepVars, histVars
<1>20. ASSUME UndoLock PROVE OutcomeInv'
      BY <1>20 DEF UndoLock, fileVars, venvVars, stepVars, histVars
<1>21. ASSUME UndoNew PROVE OutcomeInv'
      BY <1>21 DEF UndoNew, fileVars, venvVars, stepVars, histVars
<1>22. ASSUME UndoOld PROVE OutcomeInv'
      BY <1>22 DEF UndoOld, fileVars, venvVars, stepVars, histVars
<1>23. ASSUME Undone PROVE OutcomeInv'
      BY <1>23 DEF Undone, fileVars, venvVars, stepVars, histVars
<1>24. ASSUME UndoRaises PROVE OutcomeInv'
      BY <1>24 DEF UndoRaises, fileVars, venvVars, stepVars, histVars
<1>25. ASSUME PruneBackup PROVE OutcomeInv'
      BY <1>25 DEF PruneBackup, fileVars, venvVars, stepVars, histVars
<1>26. ASSUME PruneVenv PROVE OutcomeInv'
      BY <1>26 DEF PruneVenv, fileVars, venvVars, stepVars, histVars
<1>27. ASSUME Ends PROVE OutcomeInv'
      BY <1>27 DEF Ends, fileVars, venvVars, stepVars, histVars
<1>28. ASSUME Kill PROVE OutcomeInv'
      BY <1>28 DEF Kill, fileVars, venvVars, stepVars, histVars
<1>29. ASSUME UNCHANGED vars PROVE OutcomeInv'
      BY <1>29 DEF vars, fileVars, venvVars, stepVars, histVars
<1>30. QED
      BY <1>1, <1>2, <1>3, <1>4, <1>5, <1>6, <1>7, <1>8, <1>9, <1>10, <1>11,
         <1>12, <1>13, <1>14, <1>15, <1>16, <1>17, <1>18, <1>19, <1>20, <1>21,
         <1>22, <1>23, <1>24, <1>25, <1>26, <1>27, <1>28, <1>29 DEF Next, Stage,
         Runtime, Import

\* The units: what is swapped is new with the old in the backup.
LEMMA UnitStep ==
    TypeInv /\ OutcomeInv /\ UnitInv /\ [Next]_vars => UnitInv'
<1> SUFFICES ASSUME TypeInv, OutcomeInv, UnitInv, [Next]_vars PROVE UnitInv'
      OBVIOUS
<1> USE DEF TypeInv, TypeOK, OutcomeInv, UnitInv, Early, Failing, Late,
   UnitFound, UnitMoved, UnitNew, UnitKept, UnitsInstalled, Swapped, Files,
   Plan, b
<1>1. ASSUME StageBegins PROVE UnitInv'
  <2>1. /\ job'.bundle \in Bundles
        /\ back' = [back EXCEPT ![job'.bundle] = Nowhere]
        /\ i' = 0 /\ pc' = "extract" /\ outcome' = "running"
        /\ before'.dest = dest /\ dest' = dest
        BY <1>1 DEF StageBegins, Installed
  <2>2. \A u \in Units : UnitFound(u)'
        BY <2>1 DEF Nowhere
  <2>3. QED
        BY <2>1, <2>2
<1>2. ASSUME Extract PROVE UnitInv'
      BY <1>2, PlanFacts, ContentFacts DEF Extract, fileVars, venvVars,
         stepVars, histVars, Nowhere
<1>3. ASSUME ExtractFails PROVE UnitInv'
      BY <1>3, PlanFacts, ContentFacts DEF ExtractFails, fileVars, venvVars,
         stepVars, histVars, Nowhere
<1>4. ASSUME BuildRuntime PROVE UnitInv'
      BY <1>4, PlanFacts, ContentFacts DEF BuildRuntime, fileVars, venvVars,
         stepVars, histVars, Nowhere
<1>5. ASSUME BuildFails PROVE UnitInv'
      BY <1>5, PlanFacts, ContentFacts DEF BuildFails, fileVars, venvVars,
         stepVars, histVars, Nowhere
<1>6. ASSUME RetireGeneration PROVE UnitInv'
      BY <1>6, PlanFacts, ContentFacts DEF RetireGeneration, fileVars, venvVars,
         stepVars, histVars, Nowhere
<1>7. ASSUME MoveRealVenv PROVE UnitInv'
      BY <1>7, PlanFacts, ContentFacts DEF MoveRealVenv, fileVars, venvVars,
         stepVars, histVars, Nowhere
<1>8. ASSUME PointVenv PROVE UnitInv'
      BY <1>8, PlanFacts, ContentFacts DEF PointVenv, fileVars, venvVars,
         stepVars, histVars, Nowhere
<1>9. ASSUME CommitRuntimeFails PROVE UnitInv'
      BY <1>9, PlanFacts, ContentFacts DEF CommitRuntimeFails, fileVars,
         venvVars, stepVars, histVars, Nowhere
<1>10. ASSUME UnlinkVenv PROVE UnitInv'
      BY <1>10, PlanFacts, ContentFacts DEF UnlinkVenv, fileVars, venvVars,
         stepVars, histVars, Nowhere
<1>11. ASSUME RelinkVenv PROVE UnitInv'
      BY <1>11, PlanFacts, ContentFacts DEF RelinkVenv, fileVars, venvVars,
         stepVars, histVars, Nowhere
<1>12. ASSUME DropCandidate PROVE UnitInv'
      BY <1>12, PlanFacts, ContentFacts DEF DropCandidate, fileVars, venvVars,
         stepVars, histVars, Nowhere
<1>13. ASSUME RestoreFails PROVE UnitInv'
      BY <1>13, PlanFacts, ContentFacts DEF RestoreFails, fileVars, venvVars,
         stepVars, histVars, Nowhere
<1>14. ASSUME MoveOld PROVE UnitInv'
  <2>0. i + 1 \in 1 .. Len(Plan) /\ \A k \in 1 .. i : k \in 1 .. Len(Plan) /\ k # i + 1
        BY <1>14 DEF MoveOld
  <2>1. PICK u \in Units : u = Plan[i + 1] /\ u \notin Swapped
        BY <2>0, PlanFacts
  <2>2. UnitMoved(u)'
    <3>1. UnitFound(u)
          BY <2>1, <1>14 DEF MoveOld
    <3>2. back' = [back EXCEPT ![b][u] = dest[u]] /\ dest' = [dest EXCEPT ![u] = Absent]
          BY <2>1, <1>14 DEF MoveOld
    <3>3. b \in Bundles /\ dest[u] \in Contents \cup {Absent}
          BY <2>1, ContentFacts
    <3>4. back'[b][u] = dest[u]
          BY <2>1, <3>2, <3>3, EntryFacts
    <3>5. job' = job /\ before' = before
          BY <1>14 DEF MoveOld, histVars
    <3>6. QED
          BY <2>1, <3>1, <3>2, <3>4, <3>5
  <2>3. ASSUME NEW v \in Units, v # u
        PROVE  dest'[v] = dest[v] /\ back'[b][v] = back[b][v]
        BY <2>1, <2>3, <1>14 DEF MoveOld
  <2>4. Swapped' = Swapped /\ i < Len(Plan) /\ UNCHANGED <<pc, job, i, before, outcome>>
        BY <1>14 DEF MoveOld, stepVars, histVars
  <2>5. QED
        BY <2>1, <2>2, <2>3, <2>4, <1>14 DEF MoveOld
<1>15. ASSUME PlaceNew PROVE UnitInv'
      BY <1>15, PlanFacts, ContentFacts DEF PlaceNew, fileVars, venvVars,
         stepVars, histVars, Nowhere
<1>16. ASSUME MoveLock PROVE UnitInv'
      BY <1>16, PlanFacts, ContentFacts DEF MoveLock, fileVars, venvVars,
         stepVars, histVars, Nowhere
<1>17. ASSUME WriteLock PROVE UnitInv'
      BY <1>17, PlanFacts, ContentFacts DEF WriteLock, fileVars, venvVars,
         stepVars, histVars, Nowhere
<1>18. ASSUME Committed PROVE UnitInv'
      BY <1>18, PlanFacts, ContentFacts DEF Committed, fileVars, venvVars,
         stepVars, histVars, Nowhere
<1>19. ASSUME CommitImportFails PROVE UnitInv'
      BY <1>19, PlanFacts, ContentFacts DEF CommitImportFails, fileVars,
         venvVars, stepVars, histVars, Nowhere
<1>20. ASSUME UndoLock PROVE UnitInv'
      BY <1>20, PlanFacts, ContentFacts DEF UndoLock, fileVars, venvVars,
         stepVars, histVars, Nowhere
<1>21. ASSUME UndoNew PROVE UnitInv'
  <2>1. PICK u \in Units : u = Plan[i] /\ u \in Swapped /\ Swapped' = Swapped \ {u}
    <3> DEFINE w == Plan[i]
    <3>1. i \in 1 .. Len(Plan) /\ i' = i - 1 /\ Plan' = Plan
          BY <1>21 DEF UndoNew
    <3>2. /\ \A k \in 1 .. i : k = i \/ k \in 1 .. i - 1
          /\ \A k \in 1 .. i - 1 : k \in 1 .. i /\ k \in 1 .. Len(Plan) /\ k # i
          BY <3>1
    <3>3. Swapped' = {Plan[k] : k \in 1 .. i - 1}
          BY <3>1
    <3>4. w \in Units /\ w \in Swapped
          BY <3>1, PlanFacts
    <3>5. Swapped' \subseteq Swapped \ {w}
          BY <3>1, <3>2, <3>3, PlanFacts
    <3>6. Swapped \ {w} \subseteq Swapped'
          BY <3>1, <3>2, <3>3
    <3> HIDE DEF Swapped
    <3>7. Swapped' = Swapped \ {w}
          BY <3>5, <3>6
    <3>8. QED
          BY <3>4, <3>7
  <2>2. UnitMoved(u)'
    <3>1. UnitNew(u)
          BY <2>1, <1>21 DEF UndoNew
    <3>2. /\ dest' = [dest EXCEPT ![u] = Absent] /\ back' = back /\ job' = job
          /\ before' = before
          BY <2>1, <1>21 DEF UndoNew, histVars
    <3>3. QED
          BY <2>1, <3>1, <3>2
  <2>3. ASSUME NEW v \in Units, v # u
        PROVE  dest'[v] = dest[v] /\ back'[b][v] = back[b][v]
        BY <2>1, <2>3, <1>21 DEF UndoNew
  <2>4. UNCHANGED <<pc, job, before, outcome>>
        BY <1>21 DEF UndoNew, histVars
  <2>5. pc = "undo"
        BY <1>21 DEF UndoNew
  <2>6. QED
    <3> HIDE DEF Swapped, Plan, b, Files
    <3>1. \A v \in Units : IF v \in Swapped' THEN UnitNew(v)' ELSE UnitFound(v)' \/ UnitMoved(v)'
      <4> SUFFICES ASSUME NEW v \in Units
                   PROVE IF v \in Swapped' THEN UnitNew(v)' ELSE UnitFound(v)' \/ UnitMoved(v)'
            OBVIOUS
      <4>1. b' = b
            BY <2>4 DEF b
      <4>2. CASE v = u
            BY <2>1, <2>2, <4>2
      <4>3. CASE v # u
            BY <2>1, <2>3, <2>4, <2>5, <4>1, <4>3
      <4>4. QED
            BY <4>2, <4>3
    <3>2. QED
          BY <2>4, <2>5, <3>1
<1>22. ASSUME UndoOld PROVE UnitInv'
      BY <1>22, PlanFacts, ContentFacts DEF UndoOld, fileVars, venvVars,
         stepVars, histVars, Nowhere
<1>23. ASSUME Undone PROVE UnitInv'
      BY <1>23, PlanFacts, ContentFacts DEF Undone, fileVars, venvVars,
         stepVars, histVars, Nowhere
<1>24. ASSUME UndoRaises PROVE UnitInv'
      BY <1>24, PlanFacts, ContentFacts DEF UndoRaises, fileVars, venvVars,
         stepVars, histVars, Nowhere
<1>25. ASSUME PruneBackup PROVE UnitInv'
      BY <1>25, PlanFacts, ContentFacts DEF PruneBackup, fileVars, venvVars,
         stepVars, histVars, Nowhere
<1>26. ASSUME PruneVenv PROVE UnitInv'
      BY <1>26, PlanFacts, ContentFacts DEF PruneVenv, fileVars, venvVars,
         stepVars, histVars, Nowhere
<1>27. ASSUME Ends PROVE UnitInv'
      BY <1>27, PlanFacts, ContentFacts DEF Ends, fileVars, venvVars, stepVars,
         histVars, Nowhere
<1>28. ASSUME Kill PROVE UnitInv'
      BY <1>28, PlanFacts, ContentFacts DEF Kill, fileVars, venvVars, stepVars,
         histVars, Nowhere
<1>29. ASSUME UNCHANGED vars PROVE UnitInv'
      BY <1>29, PlanFacts, ContentFacts DEF vars, fileVars, venvVars, stepVars,
         histVars, Nowhere
<1>30. QED
      BY <1>1, <1>2, <1>3, <1>4, <1>5, <1>6, <1>7, <1>8, <1>9, <1>10, <1>11,
         <1>12, <1>13, <1>14, <1>15, <1>16, <1>17, <1>18, <1>19, <1>20, <1>21,
         <1>22, <1>23, <1>24, <1>25, <1>26, <1>27, <1>28, <1>29 DEF Next, Stage,
         Runtime, Import

\* The pair locks, in the same way.
LEMMA LockStep ==
    TypeInv /\ OutcomeInv /\ LockInv /\ [Next]_vars => LockInv'
<1> SUFFICES ASSUME TypeInv, OutcomeInv, LockInv, [Next]_vars PROVE LockInv'
      OBVIOUS
<1> USE DEF TypeInv, TypeOK, OutcomeInv, LockInv, Early, Failing, Late,
   LockFound, LockMoved, LockNew, LockKept, LocksInstalled, Activated, Files,
   Plan, LockPlan, b
<1>1. ASSUME StageBegins PROVE LockInv'
  <2>1. /\ job'.bundle \in Bundles
        /\ lockBack' = [lockBack EXCEPT ![job'.bundle] = Nowhere]
        /\ j' = 0 /\ pc' = "extract" /\ outcome' = "running"
        /\ before'.lock = lock /\ lock' = lock
        BY <1>1 DEF StageBegins, Installed
  <2>2. \A u \in Units : LockFound(u)'
        BY <2>1 DEF Nowhere
  <2>3. QED
        BY <2>1, <2>2
<1>2. ASSUME Extract PROVE LockInv'
      BY <1>2, PlanFacts, ContentFacts DEF Extract, fileVars, venvVars,
         stepVars, histVars, Nowhere
<1>3. ASSUME ExtractFails PROVE LockInv'
      BY <1>3, PlanFacts, ContentFacts DEF ExtractFails, fileVars, venvVars,
         stepVars, histVars, Nowhere
<1>4. ASSUME BuildRuntime PROVE LockInv'
      BY <1>4, PlanFacts, ContentFacts DEF BuildRuntime, fileVars, venvVars,
         stepVars, histVars, Nowhere
<1>5. ASSUME BuildFails PROVE LockInv'
      BY <1>5, PlanFacts, ContentFacts DEF BuildFails, fileVars, venvVars,
         stepVars, histVars, Nowhere
<1>6. ASSUME RetireGeneration PROVE LockInv'
      BY <1>6, PlanFacts, ContentFacts DEF RetireGeneration, fileVars, venvVars,
         stepVars, histVars, Nowhere
<1>7. ASSUME MoveRealVenv PROVE LockInv'
      BY <1>7, PlanFacts, ContentFacts DEF MoveRealVenv, fileVars, venvVars,
         stepVars, histVars, Nowhere
<1>8. ASSUME PointVenv PROVE LockInv'
      BY <1>8, PlanFacts, ContentFacts DEF PointVenv, fileVars, venvVars,
         stepVars, histVars, Nowhere
<1>9. ASSUME CommitRuntimeFails PROVE LockInv'
      BY <1>9, PlanFacts, ContentFacts DEF CommitRuntimeFails, fileVars,
         venvVars, stepVars, histVars, Nowhere
<1>10. ASSUME UnlinkVenv PROVE LockInv'
      BY <1>10, PlanFacts, ContentFacts DEF UnlinkVenv, fileVars, venvVars,
         stepVars, histVars, Nowhere
<1>11. ASSUME RelinkVenv PROVE LockInv'
      BY <1>11, PlanFacts, ContentFacts DEF RelinkVenv, fileVars, venvVars,
         stepVars, histVars, Nowhere
<1>12. ASSUME DropCandidate PROVE LockInv'
      BY <1>12, PlanFacts, ContentFacts DEF DropCandidate, fileVars, venvVars,
         stepVars, histVars, Nowhere
<1>13. ASSUME RestoreFails PROVE LockInv'
      BY <1>13, PlanFacts, ContentFacts DEF RestoreFails, fileVars, venvVars,
         stepVars, histVars, Nowhere
<1>14. ASSUME MoveOld PROVE LockInv'
      BY <1>14, PlanFacts, ContentFacts DEF MoveOld, fileVars, venvVars,
         stepVars, histVars, Nowhere
<1>15. ASSUME PlaceNew PROVE LockInv'
      BY <1>15, PlanFacts, ContentFacts DEF PlaceNew, fileVars, venvVars,
         stepVars, histVars, Nowhere
<1>16. ASSUME MoveLock PROVE LockInv'
  <2>0. j + 1 \in 1 .. Len(LockPlan)
        /\ \A k \in 1 .. j : k \in 1 .. Len(LockPlan) /\ k # j + 1
        BY <1>16 DEF MoveLock
  <2>1. PICK u \in Units : u = LockPlan[j + 1] /\ u \notin Activated
        BY <2>0, PlanFacts
  <2>2. LockMoved(u)'
    <3>1. LockFound(u)
          BY <2>1, <1>16 DEF MoveLock
    <3>2. lockBack' = [lockBack EXCEPT ![b][u] = lock[u]] /\ lock' = [lock EXCEPT ![u] = Absent]
          BY <2>1, <1>16 DEF MoveLock
    <3>3. b \in Bundles /\ lock[u] \in Contents \cup {Absent}
          BY <2>1, ContentFacts
    <3>4. lockBack'[b][u] = lock[u]
          BY <2>1, <3>2, <3>3, EntryFacts
    <3>5. job' = job /\ before' = before
          BY <1>16 DEF MoveLock, histVars
    <3>6. QED
          BY <2>1, <3>1, <3>2, <3>4, <3>5
  <2>3. ASSUME NEW v \in Units, v # u
        PROVE  lock'[v] = lock[v] /\ lockBack'[b][v] = lockBack[b][v]
        BY <2>1, <2>3, <1>16 DEF MoveLock
  <2>4. /\ Activated' = Activated /\ UNCHANGED <<pc, job, i, j, before, outcome>>
        /\ pc = "swap" /\ i = Len(Plan) /\ j < Len(LockPlan)
        BY <1>16 DEF MoveLock, stepVars, histVars
  <2>5. QED
        BY <2>1, <2>2, <2>3, <2>4
<1>17. ASSUME WriteLock PROVE LockInv'
      BY <1>17, PlanFacts, ContentFacts DEF WriteLock, fileVars, venvVars,
         stepVars, histVars, Nowhere
<1>18. ASSUME Committed PROVE LockInv'
      BY <1>18, PlanFacts, ContentFacts DEF Committed, fileVars, venvVars,
         stepVars, histVars, Nowhere
<1>19. ASSUME CommitImportFails PROVE LockInv'
  <2>1. /\ pc' = "undo" /\ Activated' = Activated /\ UNCHANGED <<job, i, j, before, outcome>>
        /\ pc = "swap" /\ (i < Len(Plan) \/ j < Len(LockPlan))
        BY <1>19 DEF CommitImportFails, stepVars, histVars
  <2>2. CASE i = Len(Plan) /\ lockBack[b][LockPlan[j + 1]] # Absent
    <3> DEFINE u == LockPlan[j + 1]
    <3>1. u \in Units /\ u \notin Activated
          BY <2>1, <2>2, PlanFacts
    <3>2. LockFound(u)'
          BY <2>1, <2>2, <3>1, <1>19 DEF CommitImportFails
    <3>3. ASSUME NEW v \in Units, v # u
          PROVE  lock'[v] = lock[v] /\ lockBack'[b][v] = lockBack[b][v]
          BY <2>2, <3>1, <3>3, <1>19 DEF CommitImportFails
    <3>4. QED
          BY <2>1, <3>1, <3>2, <3>3
  <2>3. CASE ~(i = Len(Plan) /\ lockBack[b][LockPlan[j + 1]] # Absent)
    <3>1. UNCHANGED <<lock, lockBack>>
          BY <2>3, <1>19 DEF CommitImportFails
    <3>2. QED
          BY <2>1, <2>3, <3>1
  <2>4. QED
        BY <2>2, <2>3
<1>20. ASSUME UndoLock PROVE LockInv'
      BY <1>20, PlanFacts, ContentFacts DEF UndoLock, fileVars, venvVars,
         stepVars, histVars, Nowhere
<1>21. ASSUME UndoNew PROVE LockInv'
      BY <1>21, PlanFacts, ContentFacts DEF UndoNew, fileVars, venvVars,
         stepVars, histVars, Nowhere
<1>22. ASSUME UndoOld PROVE LockInv'
      BY <1>22, PlanFacts, ContentFacts DEF UndoOld, fileVars, venvVars,
         stepVars, histVars, Nowhere
<1>23. ASSUME Undone PROVE LockInv'
      BY <1>23, PlanFacts, ContentFacts DEF Undone, fileVars, venvVars,
         stepVars, histVars, Nowhere
<1>24. ASSUME UndoRaises PROVE LockInv'
      BY <1>24, PlanFacts, ContentFacts DEF UndoRaises, fileVars, venvVars,
         stepVars, histVars, Nowhere
<1>25. ASSUME PruneBackup PROVE LockInv'
      BY <1>25, PlanFacts, ContentFacts DEF PruneBackup, fileVars, venvVars,
         stepVars, histVars, Nowhere
<1>26. ASSUME PruneVenv PROVE LockInv'
      BY <1>26, PlanFacts, ContentFacts DEF PruneVenv, fileVars, venvVars,
         stepVars, histVars, Nowhere
<1>27. ASSUME Ends PROVE LockInv'
      BY <1>27, PlanFacts, ContentFacts DEF Ends, fileVars, venvVars, stepVars,
         histVars, Nowhere
<1>28. ASSUME Kill PROVE LockInv'
      BY <1>28, PlanFacts, ContentFacts DEF Kill, fileVars, venvVars, stepVars,
         histVars, Nowhere
<1>29. ASSUME UNCHANGED vars PROVE LockInv'
      BY <1>29, PlanFacts, ContentFacts DEF vars, fileVars, venvVars, stepVars,
         histVars, Nowhere
<1>30. QED
      BY <1>1, <1>2, <1>3, <1>4, <1>5, <1>6, <1>7, <1>8, <1>9, <1>10, <1>11,
         <1>12, <1>13, <1>14, <1>15, <1>16, <1>17, <1>18, <1>19, <1>20, <1>21,
         <1>22, <1>23, <1>24, <1>25, <1>26, <1>27, <1>28, <1>29 DEF Next, Stage,
         Runtime, Import

\* The runtime: the link leads to a whole generation.
LEMMA VenvStep ==
    TypeInv /\ OutcomeInv /\ VenvInv /\ [Next]_vars => VenvInv'
<1> SUFFICES ASSUME TypeInv, OutcomeInv, VenvInv, [Next]_vars PROVE VenvInv'
      OBVIOUS
<1> USE BundleAssumption DEF TypeInv, TypeOK, OutcomeInv, VenvInv, VenvIsWhole,
   VenvKept, OldVenv, NewVenv, Venv, Installed, Attempts, b
<1>1. ASSUME StageBegins PROVE VenvInv'
      BY <1>1, ContentFacts DEF StageBegins, fileVars, venvVars, stepVars,
         histVars
<1>2. ASSUME Extract PROVE VenvInv'
      BY <1>2, ContentFacts DEF Extract, fileVars, venvVars, stepVars, histVars
<1>3. ASSUME ExtractFails PROVE VenvInv'
      BY <1>3, ContentFacts DEF ExtractFails, fileVars, venvVars, stepVars,
         histVars
<1>4. ASSUME BuildRuntime PROVE VenvInv'
      BY <1>4, ContentFacts DEF BuildRuntime, fileVars, venvVars, stepVars,
         histVars
<1>5. ASSUME BuildFails PROVE VenvInv'
      BY <1>5, ContentFacts DEF BuildFails, fileVars, venvVars, stepVars,
         histVars
<1>6. ASSUME RetireGeneration PROVE VenvInv'
      BY <1>6, ContentFacts DEF RetireGeneration, fileVars, venvVars, stepVars,
         histVars
<1>7. ASSUME MoveRealVenv PROVE VenvInv'
      BY <1>7, ContentFacts DEF MoveRealVenv, fileVars, venvVars, stepVars,
         histVars
<1>8. ASSUME PointVenv PROVE VenvInv'
      BY <1>8, ContentFacts DEF PointVenv, fileVars, venvVars, stepVars,
         histVars
<1>9. ASSUME CommitRuntimeFails PROVE VenvInv'
      BY <1>9, ContentFacts DEF CommitRuntimeFails, fileVars, venvVars,
         stepVars, histVars
<1>10. ASSUME UnlinkVenv PROVE VenvInv'
      BY <1>10, ContentFacts DEF UnlinkVenv, fileVars, venvVars, stepVars,
         histVars
<1>11. ASSUME RelinkVenv PROVE VenvInv'
  <2>1. /\ pc = "relink" /\ pc' = "drop" /\ link = 0 /\ OldVenv /\ job.venv
        /\ UNCHANGED <<gen, moved, retired, n, kills, outcome, broken, before, job>>
        BY <1>11 DEF RelinkVenv, histVars
  <2>2. CASE retired # 0
    <3>1. /\ retired # n /\ ~moved /\ legacy # "venv"
          /\ gen[retired] \in Bundles /\ gen[retired] = before.venv
          BY <2>1, <2>2
    <3>2. link' = retired /\ legacy' = legacy
          BY <2>2, <3>1, ContentFacts, <1>11 DEF RelinkVenv
    <3>3. QED
          BY <2>1, <2>2, <3>1, <3>2
  <2>3. CASE retired = 0 /\ moved
    <3>1. legacy = "hidden" /\ before.venv = Old
          BY <2>1, <2>3
    <3>2. link' = 0 /\ legacy' = "venv"
          BY <2>1, <2>3, <3>1, <1>11 DEF RelinkVenv
    <3>3. QED
          BY <2>1, <2>3, <3>1, <3>2
  <2>4. CASE retired = 0 /\ ~moved
    <3>1. legacy # "venv" /\ before.venv = Absent
          BY <2>1, <2>4
    <3>2. link' = 0 /\ legacy' = legacy
          BY <2>1, <2>4, <3>1, <1>11 DEF RelinkVenv
    <3>3. QED
          BY <2>1, <2>4, <3>1, <3>2
  <2>5. QED
        BY <2>2, <2>3, <2>4
<1>12. ASSUME DropCandidate PROVE VenvInv'
      BY <1>12, ContentFacts DEF DropCandidate, fileVars, venvVars, stepVars,
         histVars
<1>13. ASSUME RestoreFails PROVE VenvInv'
      BY <1>13, ContentFacts DEF RestoreFails, fileVars, venvVars, stepVars,
         histVars
<1>14. ASSUME MoveOld PROVE VenvInv'
      BY <1>14, ContentFacts DEF MoveOld, fileVars, venvVars, stepVars, histVars
<1>15. ASSUME PlaceNew PROVE VenvInv'
      BY <1>15, ContentFacts DEF PlaceNew, fileVars, venvVars, stepVars,
         histVars
<1>16. ASSUME MoveLock PROVE VenvInv'
      BY <1>16, ContentFacts DEF MoveLock, fileVars, venvVars, stepVars,
         histVars
<1>17. ASSUME WriteLock PROVE VenvInv'
      BY <1>17, ContentFacts DEF WriteLock, fileVars, venvVars, stepVars,
         histVars
<1>18. ASSUME Committed PROVE VenvInv'
      BY <1>18, ContentFacts DEF Committed, fileVars, venvVars, stepVars,
         histVars
<1>19. ASSUME CommitImportFails PROVE VenvInv'
      BY <1>19, ContentFacts DEF CommitImportFails, fileVars, venvVars,
         stepVars, histVars
<1>20. ASSUME UndoLock PROVE VenvInv'
      BY <1>20, ContentFacts DEF UndoLock, fileVars, venvVars, stepVars,
         histVars
<1>21. ASSUME UndoNew PROVE VenvInv'
      BY <1>21, ContentFacts DEF UndoNew, fileVars, venvVars, stepVars, histVars
<1>22. ASSUME UndoOld PROVE VenvInv'
      BY <1>22, ContentFacts DEF UndoOld, fileVars, venvVars, stepVars, histVars
<1>23. ASSUME Undone PROVE VenvInv'
      BY <1>23, ContentFacts DEF Undone, fileVars, venvVars, stepVars, histVars
<1>24. ASSUME UndoRaises PROVE VenvInv'
      BY <1>24, ContentFacts DEF UndoRaises, fileVars, venvVars, stepVars,
         histVars
<1>25. ASSUME PruneBackup PROVE VenvInv'
      BY <1>25, ContentFacts DEF PruneBackup, fileVars, venvVars, stepVars,
         histVars
<1>26. ASSUME PruneVenv PROVE VenvInv'
      BY <1>26, ContentFacts DEF PruneVenv, fileVars, venvVars, stepVars,
         histVars
<1>27. ASSUME Ends PROVE VenvInv'
      BY <1>27, ContentFacts DEF Ends, fileVars, venvVars, stepVars, histVars
<1>28. ASSUME Kill PROVE VenvInv'
  <2>1. /\ pc # "idle" /\ pc' = "idle" /\ outcome' = "killed"
        /\ UNCHANGED <<link, legacy, moved, retired, n, broken, before, job>>
        BY <1>28 DEF Kill
  <2>2. CASE gen' = gen
        BY <2>1, <2>2, ContentFacts
  <2>3. CASE pc \in {"build", "drop"} /\ gen' = [gen EXCEPT ![n] = "partial"]
        BY <2>1, <2>3, ContentFacts
  <2>4. CASE pc = "prune_venv" /\ retired # 0 /\ gen' = [gen EXCEPT ![retired] = "partial"]
        BY <2>1, <2>4, ContentFacts
  <2>5. QED
        BY <2>2, <2>3, <2>4, <1>28 DEF Kill
<1>29. ASSUME UNCHANGED vars PROVE VenvInv'
      BY <1>29, ContentFacts DEF vars, fileVars, venvVars, stepVars, histVars
<1>30. QED
      BY <1>1, <1>2, <1>3, <1>4, <1>5, <1>6, <1>7, <1>8, <1>9, <1>10, <1>11,
         <1>12, <1>13, <1>14, <1>15, <1>16, <1>17, <1>18, <1>19, <1>20, <1>21,
         <1>22, <1>23, <1>24, <1>25, <1>26, <1>27, <1>28, <1>29 DEF Next, Stage,
         Runtime, Import

\* Together they are inductive.
LEMMA Inductive == Spec => []IInv
<1>1. IInv /\ [Next]_vars => IInv'
      BY TypeStep, OutcomeStep, UnitStep, LockStep, VenvStep DEF IInv
<1>2. QED
      BY InitInv, <1>1, PTL DEF Spec

-----------------------------------------------------------------------------
\* Every state has the declared shape.
THEOREM TypeCorrect == Spec => []TypeOK
<1>1. IInv => TypeOK
      BY DEF IInv, TypeInv
<1>2. QED
      BY Inductive, <1>1, PTL

\* An attempt that reports a failure has put back every unit, pair lock and the
\* runtime it found, unless a step of the rollback raised (commit_import,
\* restore_runtime).
THEOREM FailureAlways == Spec => []FailureRestores
<1>1. IInv => FailureRestores
  <2> SUFFICES ASSUME IInv, outcome = "failed", ~broken PROVE Installed = before
        BY DEF FailureRestores
  <2>1. dest = before.dest
        BY DEF IInv, TypeInv, TypeOK, Files, UnitInv
  <2>2. lock = before.lock
        BY DEF IInv, TypeInv, TypeOK, Files, LockInv
  <2>3. Venv = before.venv
        BY DEF IInv, OutcomeInv, VenvInv
  <2>4. QED
        BY <2>1, <2>2, <2>3 DEF Installed, IInv, TypeInv
<1>2. QED
      BY Inductive, <1>1, PTL

\* A completed attempt installed every unit of its bundle with its lock and its
\* runtime and nothing else, also over what a killed one left (install_bundle).
THEOREM SuccessAlways == Spec => []SuccessInstalls
<1>1. IInv => SuccessInstalls
      BY DEF IInv, OutcomeInv, UnitInv, UnitsInstalled, LockInv, LocksInstalled,
         VenvInv, SuccessInstalls
<1>2. QED
      BY Inductive, <1>1, PTL

\* The venv link never leads to a generation that is incomplete or gone
\* (commit_runtime, restore_runtime, the prunes of install_bundle).
THEOREM VenvAlways == Spec => []VenvIsWhole
<1>1. IInv => VenvIsWhole
      BY DEF IInv, VenvInv
<1>2. QED
      BY Inductive, <1>1, PTL

\* What was there when an attempt began is whole in place or in its backup until
\* the next one begins, over kills, too (commit_import, commit_runtime).
THEOREM CopyAlways == Spec => []CopyKept
<1>1. IInv => CopyKept
  <2> SUFFICES ASSUME IInv, job.venv \/ ~broken
               PROVE  /\ \A u \in Units : UnitKept(u) /\ LockKept(u)
                      /\ VenvKept
        BY DEF CopyKept, UnitKept, LockKept, VenvKept
  <2>1. b # Absent /\ b \in Bundles /\ Absent \notin Bundles
        BY ContentFacts DEF IInv, TypeInv
  <2>2. \A u \in Units : UnitKept(u)
        BY <2>1 DEF IInv, TypeInv, TypeOK, UnitInv, UnitKept, UnitFound, UnitMoved, UnitNew,
           UnitsInstalled, Early, Failing, Late
  <2>3. \A u \in Units : LockKept(u)
        BY <2>1 DEF IInv, TypeInv, TypeOK, LockInv, LockKept, LockFound, LockMoved, LockNew,
           LocksInstalled, Early, Failing, Late
  <2>4. VenvKept
        BY <2>1, BundleAssumption DEF IInv, TypeInv, TypeOK, OutcomeInv, VenvInv, VenvKept,
           OldVenv, NewVenv, Venv
  <2>5. QED
        BY <2>2, <2>3, <2>4
<1>2. QED
      BY Inductive, <1>1, PTL
=============================================================================
