-------------------------- MODULE CommunityProofs --------------------------
(***************************************************************************)
(* The community data service for any number of submissions, collectors,   *)
(* chunks, readers, kills and timeouts: what is published is whole, and a  *)
(* receipt has a published row behind it.  Assumed: no run lasts a week,   *)
(* and, for stripped uploads, two runs for one of them never overlap.      *)
(***************************************************************************)
EXTENDS CommunityData, TLAPS

-----------------------------------------------------------------------------
\* The inductive invariant

Steps == {"row", "touch", "insert", "reread", "missing", "put", "compare", "blob",
          "replace", "write", "withhold", "check", "verify", "publish"}
Rebuild == {"select", "results", "dataset"}

\* Which invocation works for whom, and where in its program it can be.
RoleInv ==
  /\ \A v \in Invocations :
       /\ inv[v].at \in Steps => inv[v].sub \in Subs
       /\ inv[v].at = "put" => inv[v].idx < Pieces
       /\ inv[v].op = "timer" => inv[v].sub = NoSub
  /\ \A c \in Clients : inv[c] # Idle =>
       /\ inv[c].sub = Wants[c]
       /\ inv[c].op = client[c].stage
       /\ inv[c].op \in {"initiate", "chunk", "complete"}
       /\ inv[c].at \in Steps \cup Rebuild

\* An upload in progress was refreshed by its own initiate call.
FreshInv == \A s \in Subs : InRun(s) => ~Expired(s)

\* Past the check the row is there; past the UPDATE it is published.
GoingInv ==
  /\ \A v \in Invocations : inv[v].at \in {"verify", "publish"} =>
       row[inv[v].sub].state # "absent"
  /\ \A v \in Invocations : inv[v].at \in Rebuild /\ inv[v].sub \in Subs =>
       row[inv[v].sub].state = "published"
  /\ ReceiptIsTrue

\* A report has no archive; a plain archive is never rewritten.
ReportInv ==
  \A s \in Subs : nature[s] = "report" =>
    row[s].state # "incomplete" /\ row[s].shape = "none" /\ Empty(s)

PlainInv ==
  \A s \in Subs : nature[s] = "plain" =>
    /\ row[s].state # "absent" => row[s].shape = "raw"
    /\ \A i \in Places : chunks[s][i] = "none" \/ (chunks[s][i] = "raw" /\ i < Pieces)
    /\ row[s].state = "published" => Whole(s, "raw")

\* What an invocation for an unstripped submission can be at.
PathInv ==
  \A v \in Invocations : inv[v].sub \in Subs /\ ~Stripped(inv[v].sub) =>
    /\ inv[v].at \notin {"blob", "replace", "write", "withhold"}
    /\ inv[v].at \in {"put", "verify", "publish"} => nature[inv[v].sub] = "plain"
    /\ inv[v].at = "verify" => inv[v].shape = "raw"
    /\ inv[v].at = "publish" => Whole(inv[v].sub, "raw")

\* At most one run at a time works for a stripped upload.
Active(c) == client[c].stage \in {"initiate", "chunk", "complete"}

OneRunInv ==
  \A s \in Subs : Stripped(s) =>
    /\ \A v, w \in Invocations : inv[v].sub = s /\ inv[w].sub = s => v = w
    /\ \A c \in Clients, v \in Invocations :
         Wants[c] = s /\ Active(c) /\ inv[v].sub = s => v = c
    /\ \A c, d \in Clients :
         Wants[c] = s /\ Wants[d] = s /\ Active(c) /\ Active(d) => c = d

\* Where the rewrite has got to; once published, nothing is left to change it.
RewriteInv ==
  \A s \in Subs : Stripped(s) =>
    /\ \A v \in Invocations : inv[v].sub = s =>
         /\ inv[v].at = "write" /\ row[s].state # "absent" => row[s].shape = "clean"
         /\ inv[v].at \in {"check", "verify", "publish"} /\ row[s].state # "absent" =>
              row[s].shape # "raw" \/ Empty(s)
         /\ inv[v].at \in {"verify", "publish"} =>
              inv[v].shape = row[s].shape /\ row[s].shape # "none"
         /\ inv[v].at = "publish" => Whole(s, row[s].shape)
    /\ row[s].state = "published" =>
         /\ row[s].shape = "clean" /\ Whole(s, "clean")
         /\ \A v \in Invocations : inv[v].sub = s => inv[v].at \in Rebuild
         /\ \A c \in Clients : Wants[c] = s /\ Active(c) => inv[c].sub = s

BaseInv == TypeOK /\ RoleInv /\ FreshInv /\ GoingInv /\ ReportInv /\ PlainInv /\ PathInv
IInv == BaseInv /\ OneRunInv /\ RewriteInv

-----------------------------------------------------------------------------
\* Facts used throughout

LEMMA PlaceFacts ==
  /\ Places \subseteq Nat
  /\ Count["none"] = 0 /\ Count["raw"] = Pieces /\ Count["clean"] = CleanPieces
  /\ Pieces \in Nat \ {0} /\ CleanPieces \in Nat \ {0}
  /\ \A i \in Nat : i < Pieces => i \in Places
BY BoundsAssumption DEF Places, Count

\* Two different archives are never both whole, and a whole one is not empty.
LEMMA WholeFacts ==
  ASSUME NEW s \in Subs
  PROVE  /\ Whole(s, "raw") => ~Empty(s) /\ ~Whole(s, "clean")
         /\ Empty(s) <=> Whole(s, "none")
<1>1. 0 \in Places
      BY BoundsAssumption DEF Places
<1>2. QED
      BY <1>1, PlaceFacts, BoundsAssumption DEF Whole, Empty

LEMMA Init0 == Init => IInv
<1> USE DEF Init, Idle, NoRow, Restarted, Unbuilt
<1> SUFFICES ASSUME Init PROVE IInv
    OBVIOUS
<1>1. TypeOK
  <2>1. Idle \in Invocation /\ NoRow \in Row /\ Restarted \in Collector
        BY DEF Invocation, Ops, Stages, Shapes, Row, Collector
  <2>2. Unbuilt \in [built : BOOLEAN, subs : SUBSET Subs]
        OBVIOUS
  <2>3. "none" \in Shapes
        BY DEF Shapes
  <2>4. QED
        BY <2>1, <2>2, <2>3 DEF TypeOK
<1>2. RoleInv
      BY DEF RoleInv, Steps, Invocations
<1>12. GoingInv
      BY DEF GoingInv, ReceiptIsTrue, Rebuild, Invocations
<1>3. FreshInv /\ ReportInv /\ PlainInv
      BY DEF FreshInv, Expired, ReportInv, PlainInv, Empty
<1>4. PathInv /\ OneRunInv /\ RewriteInv
      BY PartsAssumption DEF PathInv, OneRunInv, RewriteInv, Active
<1>5. QED
      BY <1>1, <1>2, <1>3, <1>4, <1>12 DEF IInv, BaseInv

\* Records with one or two fields replaced.
LEMMA RecordFacts ==
  /\ \A r \in Row : /\ \A b \in BOOLEAN : [r EXCEPT !.stale = b] \in Row
                    /\ \A x \in Shapes : [r EXCEPT !.shape = x] \in Row
  /\ \A i \in Invocation, x \in Stages :
       /\ \A n \in Nat : [i EXCEPT !.at = x, !.idx = n] \in Invocation
       /\ \A y \in Shapes : [i EXCEPT !.at = x, !.shape = y] \in Invocation
       /\ \A S \in SUBSET Subs : [i EXCEPT !.at = x, !.snap = S] \in Invocation
BY DEF Row, Invocation

\* What the ways to go on do to the invocations and the collectors.
LEMMA GotoFacts ==
  ASSUME TypeOK, NEW v \in Invocations, NEW x \in Stages, Goto(v, x)
  PROVE  /\ inv' \in [Invocations -> Invocation]
         /\ \A w \in Invocations : w # v => inv'[w] = inv[w]
         /\ inv'[v].at = x
         /\ inv'[v].sub = inv[v].sub /\ inv'[v].op = inv[v].op
         /\ inv'[v].idx = inv[v].idx /\ inv'[v].shape = inv[v].shape
BY DEF TypeOK, Goto, Invocation

LEMMA AnswerFacts ==
  ASSUME TypeOK, NEW v \in Invocations, NEW state \in Collector, Answer(v, state)
  PROVE  /\ inv' \in [Invocations -> Invocation]
         /\ \A w \in Invocations : w # v => inv'[w] = inv[w]
         /\ inv'[v] = Idle
         /\ client' \in [Clients -> Collector]
         /\ \A c \in Clients : client'[c] = IF c = v THEN state ELSE client[c]
<1>1. Idle \in Invocation
      BY DEF Idle, Invocation, Stages, Ops, Shapes
<1>2. QED
      BY <1>1 DEF TypeOK, Answer

LEMMA CollectorFacts ==
  /\ Restarted \in Collector /\ Finished \in Collector
  /\ Restarted.stage = "probe" /\ Finished.stage = "done"
  /\ \A todo \in SUBSET Places : /\ Uploading(todo) \in Collector
                                 /\ Uploading(todo).todo = todo
                                 /\ Uploading(todo).stage \in {"chunk", "complete"}
BY DEF Restarted, Finished, Uploading, Collector

LEMMA RefuseFacts ==
  ASSUME TypeOK, NEW v \in Invocations, Refuse(v)
  PROVE  /\ inv' \in [Invocations -> Invocation]
         /\ \A w \in Invocations : w # v => inv'[w] = inv[w]
         /\ inv'[v] = Idle
         /\ client' \in [Clients -> Collector]
         /\ \A c \in Clients : client'[c] = IF c = v THEN Restarted ELSE client[c]
BY CollectorFacts, AnswerFacts DEF Refuse

-----------------------------------------------------------------------------
\* Every state has the declared shape

LEMMA TypeStep == TypeOK /\ RoleInv /\ [Next]_vars => TypeOK'
<1> SUFFICES ASSUME TypeOK, RoleInv, [Next]_vars PROVE TypeOK'
    OBVIOUS
<1> USE DEF dbVars, faultVars
<1>1. ASSUME NEW c \in Clients, Probe(c) PROVE TypeOK'
      BY <1>1, CollectorFacts DEF Probe, TypeOK, Collector
<1>2. ASSUME NEW c \in Clients, Send(c) PROVE TypeOK'
  <2>1. PICK i \in NextPiece(c) :
          inv' = [inv EXCEPT ![c] = [Idle EXCEPT !.op = client[c].stage, !.sub = Wants[c],
                                                !.at = "row", !.idx = i]]
        BY <1>2 DEF Send
  <2>2. i \in Nat
        BY PlaceFacts DEF NextPiece, TypeOK, Collector
  <2>3. [Idle EXCEPT !.op = client[c].stage, !.sub = Wants[c], !.at = "row", !.idx = i]
          \in Invocation
        BY <1>2, <2>2, PartsAssumption DEF Send, Idle, Invocation, Ops, Stages, Shapes
  <2>4. QED
        BY <1>2, <2>1, <2>3 DEF Send, TypeOK
<1>3. ASSUME NEW c \in Clients, NEW o \in Orphans, GiveUp(c, o) PROVE TypeOK'
  <2>1. Idle \in Invocation
        BY DEF Idle, Invocation, Stages, Ops, Shapes
  <2>2. c \in Invocations /\ o \in Invocations
        BY DEF Invocations
  <2>3. QED
        BY <1>3, <2>1, <2>2, CollectorFacts DEF GiveUp, TypeOK
<1>4. ASSUME NEW v \in Invocations, Kill(v) PROVE TypeOK'
      BY <1>4, RefuseFacts DEF Kill, TypeOK
<1>5. ASSUME NEW v \in Invocations, Serve(v) PROVE TypeOK'
  <2>1. CASE InitiateLook(v) \/ Reread(v)
    <3>1. UNCHANGED <<nature, dbVars, faultVars>>
          BY <2>1 DEF InitiateLook, Reread
    <3>2. Answer(v, Finished) \/ Refuse(v) \/ (UNCHANGED client /\ \E x \in Stages : Goto(v, x))
          BY <2>1 DEF InitiateLook, Reread, Stages
    <3>3. QED
          BY <3>1, <3>2, CollectorFacts, AnswerFacts, RefuseFacts, GotoFacts DEF TypeOK
  <2>2. CASE Touch(v) \/ Insert(v)
    <3>1. \E x \in Stages : Goto(v, x)
          BY <2>2 DEF Touch, Insert, Stages
    <3>2. CASE Touch(v)
          BY <3>1, <3>2, GotoFacts, RecordFacts DEF Touch, TypeOK
    <3>3. CASE Insert(v)
      <4>1. \A s \in Subs : [state |-> IF nature[s] = "report" THEN "published" ELSE "incomplete",
                            shape |-> Declared(s), stale |-> FALSE] \in Row
            BY DEF Row, Declared, Shapes
      <4>2. QED
            BY <3>1, <3>3, <4>1, GotoFacts DEF Insert, TypeOK
    <3>4. QED
          BY <2>2, <3>2, <3>3
  <2>3. CASE Missing(v)
        BY <2>3, CollectorFacts, AnswerFacts DEF Missing, TypeOK, Collector
  <2>4. CASE ChunkLook(v) \/ PutChunk(v) \/ Compare(v)
    <3>1. (Refuse(v) /\ UNCHANGED chunks) \/ (UNCHANGED client /\ \E x \in Stages : Goto(v, x))
          BY <2>4 DEF ChunkLook, PutChunk, Compare, Stages
    <3>2. chunks' \in [Subs -> [Places -> Shapes]]
          BY <2>4 DEF ChunkLook, PutChunk, Compare, TypeOK, Shapes
    <3>3. QED
          BY <2>4, <3>1, <3>2, RefuseFacts, GotoFacts DEF ChunkLook, PutChunk, Compare, TypeOK
  <2>5. CASE CompleteLook(v) \/ ReadBlob(v) \/ Verify(v)
    <3>1. UNCHANGED <<nature, dbVars, faultVars>>
          BY <2>5 DEF CompleteLook, ReadBlob, Verify
    <3>2. Refuse(v) \/ (UNCHANGED client /\ \E x \in Stages : Goto(v, x))
          BY <2>5 DEF CompleteLook, ReadBlob, Verify, Stages
    <3>3. QED
          BY <3>1, <3>2, RefuseFacts, GotoFacts DEF TypeOK
  <2>6. CASE Check(v)
    <3>1. ASSUME inv' = [inv EXCEPT ![v].at = "verify", ![v].shape = row[inv[v].sub].shape],
                 UNCHANGED client
          PROVE  TypeOK'
      <4>1. row[inv[v].sub].shape \in Shapes
            BY <2>6 DEF Check, RoleInv, Steps, TypeOK, Row, At
      <4>2. inv' \in [Invocations -> Invocation]
            BY <3>1, <4>1, RecordFacts DEF TypeOK, Stages
      <4>3. QED
            BY <2>6, <3>1, <4>2 DEF Check, TypeOK
    <3>2. QED
          BY <2>6, <3>1, RefuseFacts, GotoFacts DEF Check, TypeOK, Stages
  <2>7. CASE Replace(v) \/ WriteClean(v) \/ Withhold(v)
    <3>1. inv' \in [Invocations -> Invocation]
      <4>1. inv[v] \in Invocation /\ inv[v].idx \in Nat
            BY DEF TypeOK, Invocation
      <4>2. CASE Withhold(v)
            BY <4>2, GotoFacts DEF Withhold, Stages
      <4>3. CASE Replace(v)
            BY <4>1, <4>3, RecordFacts DEF Replace, TypeOK, Stages
      <4>4. CASE WriteClean(v) /\ Goto(v, "check")
            BY <4>4, GotoFacts DEF Stages
      <4>5. CASE WriteClean(v) /\ inv' = [inv EXCEPT ![v].idx = inv[v].idx + 1]
        <5>1. inv[v].idx + 1 \in Nat
              BY <4>1
        <5>2. [inv[v] EXCEPT !.idx = inv[v].idx + 1] \in Invocation
              BY <4>1, <5>1 DEF Invocation
        <5>3. QED
              BY <4>5, <5>2 DEF TypeOK
      <4>6. QED
            BY <2>7, <4>2, <4>3, <4>4, <4>5 DEF WriteClean, Goto
    <3>2. ASSUME NEW s \in Subs, NEW x \in {"none", "clean"}, DropArchive(s, x)
          PROVE  row' \in [Subs -> Row] /\ chunks' \in [Subs -> [Places -> Shapes]]
      <4>1. x \in Shapes
            BY <3>2 DEF Shapes
      <4>2. [i \in Places |-> "none"] \in [Places -> Shapes]
            BY DEF Shapes
      <4>3. QED
            BY <3>2, <4>1, <4>2, RecordFacts DEF DropArchive, TypeOK
    <3>3. inv[v].sub \in Subs
          BY <2>7 DEF Replace, WriteClean, Withhold, At, RoleInv, Steps
    <3>5. CASE WriteClean(v)
      <4>1. chunks' \in [Subs -> [Places -> Shapes]]
            BY <3>3, <3>5 DEF WriteClean, TypeOK, Shapes
      <4>2. QED
            BY <3>1, <3>5, <4>1 DEF WriteClean, TypeOK
    <3>4. QED
          BY <2>7, <3>1, <3>2, <3>3, <3>5 DEF Replace, Withhold, TypeOK
  <2>8. CASE Publish(v)
    <3>1. inv' \in [Invocations -> Invocation]
          BY <2>8, GotoFacts DEF Publish, Stages
    <3>2. row' \in [Subs -> Row]
      <4>1. inv[v].sub \in Subs
            BY <2>8 DEF Publish, At, RoleInv, Steps
      <4>2. [row[inv[v].sub] EXCEPT !.state = "published"] \in Row
            BY <4>1 DEF TypeOK, Row
      <4>3. QED
            BY <2>8, <4>1, <4>2 DEF Publish, TypeOK
    <3>3. QED
          BY <2>8, <3>1, <3>2 DEF Publish, TypeOK
  <2>9. CASE SelectPublished(v) \/ SaveResults(v) \/ SaveDataset(v)
    <3>1. CASE SelectPublished(v)
      <4>1. inv' \in [Invocations -> Invocation]
            BY <3>1, RecordFacts DEF SelectPublished, TypeOK, Stages
      <4>2. QED
            BY <3>1, <4>1 DEF SelectPublished, TypeOK
    <3>2. ASSUME NEW key \in Keys, SaveCache(v, key)
          PROVE  index' \in [Keys -> [built : BOOLEAN, subs : SUBSET Subs]]
          BY <3>2 DEF SaveCache, TypeOK, Invocation
    <3>3. CASE SaveResults(v)
          BY <3>2, <3>3, GotoFacts DEF SaveResults, TypeOK, Stages, Keys
    <3>4. CASE SaveDataset(v)
          BY <3>2, <3>4, GotoFacts, AnswerFacts, CollectorFacts DEF SaveDataset, TypeOK, Stages, Keys
    <3>5. QED
          BY <2>9, <3>1, <3>3, <3>4
  <2>10. QED
        BY <1>5, <2>1, <2>2, <2>3, <2>4, <2>5, <2>6, <2>7, <2>8, <2>9 DEF Serve
<1>6. ASSUME NEW v \in Readers, BulkRead(v) PROVE TypeOK'
      BY <1>6 DEF BulkRead, Idle, Invocations, TypeOK, Invocation, Stages, Ops, Shapes
<1>7. ASSUME Cron PROVE TypeOK'
  <2>1. Timer \in Invocations
        BY DEF Invocations
  <2>2. Idle \in Invocation /\ NoRow \in Row /\ "none" \in Shapes
        BY DEF Idle, NoRow, Invocation, Stages, Ops, Shapes, Row
  <2>3. CASE Tick
        BY <2>1, <2>3 DEF Tick, TypeOK, Invocation, Idle, Stages, Ops, Shapes
  <2>4. CASE GcChunks
        BY <2>1, <2>2, <2>4, GotoFacts DEF GcChunks, TypeOK, Stages
  <2>5. CASE GcRows
        BY <2>1, <2>2, <2>5 DEF GcRows, TypeOK
  <2>6. QED
        BY <1>7, <2>3, <2>4, <2>5 DEF Cron
<1>8. ASSUME NEW s \in Subs, Age(s) PROVE TypeOK'
      BY <1>8 DEF Age, TypeOK, Row
<1>9. CASE UNCHANGED vars
      BY <1>9 DEF vars, TypeOK
<1>10. QED
      BY <1>1, <1>2, <1>3, <1>4, <1>5, <1>6, <1>7, <1>8, <1>9 DEF Next, Run

-----------------------------------------------------------------------------
\* Steps of one invocation: it moves on, or it ends and its collector reads on

Moves(v, x) ==
  /\ \A w \in Invocations : w # v => inv'[w] = inv[w]
  /\ inv'[v].at = x /\ inv'[v].sub = inv[v].sub /\ inv'[v].op = inv[v].op
  /\ inv'[v] # Idle
  /\ UNCHANGED client

Ends(v, state) ==
  /\ \A w \in Invocations : w # v => inv'[w] = inv[w]
  /\ inv'[v] = Idle
  /\ \A c \in Clients : client'[c] = IF c = v THEN state ELSE client[c]

LEMMA GotoMoves ==
  ASSUME TypeOK, NEW v \in Invocations, NEW x \in Stages \ {"none"}, Goto(v, x),
         UNCHANGED client
  PROVE  Moves(v, x) /\ inv'[v].idx = inv[v].idx /\ inv'[v].shape = inv[v].shape
BY GotoFacts DEF Moves, Idle

LEMMA AnswerEnds ==
  ASSUME TypeOK, NEW v \in Invocations, NEW state \in Collector, Answer(v, state)
  PROVE  Ends(v, state)
BY AnswerFacts DEF Ends

LEMMA RefuseEnds ==
  ASSUME TypeOK, NEW v \in Invocations, Refuse(v)
  PROVE  Ends(v, Restarted)
BY RefuseFacts DEF Ends

LEMMA ReplaceMoves ==
  ASSUME TypeOK, NEW v \in Invocations, Replace(v)
  PROVE  Moves(v, "write")
BY DEF Replace, TypeOK, Invocation, Moves, Idle

LEMMA WriteMoves ==
  ASSUME TypeOK, NEW v \in Invocations, WriteClean(v)
  PROVE  Moves(v, "write") \/ Moves(v, "check")
BY DEF WriteClean, At, TypeOK, Invocation, Moves, Idle

LEMMA CheckMoves ==
  ASSUME TypeOK, NEW v \in Invocations, NEW x \in Shapes, UNCHANGED client,
         inv' = [inv EXCEPT ![v].at = "verify", ![v].shape = x]
  PROVE  Moves(v, "verify") /\ inv'[v].shape = x
BY DEF TypeOK, Invocation, Moves, Idle

LEMMA SelectMoves ==
  ASSUME TypeOK, NEW v \in Invocations, SelectPublished(v)
  PROVE  Moves(v, "results")
BY DEF SelectPublished, TypeOK, Invocation, Moves, Idle

-----------------------------------------------------------------------------
\* Which invocation works for whom

LEMMA MovesRole ==
  ASSUME RoleInv, NEW v \in Invocations, NEW x \in Steps \cup Rebuild, Moves(v, x),
         inv[v] # Idle, x \in Steps => inv[v].sub \in Subs,
         x = "put" => inv'[v].idx < Pieces
  PROVE  RoleInv'
<1>1. ASSUME NEW w \in Invocations
      PROVE  /\ inv'[w].at \in Steps => inv'[w].sub \in Subs
             /\ inv'[w].at = "put" => inv'[w].idx < Pieces
             /\ inv'[w].op = "timer" => inv'[w].sub = NoSub
      BY DEF RoleInv, Moves
<1>2. ASSUME NEW c \in Clients, inv'[c] # Idle
      PROVE  /\ inv'[c].sub = Wants[c] /\ inv'[c].op = client'[c].stage
             /\ inv'[c].op \in {"initiate", "chunk", "complete"}
             /\ inv'[c].at \in Steps \cup Rebuild
      BY <1>2 DEF RoleInv, Moves, Invocations
<1>3. QED
      BY <1>1, <1>2 DEF RoleInv

LEMMA EndsRole ==
  ASSUME RoleInv, NEW v \in Invocations, NEW state, Ends(v, state)
  PROVE  RoleInv'
<1>1. ASSUME NEW w \in Invocations
      PROVE  /\ inv'[w].at \in Steps => inv'[w].sub \in Subs
             /\ inv'[w].at = "put" => inv'[w].idx < Pieces
             /\ inv'[w].op = "timer" => inv'[w].sub = NoSub
      BY DEF RoleInv, Ends, Idle, Steps
<1>2. ASSUME NEW c \in Clients, inv'[c] # Idle
      PROVE  /\ inv'[c].sub = Wants[c] /\ inv'[c].op = client'[c].stage
             /\ inv'[c].op \in {"initiate", "chunk", "complete"}
             /\ inv'[c].at \in Steps \cup Rebuild
      BY <1>2 DEF RoleInv, Ends, Invocations
<1>3. QED
      BY <1>1, <1>2 DEF RoleInv

LEMMA RoleStep == TypeOK /\ RoleInv /\ [Next]_vars => RoleInv'
<1> SUFFICES ASSUME TypeOK, RoleInv, [Next]_vars PROVE RoleInv'
    OBVIOUS
<1>1. ASSUME NEW c \in Clients, Probe(c) PROVE RoleInv'
  <2>1. \A d \in Clients : inv[d] # Idle => client'[d] = client[d]
        BY <1>1 DEF Probe, TypeOK
  <2>2. QED
        BY <1>1, <2>1 DEF Probe, RoleInv
<1>2. ASSUME NEW c \in Clients, Send(c) PROVE RoleInv'
  <2>1. /\ inv'[c].sub = Wants[c] /\ inv'[c].op = client[c].stage /\ inv'[c].at = "row"
        /\ \A w \in Invocations : w # c => inv'[w] = inv[w]
        BY <1>2 DEF Send, TypeOK, Invocations, Idle
  <2>2. c \in Invocations /\ Wants[c] \in Subs /\ "row" \in Steps
        BY PartsAssumption DEF Invocations, Steps
  <2>3. ASSUME NEW w \in Invocations
        PROVE  /\ inv'[w].at \in Steps => inv'[w].sub \in Subs
               /\ inv'[w].at = "put" => inv'[w].idx < Pieces
               /\ inv'[w].op = "timer" => inv'[w].sub = NoSub
    <3>1. inv'[c].op # "timer" /\ inv'[c].at # "put"
          BY <1>2, <2>1 DEF Send
    <3>2. QED
          BY <2>1, <2>2, <3>1 DEF RoleInv
  <2>4. ASSUME NEW d \in Clients, inv'[d] # Idle
        PROVE  /\ inv'[d].sub = Wants[d] /\ inv'[d].op = client'[d].stage
               /\ inv'[d].op \in {"initiate", "chunk", "complete"}
               /\ inv'[d].at \in Steps \cup Rebuild
        BY <1>2, <2>1, <2>2, <2>4 DEF RoleInv, Send, Invocations
  <2>5. QED
        BY <2>3, <2>4 DEF RoleInv
<1>3. ASSUME NEW c \in Clients, NEW o \in Orphans, GiveUp(c, o) PROVE RoleInv'
  <2>1. /\ inv'[c] = Idle /\ inv'[o] = inv[c] /\ c # o /\ c \in Invocations
        /\ \A w \in Invocations : w # c /\ w # o => inv'[w] = inv[w]
        BY <1>3, PartsAssumption DEF GiveUp, TypeOK, Invocations
  <2>2. \A d \in Clients : d # o /\ (d # c => client'[d] = client[d])
        BY <1>3, PartsAssumption DEF GiveUp, TypeOK
  <2>3. Idle.at \notin Steps /\ Idle.op # "timer"
        BY DEF Idle, Steps
  <2>4. ASSUME NEW w \in Invocations
        PROVE  /\ inv'[w].at \in Steps => inv'[w].sub \in Subs
               /\ inv'[w].at = "put" => inv'[w].idx < Pieces
               /\ inv'[w].op = "timer" => inv'[w].sub = NoSub
        BY <2>1, <2>3 DEF RoleInv, Steps
  <2>5. QED
        BY <2>1, <2>2, <2>4 DEF RoleInv, Invocations
<1>4. ASSUME NEW v \in Invocations, Kill(v) PROVE RoleInv'
      BY <1>4, RefuseEnds, EndsRole DEF Kill
<1>5. ASSUME NEW v \in Invocations, Serve(v) PROVE RoleInv'
  <2> USE DEF At, Steps, Rebuild, Stages
  <2>0. /\ inv[v].at \in Steps => inv[v].sub \in Subs
        /\ inv[v].at # "none" => inv[v] # Idle
        BY DEF RoleInv, Idle
  <2>1. CASE InitiateLook(v)
        BY <2>0, <2>1, GotoMoves, AnswerEnds, RefuseEnds, MovesRole, EndsRole, CollectorFacts
           DEF InitiateLook
  <2>2. CASE Touch(v) \/ Insert(v)
        BY <2>0, <2>2, GotoMoves, MovesRole DEF Touch, Insert
  <2>3. CASE Reread(v)
        BY <2>0, <2>3, GotoMoves, RefuseEnds, MovesRole, EndsRole DEF Reread
  <2>4. CASE Missing(v)
    <3>1. \E state \in Collector : Answer(v, state)
          BY <2>4, CollectorFacts DEF Missing, TypeOK, Collector
    <3>2. QED
          BY <3>1, AnswerEnds, EndsRole
  <2>5. CASE ChunkLook(v) \/ PutChunk(v) \/ Compare(v)
    <3>1. CASE ChunkLook(v) /\ Goto(v, "put")
      <4>1. row[inv[v].sub].shape = "raw" /\ inv[v].idx < Count["raw"] /\ UNCHANGED client
            BY <3>1, RefuseEnds, GotoFacts DEF ChunkLook, Ends, Idle
      <4>2. QED
            BY <2>0, <3>1, <4>1, PlaceFacts, GotoMoves, MovesRole DEF ChunkLook
    <3>2. CASE Refuse(v)
          BY <3>2, RefuseEnds, EndsRole
    <3>3. CASE (PutChunk(v) \/ Compare(v)) /\ ~Refuse(v)
      <4>1. Goto(v, "missing") \/ Goto(v, "compare")
            BY <3>3 DEF PutChunk, Compare
      <4>2. UNCHANGED client /\ inv[v].at \in {"put", "compare"}
            BY <3>3 DEF PutChunk, Compare
      <4>3. QED
            BY <2>0, <4>1, <4>2, GotoMoves, MovesRole
    <3>4. QED
          BY <2>5, <3>1, <3>2, <3>3 DEF ChunkLook
  <2>6. CASE CompleteLook(v) \/ ReadBlob(v) \/ Withhold(v)
        BY <2>0, <2>6, GotoMoves, MovesRole DEF CompleteLook, ReadBlob, Withhold
  <2>7. CASE Replace(v) \/ WriteClean(v)
    <3>1. Moves(v, "write") \/ Moves(v, "check")
          BY <2>7, <2>0, ReplaceMoves, WriteMoves
    <3>2. QED
          BY <2>7, <2>0, <3>1, MovesRole DEF Replace, WriteClean
  <2>8. CASE Check(v) \/ Verify(v)
    <3>1. \/ Ends(v, Restarted) \/ Moves(v, "select") \/ Moves(v, "verify") \/ Moves(v, "publish")
      <4>1. row[inv[v].sub].shape \in Shapes
            BY <2>0, <2>8 DEF Check, Verify, TypeOK, Row
      <4>2. CASE Check(v)
            BY <4>1, <4>2, RefuseEnds, GotoMoves, CheckMoves DEF Check
      <4>3. CASE Verify(v)
            BY <4>3, RefuseEnds, GotoMoves DEF Verify
      <4>4. QED
            BY <2>8, <4>2, <4>3
    <3>2. QED
          BY <2>8, <2>0, <3>1, MovesRole, EndsRole DEF Check, Verify
  <2>9. CASE Publish(v)
        BY <2>0, <2>9, GotoMoves, MovesRole DEF Publish
  <2>10. CASE SelectPublished(v) \/ SaveResults(v) \/ SaveDataset(v)
    <3>1. CASE SelectPublished(v)
          BY <2>0, <3>1, SelectMoves, MovesRole DEF SelectPublished
    <3>2. CASE SaveResults(v)
          BY <2>0, <3>2, GotoMoves, MovesRole DEF SaveResults
    <3>3. CASE SaveDataset(v) /\ Answer(v, Finished)
          BY <3>3, CollectorFacts, AnswerEnds, EndsRole
    <3>4. CASE SaveDataset(v) /\ inv[v].op = "timer" /\ Goto(v, "gcChunks") /\ UNCHANGED client
      <4>1. Moves(v, "gcChunks")
            BY <3>4, GotoMoves
      <4>2. v \notin Clients
            BY <2>0, <3>4 DEF RoleInv, SaveDataset
      <4>3. QED
            BY <4>1, <4>2 DEF RoleInv, Moves, Invocations
    <3>5. QED
          BY <2>10, <3>1, <3>2, <3>3, <3>4 DEF SaveDataset
  <2>11. QED
        BY <1>5, <2>1, <2>2, <2>3, <2>4, <2>5, <2>6, <2>7, <2>8, <2>9, <2>10 DEF Serve
<1>6. ASSUME NEW v \in Readers, BulkRead(v) PROVE RoleInv'
  <2>1. /\ inv'[v].at = "select" /\ v \notin Clients
        /\ \A w \in Invocations : w # v => inv'[w] = inv[w]
        BY <1>6, PartsAssumption DEF BulkRead, TypeOK, Idle, Invocations
  <2>2. inv'[v].op = "bulk" /\ v \in Invocations
        BY <1>6 DEF BulkRead, TypeOK, Idle, Invocations
  <2>3. QED
        BY <1>6, <2>1, <2>2 DEF BulkRead, RoleInv, Steps, Invocations
<1>7. ASSUME Cron PROVE RoleInv'
  <2>1. /\ inv'[Timer].at \notin Steps /\ Timer \notin Clients
        /\ inv'[Timer].op = "timer" => inv'[Timer].sub = NoSub
        /\ \A w \in Invocations : w # Timer => inv'[w] = inv[w]
    <3>1. Timer \in Invocations
          BY DEF Invocations
    <3>2. CASE Tick \/ GcRows
      <4>1. Timer \notin Clients
            BY PartsAssumption
      <4>2. /\ [Idle EXCEPT !.op = "timer", !.at = "select"].at \notin Steps
            /\ [Idle EXCEPT !.op = "timer", !.at = "select"].sub = NoSub
            /\ Idle.at \notin Steps /\ Idle.sub = NoSub
            BY DEF Idle, Steps
      <4>3. QED
            BY <3>1, <3>2, <4>1, <4>2 DEF Tick, GcRows, TypeOK
    <3>3. CASE GcChunks
          BY <3>1, <3>3, PartsAssumption, GotoFacts DEF GcChunks, RoleInv, Steps, Stages
    <3>4. QED
          BY <1>7, <3>2, <3>3 DEF Cron
  <2>2. UNCHANGED client
        BY <1>7 DEF Cron, Tick, GcChunks, GcRows
  <2>3. QED
        BY <2>1, <2>2 DEF RoleInv, Steps, Invocations
<1>8. ASSUME NEW s \in Subs, Age(s) PROVE RoleInv'
      BY <1>8 DEF Age, RoleInv
<1>9. CASE UNCHANGED vars
      BY <1>9 DEF vars, RoleInv
<1>10. QED
      BY <1>1, <1>2, <1>3, <1>4, <1>5, <1>6, <1>7, <1>8, <1>9 DEF Next, Run

-----------------------------------------------------------------------------
\* What a step of an invocation leaves alone

\* No row is removed, withdrawn or aged; other submissions are untouched.
Frame(v) ==
  /\ nature' = nature
  /\ \A s \in Subs :
       /\ s # inv[v].sub => row'[s] = row[s] /\ chunks'[s] = chunks[s]
       /\ row[s].state # "absent" => row'[s].state # "absent"
       /\ row[s].state = "published" => row'[s].state = "published"
       /\ Expired(s)' => Expired(s)

LEMMA RowFrame ==
  ASSUME TypeOK, RoleInv, NEW v \in Invocations, Serve(v)
  PROVE  Frame(v)
<1> USE DEF dbVars
<1>1. CASE InitiateLook(v) \/ Reread(v) \/ Missing(v) \/ ChunkLook(v) \/ Compare(v)
            \/ CompleteLook(v) \/ ReadBlob(v) \/ Check(v) \/ Verify(v)
            \/ SelectPublished(v) \/ SaveResults(v) \/ SaveDataset(v)
  <2>1. UNCHANGED <<nature, row, chunks>>
        BY <1>1 DEF InitiateLook, Reread, Missing, ChunkLook, Compare, CompleteLook, ReadBlob,
                    Check, Verify, SelectPublished, SaveResults, SaveDataset
  <2>2. QED
        BY <2>1 DEF Frame, Expired
<1>2. CASE PutChunk(v) \/ WriteClean(v)
  <2>1. UNCHANGED <<nature, row>> /\ inv[v].sub \in Subs
        BY <1>2 DEF PutChunk, WriteClean, RoleInv, Steps, At
  <2>2. \A s \in Subs : s # inv[v].sub => chunks'[s] = chunks[s]
        BY <1>2, <2>1 DEF PutChunk, WriteClean, TypeOK
  <2>3. QED
        BY <2>1, <2>2 DEF Frame, Expired
<1>3. CASE Touch(v) \/ Insert(v) \/ Publish(v)
  <2>1. UNCHANGED <<nature, chunks>> /\ inv[v].sub \in Subs
        BY <1>3 DEF Touch, Insert, Publish, RoleInv, Steps, At
  <2>2. QED
        BY <1>3, <2>1 DEF Touch, Insert, Publish, TypeOK, Row, Frame, Expired
<1>4. CASE Replace(v) \/ Withhold(v)
  <2>1. UNCHANGED nature /\ inv[v].sub \in Subs
        BY <1>4 DEF Replace, Withhold, RoleInv, Steps, At
  <2>2. QED
    <3>1. PICK x \in Shapes : DropArchive(inv[v].sub, x)
          BY <1>4 DEF Replace, Withhold, Shapes
    <3>2. \A s \in Subs : /\ s # inv[v].sub => row'[s] = row[s] /\ chunks'[s] = chunks[s]
                          /\ row'[s].state = row[s].state /\ row'[s].stale = row[s].stale
          BY <2>1, <3>1 DEF DropArchive, TypeOK, Row
    <3>3. QED
          BY <2>1, <3>2 DEF Frame, Expired
<1>5. QED
      BY <1>1, <1>2, <1>3, <1>4 DEF Serve

\* The invocation moves on within its program, or ends.
LEMMA ServeMoves ==
  ASSUME TypeOK, RoleInv, NEW v \in Invocations, Serve(v)
  PROVE  /\ inv[v] # Idle
         /\ \/ \E x \in Stages : Moves(v, x)
            \/ \E state \in Collector : Ends(v, state)
<1> USE DEF At
<1>0. inv[v].at # "none" => inv[v] # Idle
      BY DEF Idle
<1>1. CASE InitiateLook(v) \/ Reread(v) \/ CompleteLook(v) \/ ReadBlob(v) \/ Touch(v)
            \/ Insert(v) \/ Publish(v) \/ Withhold(v) \/ Verify(v)
            \/ SaveResults(v) \/ SaveDataset(v) \/ ChunkLook(v) \/ PutChunk(v) \/ Compare(v)
  <2>1. /\ inv[v].at # "none"
        /\ \/ \E x \in Stages \ {"none"} : Goto(v, x) /\ UNCHANGED client
           \/ Answer(v, Finished) \/ Refuse(v)
        BY <1>1 DEF InitiateLook, Reread, CompleteLook, ReadBlob, Touch, Insert, Publish, Withhold,
                    Verify, SaveResults, SaveDataset, ChunkLook, PutChunk, Compare, Stages
  <2>2. QED
        BY <1>0, <2>1, GotoMoves, AnswerEnds, RefuseEnds, CollectorFacts
<1>2. CASE Missing(v)
  <2>1. inv[v].at # "none" /\ \E state \in Collector : Answer(v, state)
        BY <1>2, CollectorFacts DEF Missing, TypeOK, Collector
  <2>2. QED
        BY <1>0, <2>1, AnswerEnds
<1>3. CASE Replace(v) \/ WriteClean(v) \/ SelectPublished(v)
      BY <1>0, <1>3, ReplaceMoves, WriteMoves, SelectMoves
         DEF Replace, WriteClean, SelectPublished, Stages
<1>4. CASE Check(v)
  <2>1. inv[v].sub \in Subs /\ inv[v].at # "none"
        BY <1>4 DEF Check, RoleInv, Steps
  <2>2. row[inv[v].sub].shape \in Shapes
        BY <2>1 DEF TypeOK, Row
  <2>3. QED
        BY <1>0, <1>4, <2>1, <2>2, RefuseEnds, GotoMoves, CheckMoves, CollectorFacts DEF Check, Stages
<1>5. QED
      BY <1>1, <1>2, <1>3, <1>4 DEF Serve

-----------------------------------------------------------------------------
\* An upload in progress is not collected

LEMMA FreshStep ==
  ASSUME ~SlowRuns, TypeOK, RoleInv, FreshInv, [Next]_vars
  PROVE  FreshInv'
<1> SUFFICES ASSUME NEW s \in Subs, Expired(s)', InRun(s)' PROVE FALSE
    BY DEF FreshInv
<1> USE DEF dbVars
<1>0. NoSub \notin Subs
      BY PartsAssumption
<1>1. ASSUME Expired(s), InRun(s) PROVE FALSE
      BY <1>1 DEF FreshInv
<1>2. ASSUME NEW c \in Clients, Probe(c) PROVE FALSE
  <2>1. /\ UNCHANGED <<row, inv>> /\ client'[c].stage \in {"done", "initiate"}
        /\ \A d \in Clients : d # c => client'[d] = client[d]
        BY <1>2 DEF Probe, TypeOK, Finished
  <2>2. QED
        BY <1>1, <2>1 DEF InRun, Expired
<1>3. ASSUME NEW c \in Clients, Send(c) PROVE FALSE
  <2>1. /\ inv'[c].sub = Wants[c] /\ inv'[c].op = client[c].stage /\ inv'[c].at = "row"
        /\ \A w \in Invocations : w # c => inv'[w] = inv[w]
        /\ UNCHANGED <<row, client>>
        BY <1>3 DEF Send, TypeOK, Invocations, Idle
  <2>2. QED
        BY <1>1, <2>1 DEF InRun, Expired
<1>4. ASSUME NEW c \in Clients, NEW o \in Orphans, GiveUp(c, o) PROVE FALSE
  <2>1. /\ inv'[c] = Idle /\ inv'[o] = inv[c] /\ c \in Invocations /\ UNCHANGED row
        /\ \A w \in Invocations : w # c /\ w # o => inv'[w] = inv[w]
        /\ \A d \in Clients : client'[d] = client[d] \/ client'[d].stage = "probe"
        BY <1>4, PartsAssumption DEF GiveUp, TypeOK, Invocations, Restarted
  <2>2. QED
        BY <1>0, <1>1, <2>1 DEF InRun, Expired, Idle
<1>5. ASSUME NEW v \in Invocations, Kill(v) PROVE FALSE
  <2>1. Ends(v, Restarted) /\ UNCHANGED row
        BY <1>5, RefuseEnds DEF Kill
  <2>2. QED
        BY <1>0, <1>1, <2>1, CollectorFacts DEF InRun, Expired, Idle, Ends
<1>6. ASSUME NEW v \in Invocations, Serve(v) PROVE FALSE
  <2>1. Expired(s) /\ ~InRun(s)
        BY <1>1, <1>6, RowFrame DEF Frame
  <2>2. inv[v] # Idle /\ ((\E x \in Stages : Moves(v, x)) \/ \E r \in Collector : Ends(v, r))
        BY <1>6, ServeMoves
  <2>3. CASE inv[v].sub # s
    <3>1. v \in Clients => Wants[v] # s
          BY <2>2, <2>3 DEF RoleInv
    <3>2. QED
          BY <1>0, <2>1, <2>2, <2>3, <3>1 DEF InRun, Moves, Ends, Idle
  <2>4. CASE inv[v].sub = s
    <3>1. At(v, "row") \/ At(v, "touch")
          BY <2>1, <2>4 DEF InRun, At
    <3>2. inv[v].op \notin {"chunk", "complete"}
          BY <2>1, <2>4 DEF InRun
    <3>3. InitiateLook(v) \/ Touch(v)
          BY <1>6, <3>1, <3>2 DEF Serve, Reread, Insert, Missing, ChunkLook, PutChunk, Compare,
             CompleteLook, ReadBlob, Replace, WriteClean, Withhold, Check, Verify, Publish,
             SelectPublished, SaveResults, SaveDataset, At
    <3>4. CASE Touch(v)
          BY <1>6, <2>1, <2>4, <3>4 DEF Touch, Expired, TypeOK, Row
    <3>5. CASE InitiateLook(v)
      <4>1. Ends(v, Restarted) \/ Moves(v, "touch")
            BY <2>1, <2>4, <3>5, RefuseEnds, GotoMoves DEF InitiateLook, Expired, Stages
      <4>2. QED
            BY <1>0, <2>1, <2>4, <3>2, <4>1, CollectorFacts DEF InRun, Moves, Ends, Idle
    <3>6. QED
          BY <3>3, <3>4, <3>5
  <2>5. QED
        BY <2>3, <2>4
<1>7. ASSUME NEW v \in Readers, BulkRead(v) PROVE FALSE
  <2>1. /\ inv'[v].sub = NoSub /\ UNCHANGED <<row, client>>
        /\ \A w \in Invocations : w # v => inv'[w] = inv[w]
        BY <1>7 DEF BulkRead, TypeOK, Idle, Invocations
  <2>2. QED
        BY <1>0, <1>1, <2>1 DEF InRun, Expired
<1>8. ASSUME Cron PROVE FALSE
  <2>1. /\ UNCHANGED client /\ (Expired(s)' => Expired(s))
        BY <1>8 DEF Cron, Tick, GcChunks, GcRows, Expired, NoRow
  <2>2. Timer \in Invocations
        BY DEF Invocations
  <2>3. CASE Tick \/ GcRows
    <3>1. inv'[Timer].sub = NoSub /\ \A w \in Invocations : w # Timer => inv'[w] = inv[w]
      <4>1. [Idle EXCEPT !.op = "timer", !.at = "select"].sub = NoSub /\ Idle.sub = NoSub
            BY DEF Idle
      <4>2. QED
            BY <2>2, <2>3, <4>1 DEF Tick, GcRows, TypeOK
    <3>2. QED
          BY <1>0, <1>1, <2>1, <3>1 DEF InRun
  <2>4. CASE GcChunks
    <3>1. /\ inv[Timer].at = "gcChunks" /\ inv'[Timer].sub = inv[Timer].sub
          /\ \A w \in Invocations : w # Timer => inv'[w] = inv[w]
          BY <2>2, <2>4, GotoFacts DEF GcChunks, At, Stages
    <3>2. QED
          BY <1>1, <2>1, <2>2, <3>1 DEF InRun
  <2>5. QED
        BY <1>8, <2>3, <2>4 DEF Cron
<1>9. ASSUME NEW r \in Subs, Age(r) PROVE FALSE
  <2>1. UNCHANGED <<inv, client>> /\ InRun(s) /\ ~InRun(r)
        BY <1>9 DEF Age, InRun
  <2>2. row'[s] = row[s]
        BY <1>9, <2>1 DEF Age, TypeOK
  <2>3. QED
        BY <1>1, <2>1, <2>2 DEF Expired
<1>10. CASE UNCHANGED vars
      BY <1>1, <1>10 DEF vars, InRun, Expired
<1>11. QED
      BY <1>2, <1>3, <1>4, <1>5, <1>6, <1>7, <1>8, <1>9, <1>10 DEF Next, Run

-----------------------------------------------------------------------------
\* A receipt has a published row behind it

LEMMA GoingStep ==
  ASSUME ~SlowRuns, TypeOK, RoleInv, FreshInv, GoingInv, [Next]_vars
  PROVE  GoingInv'
<1> USE DEF dbVars
<1>0. NoSub \notin Subs /\ Wants \in [Clients -> Subs]
      BY PartsAssumption
<1>1. ASSUME \A s \in Subs : /\ row[s].state # "absent" => row'[s].state # "absent"
                             /\ row[s].state = "published" => row'[s].state = "published",
             \A w \in Invocations : \/ \E v \in Invocations : inv'[w] = inv[v]
                                    \/ inv'[w].sub = NoSub /\ inv'[w].at \in {"none", "select"}
                                    \/ inv'[w].at = "row",
             \A c \in Clients : /\ client'[c].stage = "done" =>
                                     client[c].stage = "done" \/ row'[Wants[c]].state = "published"
      PROVE  GoingInv'
  <2>1. ASSUME NEW w \in Invocations
        PROVE  /\ inv'[w].at \in {"verify", "publish"} => row'[inv'[w].sub].state # "absent"
               /\ inv'[w].at \in Rebuild /\ inv'[w].sub \in Subs =>
                    row'[inv'[w].sub].state = "published"
    <3>1. CASE \/ inv'[w].sub = NoSub /\ inv'[w].at \in {"none", "select"}
               \/ inv'[w].at = "row"
          BY <1>0, <3>1 DEF Rebuild
    <3>2. ASSUME NEW v \in Invocations, inv'[w] = inv[v]
          PROVE  /\ inv'[w].at \in {"verify", "publish"} => row'[inv'[w].sub].state # "absent"
                 /\ inv'[w].at \in Rebuild /\ inv'[w].sub \in Subs =>
                      row'[inv'[w].sub].state = "published"
      <4>1. inv[v].at \in {"verify", "publish"} => inv[v].sub \in Subs
            BY DEF RoleInv, Steps
      <4>2. \A s \in Subs : /\ row[s].state # "absent" => row'[s].state # "absent"
                            /\ row[s].state = "published" => row'[s].state = "published"
            BY <1>1
      <4>3. QED
            BY <3>2, <4>1, <4>2 DEF GoingInv
    <3>3. QED
          BY <1>1, <3>1, <3>2
  <2>2. ReceiptIsTrue'
    <3>1. ASSUME NEW c \in Clients, client'[c].stage = "done"
          PROVE  row'[Wants[c]].state = "published"
      <4>1. client[c].stage = "done" \/ row'[Wants[c]].state = "published"
            BY <1>1, <3>1
      <4>2. row[Wants[c]].state = "published" => row'[Wants[c]].state = "published"
            BY <1>0, <1>1
      <4>3. QED
            BY <4>1, <4>2 DEF GoingInv, ReceiptIsTrue
    <3>2. QED
          BY <3>1 DEF ReceiptIsTrue
  <2>3. QED
        BY <2>1, <2>2 DEF GoingInv, Rebuild
<1>2. ASSUME NEW c \in Clients, Probe(c) PROVE GoingInv'
      BY <1>1, <1>2, <1>0 DEF Probe, TypeOK
<1>3. ASSUME NEW c \in Clients, Send(c) PROVE GoingInv'
      BY <1>1, <1>3, <1>0 DEF Send, TypeOK, Idle
<1>4. ASSUME NEW c \in Clients, NEW o \in Orphans, GiveUp(c, o) PROVE GoingInv'
  <2>1. /\ inv'[c] = Idle /\ inv'[o] = inv[c] /\ c \in Invocations /\ UNCHANGED row
        /\ \A w \in Invocations : w # c /\ w # o => inv'[w] = inv[w]
        /\ \A d \in Clients : client'[d] = client[d] \/ client'[d].stage = "probe"
        BY <1>4, PartsAssumption DEF GiveUp, TypeOK, Invocations, Restarted
  <2>2. QED
        BY <1>1, <2>1 DEF Idle
<1>5. ASSUME NEW v \in Invocations, Kill(v) PROVE GoingInv'
  <2>1. Ends(v, Restarted) /\ UNCHANGED row
        BY <1>5, RefuseEnds DEF Kill
  <2>2. QED
        BY <1>1, <2>1, CollectorFacts DEF Ends, Idle
<1>6. ASSUME NEW v \in Invocations, Serve(v) PROVE GoingInv'
  <2>1. Frame(v)
        BY <1>6, RowFrame
  <2>2. inv[v] # Idle /\ ((\E x \in Stages : Moves(v, x)) \/ \E r \in Collector : Ends(v, r))
        BY <1>6, ServeMoves
  <2>3. /\ inv'[v].at \in {"verify", "publish"} => row'[inv'[v].sub].state # "absent"
        /\ inv'[v].at \in Rebuild /\ inv'[v].sub \in Subs => row'[inv'[v].sub].state = "published"
        /\ v \in Clients /\ client'[v].stage = "done" =>
             client[v].stage = "done" \/ row'[Wants[v]].state = "published"
    <3> DEFINE s == inv[v].sub
    <3>0. /\ inv[v].at \in Steps => s \in Subs
          /\ v \in Clients => s = Wants[v] /\ s \in Subs
          BY <1>0, <2>2 DEF RoleInv
    <3>1. CASE InitiateLook(v)
          BY <3>0, <3>1, CollectorFacts, AnswerEnds, RefuseEnds, GotoMoves
             DEF InitiateLook, Moves, Ends, Idle, Stages, At, Steps, Rebuild
    <3>2. CASE Touch(v) \/ Insert(v) \/ CompleteLook(v) \/ ReadBlob(v) \/ Withhold(v)
            \/ PutChunk(v) \/ Replace(v) \/ WriteClean(v)
      <4>1. inv'[v].at \notin {"verify", "publish"} \cup Rebuild /\ UNCHANGED client
        <5>1. CASE Replace(v) \/ WriteClean(v)
              BY <5>1, ReplaceMoves, WriteMoves DEF Moves, Rebuild
        <5>2. CASE ~(Replace(v) \/ WriteClean(v))
              BY <3>2, <5>2, GotoMoves DEF Touch, Insert, CompleteLook, ReadBlob, Withhold,
                 PutChunk, Moves, Rebuild, Stages
        <5>3. QED
              BY <5>1, <5>2
      <4>2. QED
            BY <4>1
    <3>3. CASE Reread(v) \/ ChunkLook(v) \/ Compare(v) \/ Verify(v)
      <4>1. row' = row
            BY <3>3 DEF Reread, ChunkLook, Compare, Verify
      <4>2. \/ Ends(v, Restarted)
            \/ Moves(v, "missing") \/ Moves(v, "put")
            \/ Moves(v, "select") /\ row[s].state = "published"
            \/ Moves(v, "publish") /\ inv[v].at = "verify"
            BY <3>3, RefuseEnds, GotoMoves DEF Reread, ChunkLook, Compare, Verify, Stages, At
      <4>3. QED
            BY <3>0, <4>1, <4>2, CollectorFacts
               DEF Moves, Ends, Idle, Rebuild, GoingInv
    <3>4. CASE Missing(v)
      <4>1. \E todo \in SUBSET Places : Ends(v, Uploading(todo))
            BY <3>4, AnswerEnds, CollectorFacts DEF Missing, TypeOK, Collector
      <4>2. QED
            BY <4>1, CollectorFacts DEF Ends, Idle, Rebuild
    <3>5. CASE Check(v)
      <4>1. row' = row /\ row[s].shape \in Shapes
            BY <3>0, <3>5 DEF Check, At, Steps, TypeOK, Row
      <4>2. \/ Ends(v, Restarted)
            \/ Moves(v, "select") /\ row[s].state = "published"
            \/ Moves(v, "verify") /\ row[s].state = "incomplete"
            BY <3>5, <4>1, RefuseEnds, GotoMoves, CheckMoves DEF Check, Stages
      <4>3. QED
            BY <3>0, <4>1, <4>2, CollectorFacts DEF Moves, Ends, Idle, Rebuild
    <3>6. CASE Publish(v)
      <4>1. inv[v].at = "publish" /\ s \in Subs /\ Moves(v, "select")
            BY <3>0, <3>6, GotoMoves DEF Publish, At, Steps, Stages
      <4>2. row'[s].state = "published"
            BY <3>6, <4>1 DEF Publish, GoingInv, TypeOK, Row
      <4>3. QED
            BY <4>1, <4>2 DEF Moves
    <3>7. CASE SelectPublished(v) \/ SaveResults(v)
      <4>1. row' = row /\ inv[v].at \in Rebuild
            BY <3>7 DEF SelectPublished, SaveResults, At, Rebuild
      <4>2. Moves(v, "results") \/ Moves(v, "dataset")
            BY <3>7, SelectMoves, GotoMoves DEF SaveResults, Stages
      <4>3. QED
            BY <4>1, <4>2 DEF Moves, GoingInv
    <3>8. CASE SaveDataset(v)
      <4>1. row' = row /\ inv[v].at \in Rebuild
            BY <3>8 DEF SaveDataset, At, Rebuild
      <4>2. Moves(v, "gcChunks") \/ Ends(v, Finished)
            BY <3>8, GotoMoves, AnswerEnds, CollectorFacts DEF SaveDataset, Stages
      <4>3. QED
            BY <3>0, <4>1, <4>2 DEF Moves, Ends, Idle, Rebuild, GoingInv
    <3>9. QED
          BY <1>6, <3>1, <3>2, <3>3, <3>4, <3>5, <3>6, <3>7, <3>8 DEF Serve
  <2>4. \A w \in Invocations, s \in Subs : w # v /\ inv[w].sub = s =>
          /\ inv'[w].at \in {"verify", "publish"} => row'[s].state # "absent"
          /\ inv'[w].at \in Rebuild => row'[s].state = "published"
        BY <2>1, <2>2 DEF GoingInv, Moves, Ends, Frame
  <2>5. \A w \in Invocations : w # v => inv'[w] = inv[w]
        BY <2>2 DEF Moves, Ends
  <2>6. \A w \in Invocations : inv[w].at \in {"verify", "publish"} => inv[w].sub \in Subs
        BY DEF RoleInv, Steps
  <2>7. ASSUME NEW w \in Invocations
        PROVE  /\ inv'[w].at \in {"verify", "publish"} => row'[inv'[w].sub].state # "absent"
               /\ inv'[w].at \in Rebuild /\ inv'[w].sub \in Subs =>
                    row'[inv'[w].sub].state = "published"
        BY <2>3, <2>4, <2>5, <2>6
  <2>8. ReceiptIsTrue'
        BY <1>0, <2>1, <2>2, <2>3 DEF GoingInv, ReceiptIsTrue, Moves, Ends, Frame, Invocations
  <2>9. QED
        BY <2>7, <2>8 DEF GoingInv, Rebuild
<1>7. ASSUME NEW v \in Readers, BulkRead(v) PROVE GoingInv'
      BY <1>1, <1>7 DEF BulkRead, TypeOK, Idle, Invocations
<1>8. ASSUME Cron PROVE GoingInv'
  <2>1. Timer \in Invocations /\ UNCHANGED client
        BY <1>8 DEF Cron, Tick, GcChunks, GcRows, Invocations
  <2>2. CASE Tick
        BY <1>1, <2>1, <2>2 DEF Tick, TypeOK, Idle
  <2>3. CASE GcChunks
    <3>1. /\ inv'[Timer].at = "gcRows" /\ inv'[Timer].sub = inv[Timer].sub
          /\ \A w \in Invocations : w # Timer => inv'[w] = inv[w]
          BY <2>1, <2>3, GotoFacts DEF GcChunks, Stages
    <3>2. QED
          BY <2>1, <2>3, <3>1 DEF GcChunks, GoingInv, ReceiptIsTrue, Rebuild
  <2>4. CASE GcRows
    <3>1. \A w \in Invocations : inv'[w] = inv[w] \/ inv'[w] = Idle
          BY <2>1, <2>4 DEF GcRows, TypeOK
    <3>2. ASSUME NEW w \in Invocations, inv'[w].at \in {"verify", "publish"}
          PROVE  row'[inv'[w].sub].state # "absent"
      <4>1. inv'[w] = inv[w] /\ inv[w].sub \in Subs
            BY <3>1, <3>2 DEF Idle, RoleInv, Steps
      <4>2. ~Expired(inv[w].sub)
            BY <3>2, <4>1 DEF FreshInv, InRun
      <4>3. QED
            BY <2>4, <3>2, <4>1, <4>2 DEF GcRows, GoingInv
    <3>3. \A s \in Subs : row[s].state = "published" => row'[s].state = "published"
          BY <2>4 DEF GcRows, Expired
    <3>4. \A w \in Invocations : inv'[w].at \in Rebuild /\ inv'[w].sub \in Subs =>
            row'[inv'[w].sub].state = "published"
          BY <3>1, <3>3 DEF Idle, GoingInv, Rebuild
    <3>5. ReceiptIsTrue'
          BY <1>0, <2>1, <3>3 DEF GoingInv, ReceiptIsTrue
    <3>6. QED
          BY <3>2, <3>4, <3>5 DEF GoingInv
  <2>5. QED
        BY <1>8, <2>2, <2>3, <2>4 DEF Cron
<1>9. ASSUME NEW r \in Subs, Age(r) PROVE GoingInv'
      BY <1>1, <1>9 DEF Age, TypeOK, Row
<1>10. CASE UNCHANGED vars
      BY <1>1, <1>10 DEF vars
<1>11. QED
      BY <1>2, <1>3, <1>4, <1>5, <1>6, <1>7, <1>8, <1>9, <1>10 DEF Next, Run

-----------------------------------------------------------------------------
\* Reports and plain uploads: whatever overlaps

\* What a step does to a submission that is never rewritten.
Kept(s) == /\ row'[s].state = row[s].state /\ row'[s].shape = row[s].shape
           /\ chunks'[s] = chunks[s]
Stored(s) == \E i \in Places :
               /\ nature[s] = "plain" /\ i < Pieces /\ chunks[s][i] = "none"
               /\ row'[s] = row[s] /\ chunks'[s] = [chunks[s] EXCEPT ![i] = "raw"]
Made(s) == /\ row[s].state = "absent" /\ chunks'[s] = chunks[s]
           /\ row'[s].state = IF nature[s] = "report" THEN "published" ELSE "incomplete"
           /\ row'[s].shape = Declared(s)
Posted(s) == /\ nature[s] = "plain" /\ Whole(s, "raw") /\ chunks'[s] = chunks[s]
             /\ row[s].state # "absent"
             /\ row'[s].shape = row[s].shape /\ row'[s].state = "published"
Emptied(s) == Expired(s) /\ row'[s] = row[s] /\ chunks'[s] = [i \in Places |-> "none"]
Removed(s) == Expired(s) /\ row'[s] = NoRow /\ chunks'[s] = chunks[s]

Change(s) == Kept(s) \/ Stored(s) \/ Made(s) \/ Posted(s) \/ Emptied(s) \/ Removed(s)

LEMMA ServeChange ==
  ASSUME TypeOK, RoleInv, GoingInv, PathInv, NEW v \in Invocations, Serve(v),
         NEW s \in Subs, ~Stripped(s)
  PROVE  Change(s)
<1> USE DEF dbVars
<1>1. CASE s # inv[v].sub
      BY <1>1, RowFrame DEF Frame, Change, Kept
<1>2. CASE s = inv[v].sub
  <2>1. inv[v].at \notin {"blob", "replace", "write", "withhold"}
        BY <1>2 DEF PathInv
  <2>2. CASE InitiateLook(v) \/ Reread(v) \/ Missing(v) \/ ChunkLook(v) \/ Compare(v)
              \/ CompleteLook(v) \/ Check(v) \/ Verify(v)
              \/ SelectPublished(v) \/ SaveResults(v) \/ SaveDataset(v)
    <3>1. UNCHANGED <<row, chunks>>
          BY <2>2 DEF InitiateLook, Reread, Missing, ChunkLook, Compare, CompleteLook,
                      Check, Verify, SelectPublished, SaveResults, SaveDataset
    <3>2. QED
          BY <3>1 DEF Change, Kept
  <2>3. CASE Touch(v)
        BY <1>2, <2>3 DEF Touch, TypeOK, Row, Change, Kept
  <2>4. CASE Insert(v)
        BY <1>2, <2>4 DEF Insert, TypeOK, Change, Kept, Made
  <2>5. CASE PutChunk(v)
    <3>1. nature[s] = "plain" /\ inv[v].idx < Pieces /\ inv[v].idx \in Places
          BY <1>2, <2>5, PlaceFacts DEF PutChunk, At, PathInv, RoleInv, TypeOK, Invocation
    <3>2. QED
          BY <1>2, <2>5, <3>1 DEF PutChunk, TypeOK, Change, Kept, Stored
  <2>6. CASE Publish(v)
    <3>1. nature[s] = "plain" /\ Whole(s, "raw") /\ row[s].state # "absent"
          BY <1>2, <2>6 DEF Publish, At, PathInv, GoingInv
    <3>2. QED
          BY <1>2, <2>6, <3>1 DEF Publish, TypeOK, Row, Change, Posted
  <2>7. QED
        BY <2>1, <2>2, <2>3, <2>4, <2>5, <2>6
           DEF Serve, ReadBlob, Replace, WriteClean, Withhold, At
<1>3. QED
      BY <1>1, <1>2

LEMMA NatureStep == [Next]_vars => nature' = nature
BY DEF Next, vars, Run, Probe, Send, GiveUp, Kill, Serve, InitiateLook, Touch, Insert, Reread,
   Missing, ChunkLook, PutChunk, Compare, CompleteLook, ReadBlob, Replace, WriteClean, Withhold,
   Check, Verify, Publish, SelectPublished, SaveResults, SaveDataset, BulkRead, Cron, Tick,
   GcChunks, GcRows, Age

LEMMA StepChange ==
  ASSUME TypeOK, RoleInv, GoingInv, PathInv, [Next]_vars, NEW s \in Subs, ~Stripped(s)
  PROVE  Change(s)
<1> USE DEF dbVars, faultVars
<1>1. ASSUME NEW c \in Clients, Probe(c) \/ Send(c) PROVE Change(s)
      BY <1>1 DEF Probe, Send, Change, Kept
<1>2. ASSUME NEW c \in Clients, NEW o \in Orphans, GiveUp(c, o)
      PROVE  Change(s)
      BY <1>2 DEF GiveUp, Change, Kept
<1>3. ASSUME NEW v \in Invocations, Kill(v) PROVE Change(s)
      BY <1>3 DEF Kill, Change, Kept
<1>4. ASSUME NEW v \in Invocations, Serve(v) PROVE Change(s)
      BY <1>4, ServeChange
<1>5. ASSUME NEW v \in Readers, BulkRead(v) PROVE Change(s)
      BY <1>5 DEF BulkRead, Change, Kept
<1>6. ASSUME Cron PROVE Change(s)
      BY <1>6 DEF Cron, Tick, GcChunks, GcRows, Change, Kept, Emptied, Removed
<1>7. ASSUME NEW r \in Subs, Age(r) PROVE Change(s)
      BY <1>7 DEF Age, TypeOK, Row, Change, Kept
<1>8. CASE UNCHANGED vars
      BY <1>8 DEF vars, Change, Kept
<1>9. QED
      BY <1>1, <1>2, <1>3, <1>4, <1>5, <1>6, <1>7, <1>8 DEF Next, Run

\* A whole raw archive stays whole while its upload is not collected.
LEMMA StaysWhole ==
  ASSUME TypeOK, NEW s \in Subs, Change(s), ~Expired(s), Whole(s, "raw")
  PROVE  Whole(s, "raw")'
<1>1. \A i \in Places : chunks'[s][i] = chunks[s][i]
      BY PlaceFacts DEF Change, Kept, Stored, Made, Posted, Emptied, Removed, Whole, Count, TypeOK
<1>2. QED
      BY <1>1 DEF Whole, Count, Places

LEMMA ReportStep ==
  ASSUME TypeOK, RoleInv, GoingInv, PathInv, ReportInv, [Next]_vars
  PROVE  ReportInv'
<1> SUFFICES ASSUME NEW s \in Subs, nature'[s] = "report"
             PROVE  row'[s].state # "incomplete" /\ row'[s].shape = "none" /\ Empty(s)'
    BY DEF ReportInv
<1>1. nature[s] = "report" /\ Change(s)
      BY NatureStep, StepChange DEF Stripped
<1>2. row[s].state # "incomplete" /\ row[s].shape = "none" /\ Empty(s)
      BY <1>1 DEF ReportInv
<1>3. QED
      BY <1>1, <1>2 DEF Change, Kept, Stored, Made, Posted, Emptied, Removed, Expired,
         Declared, Empty

LEMMA PlainStep ==
  ASSUME TypeOK, RoleInv, GoingInv, PathInv, PlainInv, [Next]_vars
  PROVE  PlainInv'
<1> SUFFICES ASSUME NEW s \in Subs, nature'[s] = "plain"
             PROVE  /\ row'[s].state # "absent" => row'[s].shape = "raw"
                    /\ \A i \in Places : \/ chunks'[s][i] = "none"
                                         \/ chunks'[s][i] = "raw" /\ i < Pieces
                    /\ row'[s].state = "published" => Whole(s, "raw")'
    BY DEF PlainInv
<1>1. nature[s] = "plain" /\ Change(s)
      BY NatureStep, StepChange DEF Stripped
<1>2. /\ row[s].state # "absent" => row[s].shape = "raw"
      /\ \A i \in Places : chunks[s][i] = "none" \/ (chunks[s][i] = "raw" /\ i < Pieces)
      /\ row[s].state = "published" => Whole(s, "raw")
      BY <1>1 DEF PlainInv
<1>3. CASE Kept(s)
  <2>1. Whole(s, "raw")' <=> Whole(s, "raw")
        BY <1>3 DEF Kept, Whole, Count
  <2>2. QED
        BY <1>2, <1>3, <2>1 DEF Kept
<1>4. CASE Stored(s)
  <2>1. row[s].state # "published"
        BY <1>2, <1>4, PlaceFacts DEF Stored, Whole
  <2>2. QED
        BY <1>2, <1>4, <2>1 DEF Stored, TypeOK
<1>5. CASE Made(s)
      BY <1>1, <1>2, <1>5 DEF Made, Declared
<1>6. CASE Posted(s)
      BY <1>1, <1>2, <1>6 DEF Posted, Whole, Count
<1>7. CASE Emptied(s) \/ Removed(s)
      BY <1>1, <1>2, <1>7 DEF Emptied, Removed, Expired, NoRow
<1>8. QED
      BY <1>1, <1>3, <1>4, <1>5, <1>6, <1>7 DEF Change

\* Where an invocation for an unstripped upload goes next.
LEMMA ServePath ==
  ASSUME TypeOK, RoleInv, ReportInv, PlainInv, PathInv, NEW v \in Invocations, Serve(v),
         NEW s \in Subs, inv'[v].sub = s, ~Stripped(s)
  PROVE  /\ inv[v].sub = s
         /\ inv'[v].at \notin {"blob", "replace", "write", "withhold"}
         /\ inv'[v].at \in {"put", "verify", "publish"} => nature[s] = "plain"
         /\ inv'[v].at = "verify" => inv'[v].shape = "raw"
         /\ inv'[v].at = "publish" => Whole(s, "raw") /\ inv[v].at = "verify"
<1> USE DEF At
<1>0. Idle.sub \notin Subs
      BY PartsAssumption DEF Idle
<1>1. (\E x \in Stages : Moves(v, x)) /\ inv[v].sub = s
      BY <1>0, ServeMoves DEF Moves, Ends
<1>2. ~Ends(v, Restarted) /\ ~Ends(v, Finished)
      BY <1>0 DEF Ends
<1>3. inv[v].at \notin {"blob", "replace", "write", "withhold"}
      BY <1>1 DEF PathInv
<1>4. row[s].state = "incomplete" => nature[s] = "plain" /\ row[s].shape = "raw"
      BY DEF ReportInv, PlainInv, Stripped, TypeOK, Natures
<1>5. CASE ChunkLook(v)
  <2>1. row[s].state = "incomplete" /\ Goto(v, "put") /\ UNCHANGED client
        BY <1>1, <1>2, <1>5, RefuseEnds DEF ChunkLook
  <2>2. QED
        BY <1>1, <1>4, <2>1, GotoMoves DEF Moves, Stages
<1>6. CASE Check(v)
  <2>1. row[s].shape \in Shapes
        BY DEF TypeOK, Row
  <2>2. \/ Goto(v, "select") /\ UNCHANGED client
        \/ /\ row[s].state = "incomplete" /\ UNCHANGED client
           /\ inv' = [inv EXCEPT ![v].at = "verify", ![v].shape = row[s].shape]
        BY <1>1, <1>2, <1>6, RefuseEnds DEF Check
  <2>3. QED
        BY <1>1, <1>4, <2>1, <2>2, GotoMoves, CheckMoves DEF Moves, Stages
<1>7. CASE Verify(v)
  <2>1. Whole(s, inv[v].shape) /\ Goto(v, "publish") /\ UNCHANGED client
        BY <1>1, <1>2, <1>7, RefuseEnds DEF Verify
  <2>2. inv[v].shape = "raw" /\ nature[s] = "plain"
        BY <1>1, <1>7 DEF Verify, PathInv
  <2>3. QED
        BY <1>1, <1>7, <2>1, <2>2, GotoMoves DEF Moves, Stages, Verify
<1>8. CASE \/ InitiateLook(v) \/ Touch(v) \/ Insert(v) \/ Reread(v) \/ PutChunk(v) \/ Compare(v)
           \/ CompleteLook(v) \/ Publish(v) \/ SaveResults(v) \/ SaveDataset(v)
  <2>1. \E x \in {"touch", "insert", "missing", "reread", "select", "compare", "check",
                  "dataset", "gcChunks"} : Goto(v, x) /\ UNCHANGED client
        BY <1>1, <1>2, <1>8, RefuseEnds, AnswerEnds, CollectorFacts
           DEF InitiateLook, Touch, Insert, Reread, PutChunk, Compare, CompleteLook, Publish,
               SaveResults, SaveDataset
  <2>2. QED
        BY <1>1, <2>1, GotoMoves DEF Moves, Stages
<1>9. CASE SelectPublished(v)
      BY <1>1, <1>9, SelectMoves DEF Moves
<1>10. ~Missing(v)
  <2>1. Missing(v) => \E r \in Collector : Ends(v, r)
        BY AnswerEnds, CollectorFacts DEF Missing, TypeOK, Collector
  <2>2. QED
        BY <1>0, <2>1 DEF Ends
<1>11. QED
      BY <1>3, <1>5, <1>6, <1>7, <1>8, <1>9, <1>10
         DEF Serve, ReadBlob, Replace, WriteClean, Withhold

LEMMA CronMoves ==
  ASSUME TypeOK, Cron
  PROVE  /\ client' = client
         /\ \A w \in Invocations : w # Timer => inv'[w] = inv[w]
         /\ inv'[Timer].sub \in {inv[Timer].sub, NoSub}
         /\ \/ inv'[Timer].sub = NoSub
            \/ inv'[Timer].at = "gcRows" /\ inv[Timer].at = "gcChunks"
<1>1. Timer \in Invocations /\ client' = client /\ inv \in [Invocations -> Invocation]
      BY DEF Invocations, Cron, Tick, GcChunks, GcRows, TypeOK
<1>0. Idle.sub = NoSub /\ [Idle EXCEPT !.op = "timer", !.at = "select"].sub = NoSub
      BY DEF Idle
<1>2. CASE Tick
      BY <1>0, <1>1, <1>2 DEF Tick
<1>3. CASE GcChunks
      BY <1>1, <1>3, GotoFacts DEF GcChunks, At, Stages
<1>4. CASE GcRows
      BY <1>0, <1>1, <1>4 DEF GcRows
<1>5. QED
      BY <1>1, <1>2, <1>3, <1>4 DEF Cron

\* Steps of the others give an invocation no new place but the first ones.
LEMMA OtherMoves ==
  ASSUME TypeOK, [Next]_vars, ~\E v \in Invocations : Serve(v), NEW w \in Invocations
  PROVE  \/ \E v \in Invocations : inv'[w] = inv[v]
         \/ inv'[w].sub \notin Subs
         \/ inv'[w].at = "row"
         \/ inv'[w].at = "gcRows"
<1>0. Idle.sub \notin Subs /\ Timer \in Invocations
      BY PartsAssumption DEF Idle, Invocations
<1>1. ASSUME NEW c \in Clients, Probe(c)
      PROVE  inv' = inv
      BY <1>1 DEF Probe
<1>2. ASSUME NEW c \in Clients, Send(c)
      PROVE  inv'[w] = inv[w] \/ inv'[w].at = "row"
      BY <1>2 DEF Send, TypeOK, Idle
<1>3. ASSUME NEW c \in Clients, NEW o \in Orphans, GiveUp(c, o)
      PROVE  inv'[w] \in {inv[w], inv[c], Idle} /\ c \in Invocations
      BY <1>3 DEF GiveUp, TypeOK, Invocations
<1>4. ASSUME NEW v \in Invocations, Kill(v)
      PROVE  inv'[w] \in {inv[w], Idle}
      BY <1>4, RefuseFacts DEF Kill
<1>5. ASSUME NEW v \in Readers, BulkRead(v)
      PROVE  inv'[w] = inv[w] \/ inv'[w].sub \notin Subs
      BY <1>5, PartsAssumption DEF BulkRead, TypeOK, Idle
<1>6. ASSUME Cron
      PROVE  inv'[w] = inv[w] \/ inv'[w].sub \notin Subs \/ inv'[w].at = "gcRows"
      BY <1>6, CronMoves, PartsAssumption
<1>7. ASSUME NEW r \in Subs, Age(r) PROVE inv' = inv
      BY <1>7 DEF Age
<1>8. CASE UNCHANGED vars
      BY <1>8 DEF vars
<1>9. QED
      BY <1>0, <1>1, <1>2, <1>3, <1>4, <1>5, <1>6, <1>7, <1>8 DEF Next, Run

LEMMA PathStep ==
  ASSUME TypeOK, RoleInv, FreshInv, GoingInv, ReportInv, PlainInv, PathInv, [Next]_vars
  PROVE  PathInv'
<1> SUFFICES ASSUME NEW w \in Invocations, NEW s \in Subs, inv'[w].sub = s, ~Stripped(s)'
             PROVE  /\ inv'[w].at \notin {"blob", "replace", "write", "withhold"}
                    /\ inv'[w].at \in {"put", "verify", "publish"} => nature'[s] = "plain"
                    /\ inv'[w].at = "verify" => inv'[w].shape = "raw"
                    /\ inv'[w].at = "publish" => Whole(s, "raw")'
    BY DEF PathInv
<1>1. nature' = nature /\ ~Stripped(s) /\ Change(s)
      BY NatureStep, StepChange DEF Stripped
<1>2. ASSUME NEW v \in Invocations, inv[v].sub = s, inv[v].at \in {"verify", "publish"},
             Whole(s, "raw")
      PROVE  Whole(s, "raw")'
      BY <1>1, <1>2, StaysWhole DEF FreshInv, InRun
<1>3. ASSUME NEW v \in Invocations, inv'[w] = inv[v]
      PROVE  /\ inv'[w].at \notin {"blob", "replace", "write", "withhold"}
             /\ inv'[w].at \in {"put", "verify", "publish"} => nature'[s] = "plain"
             /\ inv'[w].at = "verify" => inv'[w].shape = "raw"
             /\ inv'[w].at = "publish" => Whole(s, "raw")'
      BY <1>1, <1>2, <1>3 DEF PathInv
<1>4. CASE \E v \in Invocations : Serve(v)
  <2>1. PICK v \in Invocations : Serve(v)
        BY <1>4
  <2>2. CASE v = w
        BY <1>1, <1>2, <2>1, <2>2, ServePath
  <2>3. CASE v # w
    <3>1. inv'[w] = inv[w]
          BY <2>1, <2>3, ServeMoves DEF Moves, Ends
    <3>2. QED
          BY <1>3, <3>1
  <2>4. QED
        BY <2>2, <2>3
<1>5. CASE ~\E v \in Invocations : Serve(v)
      BY <1>3, <1>5, OtherMoves
<1>6. QED
      BY <1>4, <1>5

-----------------------------------------------------------------------------
\* Stripped uploads: one run at a time

LEMMA OneRunStep ==
  ASSUME ~Overlap, TypeOK, RoleInv, OneRunInv, [Next]_vars
  PROVE  OneRunInv'
<1> SUFFICES ASSUME NEW s \in Subs, Stripped(s)'
             PROVE  /\ \A v, w \in Invocations : inv'[v].sub = s /\ inv'[w].sub = s => v = w
                    /\ \A c \in Clients, v \in Invocations :
                         Wants[c] = s /\ Active(c)' /\ inv'[v].sub = s => v = c
                    /\ \A c, d \in Clients :
                         Wants[c] = s /\ Wants[d] = s /\ Active(c)' /\ Active(d)' => c = d
    BY DEF OneRunInv
<1> DEFINE Goal == /\ \A v, w \in Invocations : inv'[v].sub = s /\ inv'[w].sub = s => v = w
                   /\ \A c \in Clients, v \in Invocations :
                        Wants[c] = s /\ Active(c)' /\ inv'[v].sub = s => v = c
                   /\ \A c, d \in Clients :
                        Wants[c] = s /\ Wants[d] = s /\ Active(c)' /\ Active(d)' => c = d
<1>0. Idle.sub # s
      BY PartsAssumption DEF Idle
<1>1. /\ \A v, w \in Invocations : inv[v].sub = s /\ inv[w].sub = s => v = w
      /\ \A c \in Clients, v \in Invocations :
           Wants[c] = s /\ Active(c) /\ inv[v].sub = s => v = c
      /\ \A c, d \in Clients :
           Wants[c] = s /\ Wants[d] = s /\ Active(c) /\ Active(d) => c = d
      BY NatureStep DEF OneRunInv, Stripped
<1>2. ASSUME \A v \in Invocations : inv'[v].sub = s => inv[v].sub = s,
             \A c \in Clients : Wants[c] = s /\ Active(c)' => Active(c)
      PROVE  Goal
      BY <1>1, <1>2
<1>3. ASSUME NEW c \in Clients, Probe(c) PROVE Goal
  <2>1. inv' = inv /\ \A d \in Clients : d # c => client'[d] = client[d]
        BY <1>3 DEF Probe, TypeOK
  <2>2. CASE Wants[c] = s
    <3>1. Quiet(s)
          BY <1>3, <2>2, NatureStep DEF Probe, Stripped
    <3>2. /\ \A v \in Invocations : inv[v].sub # s
          /\ \A d \in Clients : Wants[d] = s => ~Active(d)
          BY <3>1 DEF Quiet, Active
    <3>3. QED
          BY <2>1, <3>2 DEF Active
  <2>3. CASE Wants[c] # s
        BY <1>2, <2>1, <2>3 DEF Active
  <2>4. QED
        BY <2>2, <2>3
<1>4. ASSUME NEW c \in Clients, Send(c) PROVE Goal
  <2>1. /\ inv'[c].sub = Wants[c] /\ client' = client /\ Active(c) /\ inv[c] = Idle
        /\ \A w \in Invocations : w # c => inv'[w] = inv[w]
        BY <1>4 DEF Send, TypeOK, Invocations, Idle, Active
  <2>2. CASE Wants[c] = s
    <3>1. \A v \in Invocations : inv[v].sub # s
          BY <1>0, <1>1, <2>1, <2>2
    <3>2. QED
          BY <1>1, <2>1, <2>2, <3>1 DEF Active
  <2>3. CASE Wants[c] # s
        BY <1>2, <2>1, <2>3 DEF Active
  <2>4. QED
        BY <2>2, <2>3
<1>5. ASSUME NEW c \in Clients, NEW o \in Orphans, GiveUp(c, o) PROVE Goal
  <2>1. /\ inv'[c] = Idle /\ inv'[o] = inv[c] /\ c \in Invocations /\ inv[o] = Idle
        /\ \A w \in Invocations : w # c /\ w # o => inv'[w] = inv[w]
        /\ \A d \in Clients : d # c => client'[d] = client[d]
        /\ ~Active(c)'
        BY <1>5, PartsAssumption DEF GiveUp, TypeOK, Invocations, Restarted, Active
  <2>2. inv[c].sub = Wants[c] /\ Active(c)
        BY <1>5 DEF GiveUp, RoleInv, Active
  <2>3. \A d \in Clients : Active(d)' => d # c /\ Active(d)
        BY <2>1 DEF Active
  <2>4. QED
        BY <1>0, <1>1, <2>1, <2>2, <2>3
<1>6. ASSUME NEW v \in Invocations, NEW x, Moves(v, x) PROVE Goal
      BY <1>2, <1>6 DEF Moves, Active
<1>7. ASSUME NEW v \in Invocations, NEW r, Ends(v, r), inv[v] # Idle PROVE Goal
  <2>1. \A c \in Clients : c = v => Active(c)
        BY <1>7 DEF RoleInv, Active
  <2>2. \A c \in Clients : Wants[c] = s /\ Active(c)' => Active(c)
        BY <1>7, <2>1 DEF Ends, Active
  <2>3. QED
        BY <1>0, <1>2, <1>7, <2>2 DEF Ends
<1>8. ASSUME NEW v \in Invocations, Serve(v) \/ Kill(v) PROVE Goal
      BY <1>6, <1>7, <1>8, ServeMoves, RefuseEnds DEF Kill
<1>9. ASSUME NEW v \in Readers, BulkRead(v) PROVE Goal
  <2>1. /\ inv'[v].sub = NoSub /\ client' = client
        /\ \A w \in Invocations : w # v => inv'[w] = inv[w]
        BY <1>9 DEF BulkRead, TypeOK, Idle, Invocations
  <2>2. QED
        BY <1>2, <2>1, PartsAssumption DEF Active
<1>10. ASSUME Cron PROVE Goal
  <2>1. client' = client /\ \A w \in Invocations : inv'[w].sub \in {inv[w].sub, NoSub}
        BY <1>10, CronMoves
  <2>2. QED
        BY <1>2, <2>1, PartsAssumption DEF Active
<1>11. CASE UNCHANGED <<inv, client>>
       BY <1>2, <1>11 DEF Active
<1>12. QED
       BY <1>3, <1>4, <1>5, <1>8, <1>9, <1>10, <1>11 DEF Next, Run, Age, vars

-----------------------------------------------------------------------------
\* Stripped uploads: the rewrite

\* What one submission's rewrite must satisfy.
AtWrite(s) ==
  \A v \in Invocations : inv[v].sub = s =>
    /\ inv[v].at = "write" /\ row[s].state # "absent" => row[s].shape = "clean"
    /\ inv[v].at \in {"check", "verify", "publish"} /\ row[s].state # "absent" =>
         row[s].shape # "raw" \/ Empty(s)
    /\ inv[v].at \in {"verify", "publish"} =>
         inv[v].shape = row[s].shape /\ row[s].shape # "none"
    /\ inv[v].at = "publish" => Whole(s, row[s].shape)

Settled(s) ==
  row[s].state = "published" =>
    /\ row[s].shape = "clean" /\ Whole(s, "clean")
    /\ \A v \in Invocations : inv[v].sub = s => inv[v].at \in Rebuild
    /\ \A c \in Clients : Wants[c] = s /\ Active(c) => inv[c].sub = s

\* A step of the only invocation there is for a stripped upload.
LEMMA OwnRewrite ==
  ASSUME TypeOK, RoleInv, GoingInv, OneRunInv, NEW s \in Subs, Stripped(s),
         AtWrite(s), Settled(s), NEW v \in Invocations, Serve(v), inv[v].sub = s,
         nature' = nature
  PROVE  AtWrite(s)' /\ Settled(s)'
<1> USE DEF At, dbVars
<1>0. /\ \A w \in Invocations : inv[w].sub = s <=> w = v
      /\ \A c \in Clients : Wants[c] = s /\ Active(c) => c = v
      /\ Idle.sub # s
      BY PartsAssumption DEF OneRunInv, Idle
<1>1. /\ \A w \in Invocations : inv'[w].sub = s => w = v
      /\ \A c \in Clients : Wants[c] = s /\ Active(c)' => c = v
  <2>1. v \in Clients => Active(v)
        BY ServeMoves DEF RoleInv, Active
  <2>2. QED
        BY <1>0, <2>1, ServeMoves DEF Moves, Ends, Active
\* It ended: its collector goes on alone.
<1>2. ASSUME NEW r \in Collector, Ends(v, r), row' = row, chunks' = chunks,
             row[s].state = "published" => r \in {Finished, Restarted}
      PROVE  AtWrite(s)' /\ Settled(s)'
  <2>1. \A w \in Invocations : inv'[w].sub # s
        BY <1>0, <1>1, <1>2 DEF Ends
  <2>2. \A c \in Clients : Wants[c] = s /\ Active(c)' => row[s].state # "published"
        BY <1>1, <1>2, CollectorFacts DEF Ends, Active
  <2>3. Whole(s, "clean")' <=> Whole(s, "clean")
        BY <1>2 DEF Whole, Count
  <2>4. QED
        BY <1>2, <2>1, <2>2, <2>3 DEF AtWrite, Settled
\* It moved on before the UPDATE.
<1>3. ASSUME NEW x \in Stages, Moves(v, x), row'[s].state # "published", AtWrite(s)'
      PROVE  AtWrite(s)' /\ Settled(s)'
      BY <1>3 DEF Settled
<1>4. ASSUME NEW x \in Stages \ {"write", "check", "verify", "publish"}, Moves(v, x),
             row'[s].state # "published"
      PROVE  AtWrite(s)' /\ Settled(s)'
  <2>1. AtWrite(s)'
        BY <1>1, <1>4 DEF AtWrite, Moves
  <2>2. QED
        BY <1>4, <2>1 DEF Settled
\* It moved on after it.
<1>5. ASSUME NEW x \in Rebuild, Moves(v, x), row'[s].shape = row[s].shape,
             chunks'[s] = chunks[s],
             row'[s].state = "published" => row[s].shape = "clean" /\ Whole(s, "clean")
      PROVE  AtWrite(s)' /\ Settled(s)'
  <2>1. Whole(s, "clean")' <=> Whole(s, "clean")
        BY <1>5 DEF Whole, Count
  <2>2. AtWrite(s)'
        BY <1>1, <1>5 DEF AtWrite, Moves, Rebuild
  <2>3. Settled(s)'
        BY <1>1, <1>5, <2>1 DEF Settled, Moves, Rebuild
  <2>4. QED
        BY <2>2, <2>3
<1>6. inv[v].at \notin Rebuild => row[s].state # "published"
      BY DEF Settled
<1>7. CASE InitiateLook(v) \/ Reread(v) \/ ChunkLook(v) \/ Compare(v)
  <2>1. row' = row /\ chunks' = chunks /\ row[s].state # "published"
        BY <1>6, <1>7 DEF InitiateLook, Reread, ChunkLook, Compare, Rebuild
  <2>2. Ends(v, Restarted) \/ \E x \in {"touch", "insert", "missing", "put"} : Moves(v, x)
        BY <1>7, <2>1, RefuseEnds, GotoMoves
           DEF InitiateLook, Reread, ChunkLook, Compare, Stages
  <2>3. QED
        BY <1>2, <1>4, <2>1, <2>2, CollectorFacts DEF Stages
<1>8. CASE Touch(v) \/ Insert(v) \/ PutChunk(v)
  <2>1. row[s].state # "published"
        BY <1>6, <1>8 DEF Touch, Insert, PutChunk, Rebuild
  <2>2. row'[s].state # "published"
        BY <1>8, <2>1 DEF Touch, Insert, PutChunk, Stripped, TypeOK, Row
  <2>3. \E x \in {"missing", "reread", "compare"} : Moves(v, x)
        BY <1>8, GotoMoves DEF Touch, Insert, PutChunk, Stages
  <2>4. QED
        BY <1>4, <2>2, <2>3 DEF Stages
<1>9. CASE Missing(v)
  <2>1. row' = row /\ chunks' = chunks /\ row[s].state # "published"
        BY <1>6, <1>9 DEF Missing, Rebuild
  <2>2. \E r \in Collector : Ends(v, r)
        BY <1>9, AnswerEnds, CollectorFacts DEF Missing, TypeOK, Collector
  <2>3. QED
        BY <1>2, <2>1, <2>2
<1>10. CASE CompleteLook(v)
  <2>1. row' = row /\ chunks' = chunks /\ row[s].state # "published"
        BY <1>6, <1>10 DEF CompleteLook, Rebuild
  <2>2. CASE Moves(v, "blob")
        BY <1>4, <2>1, <2>2 DEF Stages
  <2>3. CASE Moves(v, "check") /\ row[s].state = "absent"
    <3>1. AtWrite(s)'
          BY <1>1, <2>1, <2>3 DEF AtWrite, Moves
    <3>2. QED
          BY <1>3, <2>1, <2>3, <3>1 DEF Stages
  <2>4. QED
        BY <1>10, <2>2, <2>3, GotoMoves DEF CompleteLook, Stages
<1>11. CASE ReadBlob(v)
  <2>1. row' = row /\ chunks' = chunks /\ row[s].state # "published"
        BY <1>6, <1>11 DEF ReadBlob, Rebuild
  <2>2. CASE Moves(v, "replace") \/ Moves(v, "withhold")
        BY <1>4, <2>1, <2>2 DEF Stages
  <2>3. CASE Moves(v, "check") /\ Empty(s)
    <3>1. Empty(s)'
          BY <2>1, <2>3 DEF Empty
    <3>2. AtWrite(s)'
          BY <1>1, <2>3, <3>1 DEF AtWrite, Moves
    <3>3. QED
          BY <1>3, <2>1, <2>3, <3>2 DEF Stages
  <2>4. QED
        BY <1>11, <2>2, <2>3, GotoMoves DEF ReadBlob, Stages
<1>12. CASE Replace(v) \/ Withhold(v)
  <2>1. row[s].state # "published"
        BY <1>6, <1>12 DEF Replace, Withhold, Rebuild
  <2>2. row'[s].state = row[s].state
        BY <1>12 DEF Replace, Withhold, DropArchive, TypeOK, Row
  <2>3. CASE Replace(v)
    <3>1. Moves(v, "write") /\ (row'[s].state # "absent" => row'[s].shape = "clean")
          BY <2>2, <2>3, ReplaceMoves DEF Replace, DropArchive, TypeOK, Row
    <3>2. AtWrite(s)'
          BY <1>1, <3>1 DEF AtWrite, Moves
    <3>3. QED
          BY <1>3, <2>1, <2>2, <3>1, <3>2 DEF Stages
  <2>4. CASE Withhold(v)
    <3>1. Moves(v, "check")
          BY <2>4, GotoMoves DEF Withhold, Stages
    <3>2. row'[s].state # "absent" => row'[s].shape = "none"
          BY <2>2, <2>4 DEF Withhold, DropArchive, TypeOK, Row
    <3>3. AtWrite(s)'
          BY <1>1, <3>1, <3>2 DEF AtWrite, Moves
    <3>4. QED
          BY <1>3, <2>1, <2>2, <3>1, <3>3 DEF Stages
  <2>5. QED
        BY <1>12, <2>3, <2>4
<1>13. CASE WriteClean(v)
  <2>1. row' = row /\ row[s].state # "published" /\ inv[v].at = "write"
        BY <1>6, <1>13 DEF WriteClean, Rebuild
  <2>2. row[s].state # "absent" => row[s].shape = "clean"
        BY <2>1 DEF AtWrite
  <2>3. PICK x \in {"write", "check"} : Moves(v, x)
        BY <1>13, WriteMoves
  <2>4. AtWrite(s)'
        BY <1>1, <2>1, <2>2, <2>3 DEF AtWrite, Moves
  <2>5. QED
        BY <1>3, <2>1, <2>3, <2>4 DEF Stages
<1>14. CASE Check(v)
  <2>1. row' = row /\ chunks' = chunks /\ row[s].state # "published" /\ inv[v].at = "check"
        BY <1>6, <1>14 DEF Check, Rebuild
  <2>2. CASE Refuse(v)
        BY <1>2, <2>1, <2>2, RefuseEnds, CollectorFacts
  <2>3. CASE ~Refuse(v)
    <3>1. row[s].shape # "none" /\ row[s].shape \in Shapes /\ row[s].state = "incomplete"
          BY <1>14, <2>1, <2>3 DEF Check, TypeOK, Row
    <3>2. Moves(v, "verify") /\ inv'[v].shape = row[s].shape
          BY <1>14, <2>1, <2>3, <3>1, CheckMoves DEF Check
    <3>3. row[s].shape # "raw" \/ Empty(s)'
          BY <2>1, <3>1 DEF AtWrite, Empty
    <3>4. AtWrite(s)'
          BY <1>1, <2>1, <3>1, <3>2, <3>3 DEF AtWrite, Moves
    <3>5. QED
          BY <1>3, <2>1, <3>2, <3>4 DEF Stages
  <2>4. QED
        BY <2>2, <2>3
<1>15. CASE Verify(v)
  <2>1. row' = row /\ chunks' = chunks /\ row[s].state # "published" /\ inv[v].at = "verify"
        BY <1>6, <1>15 DEF Verify, Rebuild
  <2>2. CASE Refuse(v)
        BY <1>2, <2>1, <2>2, RefuseEnds, CollectorFacts
  <2>3. CASE ~Refuse(v)
    <3>1. /\ inv[v].shape = row[s].shape /\ row[s].shape # "none"
          /\ row[s].state # "absent" => row[s].shape # "raw" \/ Empty(s)
          BY <2>1 DEF AtWrite
    <3>2. Whole(s, row[s].shape) /\ Goto(v, "publish") /\ UNCHANGED client
          BY <1>15, <2>3, <3>1 DEF Verify
    <3>3. Moves(v, "publish") /\ inv'[v].shape = row[s].shape
          BY <3>1, <3>2, GotoMoves DEF Stages
    <3>4. Whole(s, row[s].shape)' /\ (Empty(s)' <=> Empty(s))
          BY <2>1, <3>2 DEF Whole, Empty, Count
    <3>5. AtWrite(s)'
          BY <1>1, <2>1, <3>1, <3>3, <3>4 DEF AtWrite, Moves
    <3>6. QED
          BY <1>3, <2>1, <3>3, <3>5 DEF Stages
  <2>4. QED
        BY <2>2, <2>3
<1>16. CASE Publish(v)
  <2>1. Moves(v, "select") /\ inv[v].at = "publish" /\ chunks' = chunks
        BY <1>16, GotoMoves DEF Publish, Stages
  <2>2. row'[s].shape = row[s].shape
        BY <1>16 DEF Publish, TypeOK, Row
  <2>3. row[s].state # "absent"
        BY <2>1 DEF GoingInv
  <2>4. /\ row[s].shape # "none" /\ Whole(s, row[s].shape)
        /\ row[s].shape # "raw" \/ Empty(s)
        BY <2>1, <2>3 DEF AtWrite
  <2>5. row[s].shape = "clean" /\ Whole(s, "clean")
    <3>1. row[s].shape \in Shapes
          BY DEF TypeOK, Row
    <3>2. CASE row[s].shape = "raw"
          BY <2>4, <3>2, WholeFacts
    <3>3. QED
          BY <2>4, <3>1, <3>2 DEF Shapes
  <2>6. QED
        BY <1>5, <2>1, <2>2, <2>5 DEF Rebuild
<1>17. CASE SelectPublished(v) \/ SaveResults(v)
  <2>1. row' = row /\ chunks' = chunks
        BY <1>17 DEF SelectPublished, SaveResults
  <2>2. \E x \in Rebuild : Moves(v, x)
        BY <1>17, SelectMoves, GotoMoves DEF SaveResults, Rebuild, Stages
  <2>3. QED
        BY <1>5, <2>1, <2>2 DEF Settled
<1>18. CASE SaveDataset(v)
  <2>1. row' = row /\ chunks' = chunks
        BY <1>18 DEF SaveDataset
  <2>2. inv[v].op # "timer"
        BY PartsAssumption DEF RoleInv
  <2>3. Ends(v, Finished)
        BY <1>18, <2>2, AnswerEnds, CollectorFacts DEF SaveDataset
  <2>4. QED
        BY <1>2, <2>1, <2>3, CollectorFacts
<1>19. QED
       BY <1>7, <1>8, <1>9, <1>10, <1>11, <1>12, <1>13, <1>14, <1>15, <1>16, <1>17, <1>18
          DEF Serve

LEMMA RewriteStep ==
  ASSUME TypeOK, RoleInv, FreshInv, GoingInv, OneRunInv, RewriteInv, [Next]_vars
  PROVE  RewriteInv'
<1> SUFFICES ASSUME NEW s \in Subs, Stripped(s)' PROVE AtWrite(s)' /\ Settled(s)'
    BY DEF RewriteInv, AtWrite, Settled, Rebuild
<1>0. Idle.sub # s
      BY PartsAssumption DEF Idle
<1>1. Stripped(s) /\ nature' = nature /\ AtWrite(s) /\ Settled(s)
  <2>1. Stripped(s) /\ nature' = nature
        BY NatureStep DEF Stripped
  <2>2. QED
        BY <2>1 DEF RewriteInv, AtWrite, Settled
<1>2. ASSUME row'[s].state = row[s].state, row'[s].shape = row[s].shape,
             chunks'[s] = chunks[s],
             \A w \in Invocations : inv'[w].sub = s =>
               \/ \E u \in Invocations : inv'[w] = inv[u]
               \/ inv'[w].at \in {"row", "gcRows"} /\ row[s].state # "published",
             \A c \in Clients : Wants[c] = s /\ Active(c)' /\ row[s].state = "published" =>
                inv'[c].sub = s
      PROVE  AtWrite(s)' /\ Settled(s)'
  <2>1. /\ \A x : Whole(s, x)' <=> Whole(s, x)
        /\ Empty(s)' <=> Empty(s)
        BY <1>2 DEF Whole, Empty, Count
  <2>2. AtWrite(s)'
    <3>1. \A w \in Invocations : inv'[w].sub = s =>
             (\E u \in Invocations : inv'[w] = inv[u]) \/ inv'[w].at \in {"row", "gcRows"}
          BY <1>2
    <3>2. Whole(s, row[s].shape)' <=> Whole(s, row[s].shape)
          BY <1>2 DEF Whole, Count
    <3>3. row'[s].state = row[s].state /\ row'[s].shape = row[s].shape
          BY <1>2
    <3>4. QED
          BY <1>1, <2>1, <3>1, <3>2, <3>3 DEF AtWrite
  <2>3. Settled(s)'
        BY <1>1, <1>2, <2>1 DEF Settled, Rebuild
  <2>4. QED
        BY <2>2, <2>3
<1>3. ASSUME NEW c \in Clients, Probe(c) PROVE AtWrite(s)' /\ Settled(s)'
  <2>1. inv' = inv /\ row' = row /\ chunks' = chunks
        BY <1>3 DEF Probe, dbVars
  <2>2. ASSUME NEW d \in Clients, Wants[d] = s, Active(d)', row[s].state = "published"
        PROVE  inv[d].sub = s
    <3>1. d # c
          BY <1>3, <2>2 DEF Probe, TypeOK, Active, Finished
    <3>2. Active(d)
          BY <1>3, <2>2, <3>1 DEF Probe, TypeOK, Active
    <3>3. QED
          BY <1>1, <2>2, <3>2 DEF Settled
  <2>3. QED
        BY <1>2, <2>1, <2>2
<1>4. ASSUME NEW c \in Clients, Send(c) PROVE AtWrite(s)' /\ Settled(s)'
  <2>1. /\ inv'[c].at = "row" /\ inv'[c].sub = Wants[c] /\ Active(c) /\ inv[c] = Idle
        /\ \A w \in Invocations : w # c => inv'[w] = inv[w]
        /\ client' = client /\ row' = row /\ chunks' = chunks
        BY <1>4 DEF Send, dbVars, TypeOK, Invocations, Idle, Active
  <2>2. Wants[c] = s => row[s].state # "published"
        BY <1>0, <1>1, <2>1 DEF Settled
  <2>3. \A d \in Clients : Wants[d] = s /\ Active(d)' /\ row[s].state = "published" =>
          inv'[d].sub = s
        BY <1>1, <2>1, <2>2 DEF Settled, Active, Invocations
  <2>4. QED
        BY <1>2, <2>1, <2>2, <2>3
<1>5. ASSUME NEW c \in Clients, NEW o \in Orphans, GiveUp(c, o) PROVE AtWrite(s)' /\ Settled(s)'
  <2>1. /\ inv'[c] = Idle /\ inv'[o] = inv[c] /\ c \in Invocations /\ inv[o] = Idle
        /\ \A w \in Invocations : w # c /\ w # o => inv'[w] = inv[w]
        /\ \A d \in Clients : d # c => client'[d] = client[d]
        /\ ~Active(c)' /\ row' = row /\ chunks' = chunks
        BY <1>5, PartsAssumption DEF GiveUp, dbVars, TypeOK, Invocations, Restarted, Active
  <2>2. \A w \in Invocations : inv'[w].sub = s => \E u \in Invocations : inv'[w] = inv[u]
        BY <1>0, <2>1
  <2>3. \A d \in Clients : Wants[d] = s /\ Active(d)' /\ row[s].state = "published" =>
          inv'[d].sub = s
    <3>1. \A d \in Clients : d # o /\ d \in Invocations
          BY PartsAssumption DEF Invocations
    <3>2. QED
          BY <1>1, <2>1, <3>1 DEF Settled, Active
  <2>4. QED
        BY <1>2, <2>1, <2>2, <2>3
<1>6. ASSUME NEW v \in Invocations, Kill(v) PROVE AtWrite(s)' /\ Settled(s)'
  <2>1. Ends(v, Restarted) /\ row' = row /\ chunks' = chunks
        BY <1>6, RefuseEnds DEF Kill, dbVars
  <2>2. \A w \in Invocations : inv'[w].sub = s => \E u \in Invocations : inv'[w] = inv[u]
        BY <1>0, <2>1 DEF Ends
  <2>3. \A d \in Clients : Active(d)' => d # v /\ Active(d)
        BY <2>1 DEF Ends, Restarted, Active
  <2>4. \A d \in Clients : Wants[d] = s /\ Active(d)' /\ row[s].state = "published" =>
          inv'[d].sub = s
        BY <1>1, <2>1, <2>3 DEF Settled, Ends, Invocations
  <2>5. QED
        BY <1>2, <2>1, <2>2, <2>4
<1>7. ASSUME NEW v \in Invocations, Serve(v) PROVE AtWrite(s)' /\ Settled(s)'
  <2>1. CASE inv[v].sub = s
        BY <1>1, <1>7, <2>1, OwnRewrite
  <2>2. CASE inv[v].sub # s
    <3>1. row'[s] = row[s] /\ chunks'[s] = chunks[s]
          BY <1>7, <2>2, RowFrame DEF Frame
    <3>2. \A w \in Invocations : inv'[w].sub = s => w # v /\ inv'[w] = inv[w]
          BY <1>0, <1>7, <2>2, ServeMoves DEF Moves, Ends
    <3>3. \A d \in Clients : Wants[d] = s => d # v /\ client'[d] = client[d]
          BY <1>7, <2>2, ServeMoves DEF Moves, Ends, RoleInv
    <3>4. \A d \in Clients : Wants[d] = s /\ Active(d)' /\ row[s].state = "published" =>
            inv'[d].sub = s
      <4>1. \A d \in Clients : d # v => inv'[d] = inv[d]
            BY <1>7, ServeMoves DEF Moves, Ends, Invocations
      <4>2. QED
            BY <1>1, <3>3, <4>1 DEF Settled, Active
    <3>5. QED
          BY <1>2, <3>1, <3>2, <3>4
  <2>3. QED
        BY <2>1, <2>2
<1>8. ASSUME NEW v \in Readers, BulkRead(v) PROVE AtWrite(s)' /\ Settled(s)'
  <2>1. /\ inv'[v].sub = NoSub /\ v \notin Clients
        /\ client' = client /\ row' = row /\ chunks' = chunks
        /\ \A w \in Invocations : w # v => inv'[w] = inv[w]
        BY <1>8, PartsAssumption DEF BulkRead, dbVars, TypeOK, Idle, Invocations
  <2>2. \A d \in Clients : Wants[d] = s /\ Active(d)' /\ row[s].state = "published" =>
          inv'[d].sub = s
        BY <1>1, <2>1 DEF Settled, Active, Invocations
  <2>3. QED
        BY <1>2, <2>1, <2>2, PartsAssumption
<1>9. ASSUME Cron PROVE AtWrite(s)' /\ Settled(s)'
  <2>1. /\ client' = client /\ Timer \notin Clients /\ Timer \in Invocations
        /\ \A w \in Invocations : w # Timer => inv'[w] = inv[w]
        /\ inv'[Timer].sub = s => inv'[Timer].at = "gcRows" /\ inv[Timer].at = "gcChunks"
        /\ inv'[Timer].sub = s => inv[Timer].sub = s
        BY <1>9, CronMoves, PartsAssumption DEF Invocations
  <2>2. CASE ~Expired(s)
    <3>1. row'[s] = row[s] /\ chunks'[s] = chunks[s]
          BY <1>9, <2>2 DEF Cron, Tick, GcChunks, GcRows, dbVars
    <3>2. inv'[Timer].sub = s => row[s].state # "published"
          BY <1>1, <2>1 DEF Settled, Rebuild
    <3>3. \A d \in Clients : Wants[d] = s /\ Active(d)' /\ row[s].state = "published" =>
            inv'[d].sub = s
          BY <1>1, <2>1 DEF Settled, Active, Invocations
    <3>4. QED
          BY <1>2, <2>1, <3>1, <3>2, <3>3
  <2>3. CASE Expired(s)
    <3>1. ~InRun(s)
          BY <2>3 DEF FreshInv
    <3>2. \A w \in Invocations : inv'[w].sub = s => inv'[w].at \in {"row", "touch"}
          BY <2>1, <3>1 DEF InRun
    <3>3. row'[s].state # "published"
          BY <1>9, <2>3 DEF Cron, Tick, GcChunks, GcRows, dbVars, Expired, NoRow
    <3>4. QED
          BY <3>2, <3>3 DEF AtWrite, Settled
  <2>4. QED
        BY <2>2, <2>3
<1>10. ASSUME NEW r \in Subs, Age(r) PROVE AtWrite(s)' /\ Settled(s)'
  <2>1. inv' = inv /\ client' = client /\ chunks' = chunks
        BY <1>10 DEF Age
  <2>2. row'[s].state = row[s].state /\ row'[s].shape = row[s].shape
        BY <1>10 DEF Age, TypeOK, Row
  <2>3. \A d \in Clients : Wants[d] = s /\ Active(d)' /\ row[s].state = "published" =>
          inv'[d].sub = s
        BY <1>1, <2>1 DEF Settled, Active
  <2>4. QED
        BY <1>2, <2>1, <2>2, <2>3
<1>11. CASE UNCHANGED vars
  <2>1. inv' = inv /\ client' = client /\ row' = row /\ chunks' = chunks
        BY <1>11 DEF vars, dbVars
  <2>2. \A c \in Clients : Wants[c] = s /\ Active(c)' /\ row[s].state = "published" =>
          inv'[c].sub = s
        BY <1>1, <2>1 DEF Settled, Active
  <2>3. QED
        BY <1>2, <2>1, <2>2
<1>12. QED
       BY <1>3, <1>4, <1>5, <1>6, <1>7, <1>8, <1>9, <1>10, <1>11 DEF Next, Run

-----------------------------------------------------------------------------
\* The theorems

\* Every reachable state has the declared shape.
THEOREM TypeCorrect == Spec => []TypeOK
<1>1. Init => TypeOK /\ RoleInv
      BY Init0 DEF IInv, BaseInv
<1>2. (TypeOK /\ RoleInv) /\ [Next]_vars => (TypeOK /\ RoleInv)'
      BY TypeStep, RoleStep
<1>3. QED
      BY <1>1, <1>2, PTL DEF Spec

\* What holds however many runs overlap, as long as none lasts a week.
LEMMA BaseAlways ==
  ASSUME ~SlowRuns
  PROVE  Spec => []BaseInv
<1>1. Init => BaseInv
      BY Init0 DEF IInv
<1>2. BaseInv /\ [Next]_vars => BaseInv'
      BY TypeStep, RoleStep, FreshStep, GoingStep, ReportStep, PlainStep, PathStep DEF BaseInv
<1>3. QED
      BY <1>1, <1>2, PTL DEF Spec

\* A collector that was given a receipt has a published row behind it, for
\* good: completeSubmission's UPDATE met the row it had checked, and the
\* collections of gcStale took no row of an upload in progress.
THEOREM ReceiptAlways ==
  ASSUME ~SlowRuns
  PROVE  Spec => []ReceiptIsTrue
<1>1. BaseInv => ReceiptIsTrue
      BY DEF BaseInv, GoingInv
<1>2. QED
      BY <1>1, BaseAlways, PTL

\* A published upload whose payload needed no strip serves exactly the archive
\* that was sent, and a report none, whatever runs overlap, die or are cut off.
UnstrippedIsWhole ==
  \A s \in Subs : ~Stripped(s) /\ row[s].state = "published" =>
                    row[s].shape = Offered(s) /\ Whole(s, Offered(s))

\* No other restriction: any number of overlapping runs, kills and collections
\* leave it so (handleInitiate, handleChunk, completeSubmission, gcStale).
THEOREM UnstrippedAlways ==
  ASSUME ~SlowRuns
  PROVE  Spec => []UnstrippedIsWhole
<1>1. BaseInv => UnstrippedIsWhole
  <2> SUFFICES ASSUME BaseInv, NEW s \in Subs, ~Stripped(s), row[s].state = "published"
               PROVE  row[s].shape = Offered(s) /\ Whole(s, Offered(s))
      BY DEF UnstrippedIsWhole
  <2>1. nature[s] \in {"report", "plain"}
        BY DEF BaseInv, TypeOK, Natures, Stripped
  <2>2. CASE nature[s] = "report"
        BY <2>2, WholeFacts DEF BaseInv, ReportInv, Offered
  <2>3. CASE nature[s] = "plain"
        BY <2>3 DEF BaseInv, PlainInv, Offered
  <2>4. QED
        BY <2>1, <2>2, <2>3
<1>2. QED
      BY <1>1, BaseAlways, PTL

\* Every published row serves the archive it should: as sent, rewritten where
\* the payload was stripped, none for a report.  For a stripped upload this
\* needs its runs not to overlap.
THEOREM PublishedAlways ==
  ASSUME ~SlowRuns, ~Overlap
  PROVE  Spec => []PublishedIsWhole
<1>1. Init => IInv
      BY Init0
<1>2. IInv /\ [Next]_vars => IInv'
      BY TypeStep, RoleStep, FreshStep, GoingStep, ReportStep, PlainStep, PathStep, OneRunStep,
         RewriteStep DEF BaseInv, IInv
<1>3. IInv => PublishedIsWhole
  <2> SUFFICES ASSUME IInv, NEW s \in Subs, row[s].state = "published"
               PROVE  row[s].shape = Offered(s) /\ Whole(s, Offered(s))
      BY DEF PublishedIsWhole
  <2>1. nature[s] \in Natures
        BY DEF IInv, BaseInv, TypeOK
  <2>2. CASE nature[s] = "report"
        BY <2>2, WholeFacts DEF IInv, BaseInv, ReportInv, Offered
  <2>3. CASE nature[s] = "plain"
        BY <2>3 DEF IInv, BaseInv, PlainInv, Offered
  <2>4. CASE Stripped(s)
        BY <2>4 DEF IInv, RewriteInv, Offered, Stripped
  <2>5. QED
        BY <2>1, <2>2, <2>3, <2>4 DEF Natures, Stripped
<1>4. QED
      BY <1>1, <1>2, <1>3, PTL DEF Spec
=============================================================================
