--------------------------- MODULE CommunityData ---------------------------
(***************************************************************************)
(* The community data service (services/community-data) and the collector  *)
(* that uploads to it (scripts/collect_submit.py).                         *)
(*                                                                         *)
(* A collector probes, initiates, sends the missing chunks and completes;  *)
(* after any failure it is run again from the start.  The service is one   *)
(* program per invocation over a shared database: every statement is       *)
(* atomic, a batch is one transaction, and between two statements any      *)
(* other invocation may run.  An invocation may die between any two.  The  *)
(* hourly timer rebuilds the two cached indexes and removes uploads that   *)
(* were left alone for a week.                                             *)
(*                                                                         *)
(* The content of a chunk is the archive it is a piece of: the one the     *)
(* collector sent (raw) or the one rewritten after personal data was       *)
(* stripped from the payload (clean).  Both are split at fixed places, so  *)
(* a piece and its index determine its hash.  Validation, proof of work    *)
(* and the strip itself are left out: they touch no shared state.          *)
(***************************************************************************)
EXTENDS Naturals, FiniteSets

CONSTANTS Subs,         \* archives and reports, named by their content hash
          NoSub,        \* none of them
          Clients,      \* collectors
          Wants,        \* what each collector uploads
          Orphans,      \* places for invocations whose collector gave up
          Readers,      \* readers of the cached index
          Timer,        \* the cron invocation
          Pieces,       \* chunks of an archive as sent
          CleanPieces,  \* chunks of it once rewritten
          Overlap,      \* may two runs for one stripped upload overlap?
          SlowRuns,     \* may a week pass in the middle of a run?
          MaxKills,     \* bound on invocations that die
          MaxGiveUps    \* bound on collectors that stop waiting

Invocations == Clients \cup Orphans \cup Readers \cup {Timer}

ASSUME PartsAssumption ==
  /\ Wants \in [Clients -> Subs] /\ NoSub \notin Subs
  /\ Clients \cap Orphans = {} /\ Readers \cap (Clients \cup Orphans) = {}
  /\ Timer \notin Clients \cup Orphans \cup Readers

ASSUME BoundsAssumption ==
  /\ Pieces \in Nat \ {0} /\ CleanPieces \in Nat \ {0}
  /\ MaxKills \in Nat /\ MaxGiveUps \in Nat
  /\ Overlap \in BOOLEAN /\ SlowRuns \in BOOLEAN

VARIABLES nature,   \* what a submission is; never changes
          row,      \* its row in submissions
          chunks,   \* its rows in chunks, by index
          index,    \* the submissions listed in each cached response
          inv,      \* the invocations in the service
          client,   \* the collectors
          kills, giveUps

dbVars == <<row, chunks, index>>
faultVars == <<kills, giveUps>>
vars == <<nature, dbVars, inv, client, faultVars>>

Natures == {"report", "plain", "stripped", "unfixable"}
Shapes == {"none", "raw", "clean"}
Count == [none |-> 0, raw |-> Pieces, clean |-> CleanPieces]
Places == {i \in 0 .. Pieces + CleanPieces : i < Pieces \/ i < CleanPieces}
Keys == {"results", "dataset"}
Unbuilt == [built |-> FALSE, subs |-> {}]
Ops == {"initiate", "chunk", "complete", "bulk", "timer"}

NoRow == [state |-> "absent", shape |-> "none", stale |-> FALSE]
Idle == [op |-> "none", sub |-> NoSub, at |-> "none", idx |-> 0,
         shape |-> "none", snap |-> {}]

\* pii_redacted: the payload was stripped when the row was made.
Stripped(s) == nature[s] \in {"stripped", "unfixable"}

\* The archive an initiate call declares.
Declared(s) == IF nature[s] = "report" THEN "none" ELSE "raw"

\* The stored chunks are exactly one archive, in order.
Whole(s, form) ==
  \A i \in Places : chunks[s][i] = IF i < Count[form] THEN form ELSE "none"

Empty(s) == \A i \in Places : chunks[s][i] = "none"

\* sanitizeArchiveBlob: only a complete archive can be unpacked; some cannot
\* be rewritten.  Rewriting a rewritten archive changes nothing.
Sanitizes(s) == \/ Whole(s, "clean")
                \/ Whole(s, "raw") /\ nature[s] # "unfixable"

At(v, place) == inv[v].at = place
Goto(v, place) == inv' = [inv EXCEPT ![v].at = place]

-----------------------------------------------------------------------------
(* The collector.                                                          *)

Restarted == [stage |-> "probe", todo |-> {}]
Uploading(todo) == [stage |-> IF todo = {} THEN "complete" ELSE "chunk", todo |-> todo]
Finished == [stage |-> "done", todo |-> {}]

\* An answer ends the invocation; the collector, if one waits, reads it.
Answer(v, state) ==
  /\ inv' = [inv EXCEPT ![v] = Idle]
  /\ client' = IF v \in Clients THEN [client EXCEPT ![v] = state] ELSE client

\* Every refusal makes the collector raise; it is run again later.
Refuse(v) == Answer(v, Restarted)

\* Nothing is under way for a submission.
Quiet(s) ==
  /\ \A v \in Invocations : inv[v].sub # s
  /\ \A c \in Clients : Wants[c] = s => client[c].stage \in {"probe", "done"}

\* A run starts with the dedup probe, one read of the row (getPublished).
Probe(c) ==
  /\ client[c].stage = "probe" /\ inv[c] = Idle
  /\ Overlap \/ ~Stripped(Wants[c]) \/ Quiet(Wants[c])
  /\ client' = [client EXCEPT ![c] =
       IF row[Wants[c]].state = "published" THEN Finished
       ELSE [stage |-> "initiate", todo |-> {}]]
  /\ UNCHANGED <<nature, dbVars, inv, faultVars>>

\* Chunks go up in the order the service listed them.
NextPiece(c) == IF client[c].stage # "chunk" THEN {0}
                ELSE {i \in client[c].todo : \A j \in client[c].todo : i <= j}

Send(c) ==
  /\ client[c].stage \in {"initiate", "chunk", "complete"} /\ inv[c] = Idle
  /\ \E i \in NextPiece(c) :
       inv' = [inv EXCEPT ![c] = [Idle EXCEPT !.op = client[c].stage, !.sub = Wants[c],
                                             !.at = "row", !.idx = i]]
  /\ UNCHANGED <<nature, dbVars, client, faultVars>>

\* A timeout, or the user's interrupt: the invocation goes on without it.
GiveUp(c, o) ==
  /\ inv[c] # Idle /\ inv[o] = Idle /\ giveUps < MaxGiveUps
  /\ inv' = [inv EXCEPT ![c] = Idle, ![o] = inv[c]]
  /\ client' = [client EXCEPT ![c] = Restarted]
  /\ giveUps' = giveUps + 1
  /\ UNCHANGED <<nature, dbVars, kills>>

\* A statement fails, or the invocation is stopped by the platform.
Kill(v) ==
  /\ inv[v] # Idle /\ kills < MaxKills
  /\ kills' = kills + 1
  /\ Refuse(v)
  /\ UNCHANGED <<nature, dbVars, giveUps>>

-----------------------------------------------------------------------------
(* handleInitiate: read the row, touch it or insert it, list what misses.  *)

\* Mutant of InitiateLook: the row is refreshed before it is compared.
InitiateLookRefreshes(v) ==
  LET s == inv[v].sub IN
  /\ inv[v].op = "initiate" /\ At(v, "row")
  /\ row' = IF row[s].state = "incomplete" THEN [row EXCEPT ![s].stale = FALSE] ELSE row
  /\ \/ row[s].state = "published" /\ Answer(v, Finished)
     \/ row[s].state = "incomplete" /\ row[s].shape # Declared(s) /\ Refuse(v)
     \/ /\ row[s].state = "incomplete" /\ row[s].shape = Declared(s)
        /\ Goto(v, "missing") /\ UNCHANGED client
     \/ row[s].state = "absent" /\ Goto(v, "insert") /\ UNCHANGED client
  /\ UNCHANGED <<nature, chunks, index, faultVars>>

InitiateLook(v) ==
  LET s == inv[v].sub IN
  /\ inv[v].op = "initiate" /\ At(v, "row")
  /\ \/ row[s].state = "published" /\ Answer(v, Finished)
     \/ row[s].state = "incomplete" /\ row[s].shape # Declared(s) /\ Refuse(v)
     \/ /\ row[s].state = "incomplete" /\ row[s].shape = Declared(s)
        /\ Goto(v, "touch") /\ UNCHANGED client
     \/ row[s].state = "absent" /\ Goto(v, "insert") /\ UNCHANGED client
  /\ UNCHANGED <<nature, dbVars, faultVars>>

Touch(v) ==
  LET s == inv[v].sub IN
  /\ At(v, "touch")
  /\ row' = IF row[s].state = "incomplete" THEN [row EXCEPT ![s].stale = FALSE] ELSE row
  /\ Goto(v, "missing")
  /\ UNCHANGED <<nature, chunks, index, client, faultVars>>

Insert(v) ==
  LET s == inv[v].sub IN
  /\ At(v, "insert")
  /\ row' = IF row[s].state # "absent" THEN row
            ELSE [row EXCEPT ![s] = [state |-> IF nature[s] = "report" THEN "published"
                                               ELSE "incomplete",
                                     shape |-> Declared(s), stale |-> FALSE]]
  /\ Goto(v, "reread")
  /\ UNCHANGED <<nature, chunks, index, client, faultVars>>

Reread(v) ==
  LET s == inv[v].sub IN
  /\ At(v, "reread")
  /\ \/ row[s].state = "absent" /\ Refuse(v)
     \/ row[s].state = "incomplete" /\ Goto(v, "missing") /\ UNCHANGED client
     \/ row[s].state = "published" /\ Goto(v, "select") /\ UNCHANGED client
  /\ UNCHANGED <<nature, dbVars, faultVars>>

\* missingChunks: of the archive the request declared.  The collector uses
\* the list of the initiate call only.
Missing(v) ==
  LET s == inv[v].sub
      missing == {i \in Places : i < Count[Declared(s)] /\ chunks[s][i] = "none"} IN
  /\ At(v, "missing")
  /\ IF inv[v].op = "initiate" THEN Answer(v, Uploading(missing))
     ELSE Answer(v, Uploading(IF v \in Clients THEN client[v].todo \ {inv[v].idx} ELSE {}))
  /\ UNCHANGED <<nature, dbVars, faultVars>>

-----------------------------------------------------------------------------
(* handleChunk: read the row, receive and check the bytes, store them.     *)

\* The body is received after the row was read; a raw piece fits a row that
\* declares the raw archive and no other.
ChunkLook(v) ==
  LET r == row[inv[v].sub] IN
  /\ inv[v].op = "chunk" /\ At(v, "row")
  /\ IF r.state = "incomplete" /\ r.shape = "raw" /\ inv[v].idx < Count[r.shape]
     THEN Goto(v, "put") /\ UNCHANGED client
     ELSE Refuse(v)
  /\ UNCHANGED <<nature, dbVars, faultVars>>

PutChunk(v) ==
  LET s == inv[v].sub
      i == inv[v].idx IN
  /\ At(v, "put")
  /\ IF chunks[s][i] = "none"
     THEN chunks' = [chunks EXCEPT ![s][i] = "raw"] /\ Goto(v, "missing")
     ELSE Goto(v, "compare") /\ UNCHANGED chunks
  /\ UNCHANGED <<nature, row, index, client, faultVars>>

Compare(v) ==
  /\ At(v, "compare")
  /\ IF chunks[inv[v].sub][inv[v].idx] = "raw"
     THEN Goto(v, "missing") /\ UNCHANGED client
     ELSE Refuse(v)
  /\ UNCHANGED <<nature, dbVars, faultVars>>

-----------------------------------------------------------------------------
(* handleComplete: rewrite the archive of a stripped submission, check     *)
(* what is stored against what is declared, publish, rebuild the indexes.  *)

CompleteLook(v) ==
  LET s == inv[v].sub IN
  /\ inv[v].op = "complete" /\ At(v, "row")
  /\ Goto(v, IF row[s].state # "absent" /\ Stripped(s) THEN "blob" ELSE "check")
  /\ UNCHANGED <<nature, dbVars, client, faultVars>>

ReadBlob(v) ==
  LET s == inv[v].sub IN
  /\ At(v, "blob")
  /\ Goto(v, IF Empty(s) THEN "check" ELSE IF Sanitizes(s) THEN "replace" ELSE "withhold")
  /\ UNCHANGED <<nature, dbVars, client, faultVars>>

\* One batch: the old chunks go and the row declares the new ones.
DropArchive(s, shape) ==
  /\ chunks' = [chunks EXCEPT ![s] = [i \in Places |-> "none"]]
  /\ row' = IF row[s].state = "absent" THEN row ELSE [row EXCEPT ![s].shape = shape]

Replace(v) ==
  /\ At(v, "replace")
  /\ DropArchive(inv[v].sub, "clean")
  /\ inv' = [inv EXCEPT ![v].at = "write", ![v].idx = 0]
  /\ UNCHANGED <<nature, index, client, faultVars>>

\* The new chunks follow one by one.
WriteClean(v) ==
  LET s == inv[v].sub
      i == inv[v].idx IN
  /\ At(v, "write")
  /\ chunks' = IF chunks[s][i] # "none" THEN chunks ELSE [chunks EXCEPT ![s][i] = "clean"]
  /\ inv' = IF i + 1 < CleanPieces THEN [inv EXCEPT ![v].idx = i + 1]
            ELSE [inv EXCEPT ![v].at = "check"]
  /\ UNCHANGED <<nature, row, index, client, faultVars>>

Withhold(v) ==
  /\ At(v, "withhold")
  /\ DropArchive(inv[v].sub, "none")
  /\ Goto(v, "check")
  /\ UNCHANGED <<nature, index, client, faultVars>>

\* completeSubmission reads the row again ...
Check(v) ==
  LET r == row[inv[v].sub] IN
  /\ At(v, "check")
  /\ \/ r.state = "absent" /\ Refuse(v)
     \/ r.state = "published" /\ Goto(v, "select") /\ UNCHANGED client
     \/ r.state = "incomplete" /\ r.shape = "none" /\ Refuse(v)
     \/ /\ r.state = "incomplete" /\ r.shape # "none"
        /\ inv' = [inv EXCEPT ![v].at = "verify", ![v].shape = r.shape]
        /\ UNCHANGED client
  /\ UNCHANGED <<nature, dbVars, faultVars>>

\* ... then the stored hashes: none missing, none that is not declared ...
Verify(v) ==
  /\ At(v, "verify")
  /\ IF Whole(inv[v].sub, inv[v].shape) THEN Goto(v, "publish") /\ UNCHANGED client
     ELSE Refuse(v)
  /\ UNCHANGED <<nature, dbVars, faultVars>>

\* ... then publishes whatever the row is by now.
Publish(v) ==
  LET s == inv[v].sub IN
  /\ At(v, "publish")
  /\ row' = IF row[s].state = "absent" THEN row ELSE [row EXCEPT ![s].state = "published"]
  /\ Goto(v, "select")
  /\ UNCHANGED <<nature, chunks, index, client, faultVars>>

-----------------------------------------------------------------------------
(* rebuildCaches: one query, then one batch for each index.                *)

SelectPublished(v) ==
  /\ At(v, "select")
  /\ inv' = [inv EXCEPT ![v].at = "results",
                        ![v].snap = {s \in Subs : row[s].state = "published"}]
  /\ UNCHANGED <<nature, dbVars, client, faultVars>>

SaveCache(v, key) == index' = [index EXCEPT ![key] = [built |-> TRUE, subs |-> inv[v].snap]]

SaveResults(v) ==
  /\ At(v, "results")
  /\ SaveCache(v, "results")
  /\ Goto(v, "dataset")
  /\ UNCHANGED <<nature, row, chunks, client, faultVars>>

SaveDataset(v) ==
  /\ At(v, "dataset")
  /\ SaveCache(v, "dataset")
  /\ \/ inv[v].op = "timer" /\ Goto(v, "gcChunks") /\ UNCHANGED client
     \/ inv[v].op # "timer" /\ Answer(v, Finished)
  /\ UNCHANGED <<nature, row, chunks, faultVars>>

\* serveCache: an index that was never built is built by its first reader.
BulkRead(v) ==
  /\ inv[v] = Idle
  /\ \E key \in Keys : ~index[key].built
  /\ inv' = [inv EXCEPT ![v] = [Idle EXCEPT !.op = "bulk", !.at = "select"]]
  /\ UNCHANGED <<nature, dbVars, client, faultVars>>

-----------------------------------------------------------------------------
(* scheduled: rebuild the indexes, then gcStale in two statements.         *)

\* Mutant of Tick: the timer only collects.
TickCollects ==
  /\ inv[Timer] = Idle
  /\ inv' = [inv EXCEPT ![Timer] = [Idle EXCEPT !.op = "timer", !.at = "gcChunks"]]
  /\ UNCHANGED <<nature, dbVars, client, faultVars>>

Tick ==
  /\ inv[Timer] = Idle
  /\ inv' = [inv EXCEPT ![Timer] = [Idle EXCEPT !.op = "timer", !.at = "select"]]
  /\ UNCHANGED <<nature, dbVars, client, faultVars>>

Expired(s) == row[s].state = "incomplete" /\ row[s].stale

\* Mutant of GcChunks: the chunks of every unfinished upload.
GcChunksUnchecked ==
  /\ At(Timer, "gcChunks")
  /\ chunks' = [s \in Subs |-> IF row[s].state = "incomplete" THEN [i \in Places |-> "none"]
                              ELSE chunks[s]]
  /\ Goto(Timer, "gcRows")
  /\ UNCHANGED <<nature, row, index, client, faultVars>>

GcChunks ==
  /\ At(Timer, "gcChunks")
  /\ chunks' = [s \in Subs |-> IF Expired(s) THEN [i \in Places |-> "none"] ELSE chunks[s]]
  /\ Goto(Timer, "gcRows")
  /\ UNCHANGED <<nature, row, index, client, faultVars>>

\* Mutant of GcRows: the row of every unfinished upload.
GcRowsUnchecked ==
  /\ At(Timer, "gcRows")
  /\ row' = [s \in Subs |-> IF row[s].state = "incomplete" THEN NoRow ELSE row[s]]
  /\ inv' = [inv EXCEPT ![Timer] = Idle]
  /\ UNCHANGED <<nature, chunks, index, client, faultVars>>

GcRows ==
  /\ At(Timer, "gcRows")
  /\ row' = [s \in Subs |-> IF Expired(s) THEN NoRow ELSE row[s]]
  /\ inv' = [inv EXCEPT ![Timer] = Idle]
  /\ UNCHANGED <<nature, chunks, index, client, faultVars>>

\* A run is under way once its initiate call has refreshed the row.
InRun(s) ==
  \/ \E c \in Clients : Wants[c] = s /\ client[c].stage \in {"chunk", "complete"}
  \/ \E v \in Invocations : inv[v].sub = s /\ inv[v].at \notin {"row", "touch"}
  \/ \E v \in Invocations : inv[v].sub = s /\ inv[v].op \in {"chunk", "complete"}

\* A week passes.  A run takes minutes, unless SlowRuns.
Age(s) ==
  /\ row[s].state = "incomplete" /\ ~row[s].stale
  /\ SlowRuns \/ ~InRun(s)
  /\ row' = [row EXCEPT ![s].stale = TRUE]
  /\ UNCHANGED <<nature, chunks, index, inv, client, faultVars>>

-----------------------------------------------------------------------------
Init ==
  /\ nature \in [Subs -> Natures]
  /\ row = [s \in Subs |-> NoRow]
  /\ chunks = [s \in Subs |-> [i \in Places |-> "none"]]
  /\ index = [key \in Keys |-> Unbuilt]
  /\ inv = [v \in Invocations |-> Idle]
  /\ client = [c \in Clients |-> Restarted]
  /\ kills = 0 /\ giveUps = 0

Serve(v) ==
  \/ InitiateLook(v) \/ Touch(v) \/ Insert(v) \/ Reread(v) \/ Missing(v)
  \/ ChunkLook(v) \/ PutChunk(v) \/ Compare(v)
  \/ CompleteLook(v) \/ ReadBlob(v) \/ Replace(v) \/ WriteClean(v) \/ Withhold(v)
  \/ Check(v) \/ Verify(v) \/ Publish(v)
  \/ SelectPublished(v) \/ SaveResults(v) \/ SaveDataset(v)

Cron == Tick \/ GcChunks \/ GcRows
Run(c) == Probe(c) \/ Send(c)

Next ==
  \/ \E c \in Clients : Run(c) \/ \E o \in Orphans : GiveUp(c, o)
  \/ \E v \in Invocations : Serve(v) \/ Kill(v)
  \/ \E v \in Readers : BulkRead(v)
  \/ Cron
  \/ \E s \in Subs : Age(s)

Spec == Init /\ [][Next]_vars

\* An invocation that is not killed runs to its end, the timer fires every
\* hour, weeks pass, and a collector that was told to is run again.
Fairness ==
  /\ \A v \in Invocations : WF_vars(Serve(v))
  /\ \A c \in Clients : WF_vars(Run(c))
  /\ WF_vars(Cron)
  /\ \A s \in Subs : WF_vars(Age(s))

LiveSpec == Spec /\ Fairness

-----------------------------------------------------------------------------
(* Properties.                                                             *)

Stages == {"none", "row", "touch", "insert", "reread", "missing", "put", "compare",
           "blob", "replace", "write", "withhold", "check", "verify", "publish",
           "select", "results", "dataset", "gcChunks", "gcRows"}

Invocation == [op : Ops \cup {"none"}, sub : Subs \cup {NoSub}, at : Stages,
               idx : Nat, shape : Shapes, snap : SUBSET Subs]

Collector == [stage : {"probe", "initiate", "chunk", "complete", "done"},
              todo : SUBSET Places]

Row == [state : {"absent", "incomplete", "published"}, shape : Shapes, stale : BOOLEAN]

TypeOK ==
  /\ nature \in [Subs -> Natures]
  /\ row \in [Subs -> Row]
  /\ chunks \in [Subs -> [Places -> Shapes]]
  /\ index \in [Keys -> [built : BOOLEAN, subs : SUBSET Subs]]
  /\ inv \in [Invocations -> Invocation]
  /\ client \in [Clients -> Collector]
  /\ kills \in Nat /\ giveUps \in Nat

\* What a published row serves under its archive route.
Offered(s) == CASE nature[s] = "report" -> "none" [] nature[s] = "plain" -> "raw"
                [] OTHER -> "clean"

\* "Publishes when every chunk is present and every stored hash matches"
\* (README of the service), and only what was stripped where the payload was:
\* a published row declares the archive it should, and exactly that archive is
\* stored, whatever uploads, rewrites, kills and collections crossed.
PublishedIsWhole ==
  \A s \in Subs : row[s].state = "published" =>
                    row[s].shape = Offered(s) /\ Whole(s, Offered(s))

\* A collector that was given a receipt has a published row behind it: the
\* UPDATE of complete did not meet a row that was collected meanwhile, and no
\* later collection removes it.
ReceiptIsTrue ==
  \A c \in Clients : client[c].stage = "done" => row[Wants[c]].state = "published"

\* "re-run to resume": whatever died, timed out or was left half rewritten, a
\* collector that is run again and again has its upload published, unless the
\* archive cannot be rewritten.
UploadSettles ==
  \A s \in {Wants[c] : c \in Clients} :
    <>(row[s].state = "published" \/ nature[s] = "unfixable")

\* Every published row ends up in both indexes for good, although an older
\* rebuild may be saved after a newer one and a rebuild may die between them.
IndexSettles ==
  <>[](\A s \in Subs : row[s].state = "published" =>
                         \A key \in Keys : s \in index[key].subs)

\* "The cleaned summary is still stored" (archive_sanitize.ts:24): an upload
\* whose archive is withheld is published without it.  It never is.
WithheldIsPublished ==
  \A s \in {Wants[c] : c \in Clients} : <>(row[s].state = "published")
=============================================================================
