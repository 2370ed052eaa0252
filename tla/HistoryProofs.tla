--------------------------- MODULE HistoryProofs ---------------------------
(***************************************************************************)
(* What the conversation store keeps: nothing on disk that is not to be    *)
(* saved, a selection that a restart accepts, less than a checkpoint lost  *)
(* in a crash, silence after a cancel; and that the client reads every     *)
(* text of its turn in order, and a "done" that is on disk: for any        *)
(* number of turns, events and crashes.                                    *)
(***************************************************************************)
EXTENDS History, TLAPS

-----------------------------------------------------------------------------
\* The inductive invariant

TurnsOf(r) == {r.messages[k].turn : k \in 1 .. Len(r.messages)}

\* Two records with the same replies, as far as whose they are.
Alike(r, s) ==
    /\ Len(r.messages) = Len(s.messages)
    /\ \A k \in 1 .. Len(r.messages) : r.messages[k].turn = s.messages[k].turn

Distinct(r) ==
    \A k, l \in 1 .. Len(r.messages) : r.messages[k].turn = r.messages[l].turn => k = l

\* The active turn's reply is the last one.
Opened(r) ==
    r.active # NoTurn =>
        r.messages # <<>> /\ r.messages[Len(r.messages)].turn = r.active

\* The selection is of turns the conversation has.
Good(r) ==
    /\ r \in Record
    /\ Distinct(r) /\ Opened(r)
    /\ r.selected \subseteq TurnsOf(r) /\ ~r.context_error

Known(S) == \A t \in S : job[t] # "idle"

StoreInv ==
    /\ record \in Record \cup {Gone} /\ file \in Record \cup {NoFile}
    /\ job \in [Turns -> JobState] /\ cancelled \subseteq Turns
    /\ pending \in Nat /\ faults \in Nat
    /\ record # Gone => Good(record) /\ Known(TurnsOf(record))
    /\ file # NoFile => Good(file) /\ Known(TurnsOf(file))
    /\ Known(cancelled)
    /\ NothingKeptUnlessSaved

\* No text of s is more than p ahead of the text of r.
Behind(r, s, p) ==
    \A k \in 1 .. Len(r.messages) : s.messages[k].text <= r.messages[k].text + p

LossInv ==
    faults = 0 =>
        /\ pending < Checkpoint
        /\ file # NoFile => Alike(file, record) /\ Behind(file, record, pending)

-----------------------------------------------------------------------------
\* What the operators on a record do

\* The replies of a record are typed.
LEMMA MessageFacts ==
    ASSUME NEW r \in Record
    PROVE  \A k \in 1 .. Len(r.messages) :
              /\ r.messages[k] \in Message
              /\ r.messages[k].turn \in Turns /\ r.messages[k].text \in Nat
<1>1. r.messages \in Seq(Message)
      BY DEF Record
<1>2. \A k \in 1 .. Len(r.messages) : r.messages[k] \in Message
      BY <1>1
<1>3. QED
      BY <1>2 DEF Message

\* A record after an event: one more text in the last reply, or none.
LEMMA LoggedFacts ==
    ASSUME NEW r \in Record, NEW type, type = "text" => r.messages # <<>>
    PROVE  /\ Logged(r, type) \in Record
           /\ Logged(r, type).active = r.active /\ Logged(r, type).save = r.save
           /\ Logged(r, type).selected = r.selected
           /\ Logged(r, type).context_error = r.context_error
           /\ Logged(r, type).sequence = r.sequence + 1
           /\ Alike(r, Logged(r, type))
           /\ \A k \in 1 .. Len(r.messages) :
                Logged(r, type).messages[k].status = r.messages[k].status
           /\ \A k \in 1 .. Len(r.messages) : type # "text" \/ k # Len(r.messages) =>
                Logged(r, type).messages[k] = r.messages[k]
           /\ \A k \in 1 .. Len(r.messages) :
                Logged(r, type).messages[k].text =
                    r.messages[k].text + (IF type = "text" /\ k = Len(r.messages) THEN 1 ELSE 0)
<1>1. r.messages \in Seq(Message) /\ r.sequence \in Nat
      BY DEF Record
<1> DEFINE q == r.sequence + 1
<1>a. q \in Nat
      BY <1>1
<1>b. \A k \in 1 .. Len(r.messages) : r.messages[k] \in Message
      BY <1>1
<1>2. CASE type # "text"
  <2>1. Logged(r, type) = [r EXCEPT !.sequence = q]
        BY <1>2 DEF Logged, Record
  <2>2. \A k \in 1 .. Len(r.messages) : r.messages[k].text \in Nat
        BY <1>b DEF Message
  <2> HIDE DEF q
  <2>3. /\ Logged(r, type) \in Record /\ Logged(r, type).messages = r.messages
        /\ Logged(r, type).active = r.active /\ Logged(r, type).save = r.save
        /\ Logged(r, type).selected = r.selected
        /\ Logged(r, type).context_error = r.context_error
        /\ Logged(r, type).sequence = q
        BY <1>a, <2>1 DEF Record
  <2>4. QED
        BY <1>1, <1>2, <2>2, <2>3 DEF Alike, q
<1>3. CASE type = "text"
  <2> DEFINE m == r.messages
             n == [m EXCEPT ![Len(m)].text = @ + 1]
  <2>1. Logged(r, type) = [r EXCEPT !.sequence = q, !.messages = n]
    <3>1. Logged(r, type) = [r EXCEPT !.sequence = q,
                                      !.messages = IF type = "text" THEN n ELSE m]
          BY DEF Logged
    <3> HIDE DEF m, n, q
    <3>2. QED
          BY <1>3, <3>1
  <2>2. m # <<>> /\ Len(m) \in 1 .. Len(m)
        BY <1>1, <1>3
  <2>3. m[Len(m)] \in Message
        BY <1>1, <2>2
  <2>4. [m[Len(m)] EXCEPT !.text = @ + 1] \in Message
        BY <2>3 DEF Message
  <2>5. n = [m EXCEPT ![Len(m)] = [m[Len(m)] EXCEPT !.text = @ + 1]]
        OBVIOUS
  <2>6. n \in Seq(Message) /\ Len(n) = Len(m)
        BY <1>1, <2>2, <2>4, <2>5
  <2>7. \A k \in 1 .. Len(m) :
            /\ n[k].turn = m[k].turn /\ n[k].status = m[k].status
            /\ k # Len(m) => n[k] = m[k]
            /\ n[k].text = m[k].text + (IF k = Len(m) THEN 1 ELSE 0)
    <3> SUFFICES ASSUME NEW k \in 1 .. Len(m)
                 PROVE /\ n[k].turn = m[k].turn /\ n[k].status = m[k].status
                       /\ k # Len(m) => n[k] = m[k]
                       /\ n[k].text = m[k].text + (IF k = Len(m) THEN 1 ELSE 0)
          OBVIOUS
    <3>1. m[k] \in Message
          BY <1>1
    <3>2. CASE k = Len(m)
          BY <1>1, <2>2, <2>3, <2>5, <3>2 DEF Message
    <3>3. CASE k # Len(m)
      <4>1. n[k] = m[k]
            BY <1>1, <2>5, <3>3
      <4>2. QED
            BY <3>1, <3>3, <4>1 DEF Message
    <3>4. QED
          BY <3>2, <3>3
  <2> HIDE DEF n, q
  <2>8. /\ Logged(r, type) \in Record /\ Logged(r, type).messages = n
        /\ Logged(r, type).active = r.active /\ Logged(r, type).save = r.save
        /\ Logged(r, type).selected = r.selected
        /\ Logged(r, type).context_error = r.context_error
        /\ Logged(r, type).sequence = q
        BY <1>1, <1>a, <2>1, <2>6 DEF Record
  <2>9. QED
        BY <1>3, <2>6, <2>7, <2>8 DEF Alike, q
<1>4. QED
      BY <1>2, <1>3

\* Closing the last reply changes its status only.
LEMMA ClosedFacts ==
    ASSUME NEW r \in Record, r.messages # <<>>, NEW s \in {"complete", "stopped"}
    PROVE  LET c == [r EXCEPT !.messages[Len(r.messages)].status = s]
           IN  /\ c \in Record
               /\ c.active = r.active /\ c.save = r.save /\ c.selected = r.selected
               /\ c.context_error = r.context_error /\ c.sequence = r.sequence
               /\ Alike(r, c)
               /\ \A k \in 1 .. Len(r.messages) : c.messages[k].text = r.messages[k].text
               /\ \A k \in 1 .. Len(r.messages) :
                     c.messages[k].status = (IF k = Len(r.messages) THEN s
                                             ELSE r.messages[k].status)
<1> DEFINE m == r.messages
           n == [m EXCEPT ![Len(m)].status = s]
           c == [r EXCEPT !.messages[Len(r.messages)].status = s]
<1>1. m \in Seq(Message) /\ m # <<>>
      BY DEF Record
<1>2. Len(m) \in 1 .. Len(m) /\ m[Len(m)] \in Message
      BY <1>1
<1>3. [m[Len(m)] EXCEPT !.status = s] \in Message
      BY <1>2 DEF Message
<1>4. n = [m EXCEPT ![Len(m)] = [m[Len(m)] EXCEPT !.status = s]]
      OBVIOUS
<1>5. n \in Seq(Message) /\ Len(n) = Len(m)
      BY <1>1, <1>2, <1>3, <1>4
<1>6. \A k \in 1 .. Len(m) :
        /\ n[k].turn = m[k].turn /\ n[k].text = m[k].text
        /\ n[k].status = (IF k = Len(m) THEN s ELSE m[k].status)
  <2> SUFFICES ASSUME NEW k \in 1 .. Len(m)
               PROVE /\ n[k].turn = m[k].turn /\ n[k].text = m[k].text
                     /\ n[k].status = (IF k = Len(m) THEN s ELSE m[k].status)
        OBVIOUS
  <2>1. CASE k = Len(m)
        BY <1>1, <1>2, <1>4, <2>1 DEF Message
  <2>2. CASE k # Len(m)
        BY <1>1, <1>4, <2>2
  <2>3. QED
        BY <2>1, <2>2
<1>7. c = [r EXCEPT !.messages = n]
      OBVIOUS
<1> HIDE DEF n, c
<1>8. /\ c \in Record /\ c.messages = n
      /\ c.active = r.active /\ c.save = r.save /\ c.selected = r.selected
      /\ c.context_error = r.context_error /\ c.sequence = r.sequence
      BY <1>5, <1>7 DEF Record
<1>9. QED
      BY <1>5, <1>6, <1>8 DEF Alike, c

\* What a restart makes of a file whose selection is of its own turns.
LEMMA LoadedFacts ==
    ASSUME NEW r \in Record, r.selected \subseteq TurnsOf(r)
    PROVE  /\ Loaded(r) \in Record
           /\ Loaded(r).active = NoTurn /\ Loaded(r).save
           /\ Loaded(r).selected = r.selected /\ ~Loaded(r).context_error
           /\ Alike(r, Loaded(r))
           /\ \A k \in 1 .. Len(r.messages) : Loaded(r).messages[k].text = r.messages[k].text
<1> DEFINE m == r.messages
           n == [i \in DOMAIN m |->
                   [m[i] EXCEPT !.status = IF @ = "streaming" THEN "stopped" ELSE @]]
           q == [r EXCEPT !.messages = n]
<1>1. m \in Seq(Message) /\ DOMAIN m = 1 .. Len(m)
      BY DEF Record
<1>2. \A k \in 1 .. Len(m) :
        /\ n[k] \in Message /\ n[k].turn = m[k].turn /\ n[k].text = m[k].text
        /\ n[k].status # "streaming"
  <2> SUFFICES ASSUME NEW k \in 1 .. Len(m)
               PROVE  /\ n[k] \in Message /\ n[k].turn = m[k].turn /\ n[k].text = m[k].text
                      /\ n[k].status # "streaming"
        OBVIOUS
  <2> DEFINE x == m[k]
  <2>1. x \in Message
        BY <1>1
  <2>2. n[k] = [x EXCEPT !.status = IF x.status = "streaming" THEN "stopped" ELSE x.status]
        BY <1>1
  <2> HIDE DEF n, x
  <2>3. /\ n[k] \in Message /\ n[k].turn = x.turn /\ n[k].text = x.text
        /\ n[k].status # "streaming"
        BY <2>1, <2>2 DEF Message
  <2>4. QED
        BY <2>3 DEF x
<1>3. n \in Seq(Message) /\ Len(n) = Len(m) /\ DOMAIN n = 1 .. Len(m)
  <2>1. n \in [1 .. Len(m) -> Message]
        BY <1>1, <1>2
  <2>2. Len(m) \in Nat
        BY <1>1
  <2> HIDE DEF n, m
  <2>3. QED
        BY <2>1, <2>2
<1> HIDE DEF n
<1>4. q.messages = n
      BY DEF Record
<1>5. Completed(q) = TurnsOf(r)
      BY <1>1, <1>2, <1>3, <1>4 DEF Completed, TurnsOf
<1>6. Loaded(r) = [r EXCEPT !.messages = n, !.active = NoTurn, !.save = TRUE,
                            !.selected = r.selected, !.context_error = FALSE]
      BY <1>5 DEF Loaded, n
<1>7. Loaded(r) \in Record /\ Loaded(r).messages = n
      BY <1>3, <1>6 DEF Record
<1>8. QED
      BY <1>2, <1>3, <1>6, <1>7 DEF Record, Alike

\* A record that differs from a good one in its texts and their state only.
LEMMA GoodFacts ==
    ASSUME NEW r, Good(r), NEW s \in Record, Alike(r, s),
           s.active \in {r.active, NoTurn}, s.selected = r.selected,
           s.context_error = r.context_error
    PROVE  Good(s) /\ TurnsOf(s) = TurnsOf(r)
<1>1. r.messages \in Seq(Message) /\ s.messages \in Seq(Message)
      BY DEF Good, Record
<1>2. TurnsOf(s) = TurnsOf(r)
      BY DEF Alike, TurnsOf
<1>3. Distinct(s)
      BY DEF Good, Distinct, Alike
<1>4. Opened(s)
  <2> SUFFICES ASSUME s.active # NoTurn
               PROVE  s.messages # <<>> /\ s.messages[Len(s.messages)].turn = s.active
        BY DEF Opened
  <2>1. s.active = r.active /\ r.messages # <<>> /\ r.messages[Len(r.messages)].turn = r.active
        BY DEF Good, Opened
  <2>2. Len(r.messages) \in 1 .. Len(r.messages) /\ Len(s.messages) = Len(r.messages)
        BY <1>1, <2>1 DEF Alike
  <2>3. s.messages # <<>>
        BY <1>1, <2>2
  <2>4. QED
        BY <2>1, <2>2, <2>3 DEF Alike
<1>5. QED
      BY <1>2, <1>3, <1>4 DEF Good

\* A turn that begins appends its reply and becomes the active one.
LEMMA BegunFacts ==
    ASSUME NEW r, Good(r), NEW t \in Turns, t \notin TurnsOf(r), NEW m \in Message, m.turn = t,
           NEW s \in Record, s.messages = Append(r.messages, m), s.active = t,
           s.selected = r.selected, s.context_error = r.context_error
    PROVE  /\ Good(s) /\ s.messages # <<>>
           /\ TurnsOf(s) = TurnsOf(r) \cup {t}
           /\ Len(s.messages) = Len(r.messages) + 1
           /\ \A k \in 1 .. Len(r.messages) : s.messages[k] = r.messages[k]
           /\ s.messages[Len(r.messages) + 1] = m
<1> DEFINE n == Append(r.messages, m)
<1>1. r \in Record /\ r.messages \in Seq(Message)
      BY DEF Good, Record
<1>2. /\ n \in Seq(Message) /\ n # <<>> /\ Len(n) = Len(r.messages) + 1
      /\ \A k \in 1 .. Len(r.messages) : n[k] = r.messages[k]
      /\ n[Len(r.messages) + 1] = m
      BY <1>1
<1>3. s.messages = n
      OBVIOUS
<1> HIDE DEF n
<1>4. \A k \in 1 .. Len(n) : k \in 1 .. Len(r.messages) \/ k = Len(r.messages) + 1
      BY <1>1, <1>2
<1>5. 1 .. Len(r.messages) \subseteq 1 .. Len(n) /\ Len(r.messages) + 1 \in 1 .. Len(n)
      BY <1>1, <1>2
<1>6. TurnsOf(s) = TurnsOf(r) \cup {t}
  <2>1. TurnsOf(s) = {n[k].turn : k \in 1 .. Len(n)}
        BY <1>3 DEF TurnsOf
  <2>2. TurnsOf(r) \cup {t} \subseteq {n[k].turn : k \in 1 .. Len(n)}
        BY <1>2, <1>5 DEF TurnsOf
  <2>3. {n[k].turn : k \in 1 .. Len(n)} \subseteq TurnsOf(r) \cup {t}
        BY <1>2, <1>4 DEF TurnsOf
  <2>4. QED
        BY <2>1, <2>2, <2>3
<1>7. Distinct(s)
  <2> SUFFICES ASSUME NEW k \in 1 .. Len(n), NEW l \in 1 .. Len(n), n[k].turn = n[l].turn
               PROVE  k = l
        BY <1>3 DEF Distinct
  <2>1. CASE k \in 1 .. Len(r.messages) /\ l \in 1 .. Len(r.messages)
        BY <1>2, <2>1 DEF Good, Distinct
  <2>2. CASE k \in 1 .. Len(r.messages) /\ l = Len(r.messages) + 1
        BY <1>2, <2>2 DEF TurnsOf
  <2>3. CASE k = Len(r.messages) + 1 /\ l \in 1 .. Len(r.messages)
        BY <1>2, <2>3 DEF TurnsOf
  <2>4. QED
        BY <1>4, <2>1, <2>2, <2>3
<1>8. Opened(s)
      BY <1>2, <1>3 DEF Opened
<1>9. Good(s)
      BY <1>3, <1>6, <1>7, <1>8 DEF Good
<1>10. QED
      BY <1>2, <1>3, <1>6, <1>9

-----------------------------------------------------------------------------
\* A step

IInv == StoreInv /\ LossInv

\* What a step has to show about the record and the file it leaves.
LEMMA StoreFrom ==
    ASSUME StoreInv, record # Gone,
           Good(record'),
           file' \in {file, NoFile} \/ (Good(file') /\ TurnsOf(file') = TurnsOf(record')),
           \/ record'.save \/ file' = NoFile
           \/ record'.save = record.save /\ file' = file,
           job' \in [Turns -> JobState], \A t \in Turns : job'[t] = "idle" => job[t] = "idle",
           \A t \in TurnsOf(record') : t \in TurnsOf(record) \/ job'[t] # "idle",
           cancelled' \subseteq Turns,
           \A t \in cancelled' : t \in cancelled \/ job'[t] # "idle",
           pending' \in Nat, faults' \in Nat
    PROVE  StoreInv'
<1>1. \A r \in Record : TurnsOf(r) \subseteq Turns
  <2> SUFFICES ASSUME NEW r \in Record, NEW k \in 1 .. Len(r.messages)
               PROVE  r.messages[k].turn \in Turns
        BY DEF TurnsOf
  <2>1. QED
        BY MessageFacts
<1>2. record' \in Record /\ record \in Record
      BY DEF Good, StoreInv
<1>3. \A t \in TurnsOf(record') : job'[t] # "idle"
  <2>1. \A t \in TurnsOf(record) : job'[t] # "idle"
        BY <1>1, <1>2 DEF StoreInv, Known
  <2>2. QED
        BY <2>1
<1>4. file' # NoFile => Good(file') /\ \A t \in TurnsOf(file') : job'[t] # "idle"
  <2>1. CASE file' = file
    <3>1. file # NoFile => file \in Record /\ Good(file) /\ \A t \in TurnsOf(file) : job[t] # "idle"
          BY DEF StoreInv, Known, Good
    <3>2. QED
          BY <1>1, <2>1, <3>1
  <2>2. CASE Good(file') /\ TurnsOf(file') = TurnsOf(record')
        BY <1>3, <2>2
  <2>3. QED
        BY <2>1, <2>2
<1>5. record' # Gone
      BY <1>2, RecordAssumption
<1>6. NothingKeptUnlessSaved'
      BY <1>5 DEF StoreInv, NothingKeptUnlessSaved
<1>7. \A t \in cancelled' : job'[t] # "idle"
      BY DEF StoreInv, Known
<1>8. file' \in Record \cup {NoFile}
      BY <1>4 DEF Good, StoreInv
<1>9. QED
      BY <1>2, <1>3, <1>4, <1>6, <1>7, <1>8 DEF StoreInv, Known, TurnsOf, Good, Distinct, Opened

\* What a save and a checkpoint do to the file, and when they count as a fault.
LEMMA SaveFacts ==
    ASSUME StoreInv, NEW r, NEW p \in 0 .. 1
    PROVE  /\ Save(r) => /\ file' = (IF r.save THEN r ELSE file)
                         /\ pending' = 0 /\ faults' = faults
           /\ CheckpointOk(r, p) =>
                /\ faults' = faults
                /\ \/ file' = (IF r.save THEN r ELSE file) /\ pending' = 0
                   \/ file' = file /\ pending' = pending + p /\ pending' < Checkpoint
           /\ SaveRaises(r) => file' = file /\ faults' \in Nat /\ faults' # 0
           /\ CheckpointRaises(r, p) =>
                /\ file' = file /\ faults' \in Nat /\ faults' # 0
                /\ pending' = pending + p
<1>1. faults \in Nat /\ pending \in Nat
      BY DEF StoreInv
<1>2. QED
      BY <1>1 DEF Save, SaveRaises, CheckpointOk, CheckpointRaises

\* An event of the active turn, with its checkpoint.
LEMMA EmitKeeps ==
    ASSUME IInv, NEW t \in Turns, Takes(t), NEW type,
           NEW p \in 0 .. 1, p = (IF type = "text" THEN 1 ELSE 0),
           NEW r, r = Logged(record, type),
           record' = r \/ record' = [r EXCEPT !.active = NoTurn],
           CheckpointOk(r, p) \/ CheckpointRaises(r, p)
    PROVE  /\ record # Gone /\ record \in Record /\ Good(record) /\ r \in Record
           /\ Good(r) /\ TurnsOf(r) = TurnsOf(record) /\ r.save = record.save
           /\ Good(record') /\ TurnsOf(record') = TurnsOf(record)
           /\ record'.save = record.save /\ record'.messages = r.messages
           /\ file' = file \/ (r.save /\ file' = r)
           /\ pending' \in Nat /\ faults' \in Nat
           /\ LossInv'
<1>1. /\ record # Gone /\ record \in Record /\ Good(record)
      /\ record.active = t /\ t # NoTurn
      BY HistoryAssumption DEF IInv, StoreInv, Takes
<1>2. record.messages # <<>>
      BY <1>1 DEF Good, Opened
<1>3. /\ r \in Record /\ r.active = t /\ r.save = record.save
      /\ r.selected = record.selected /\ r.context_error = record.context_error
      /\ Alike(record, r)
      /\ \A k \in 1 .. Len(record.messages) :
            r.messages[k].text <= record.messages[k].text + p
  <2>1. \A k \in 1 .. Len(record.messages) : record.messages[k].text \in Nat
        BY <1>1, MessageFacts
  <2>2. QED
        BY <1>1, <1>2, <2>1, LoggedFacts
<1>4. Good(r) /\ TurnsOf(r) = TurnsOf(record)
      BY <1>1, <1>3, GoodFacts
<1>5. /\ record' \in Record /\ record'.messages = r.messages
      /\ record'.active \in {r.active, NoTurn} /\ record'.save = r.save
      /\ record'.selected = r.selected /\ record'.context_error = r.context_error
      BY <1>3 DEF Record
<1>6. Good(record') /\ TurnsOf(record') = TurnsOf(record)
  <2>1. Alike(r, record')
        BY <1>5 DEF Alike
  <2>2. QED
        BY <1>4, <1>5, <2>1, GoodFacts
<1>7. faults \in Nat /\ pending \in Nat
      BY DEF IInv, StoreInv
<1>8. /\ file' = file \/ (r.save /\ file' = r)
      /\ pending' \in Nat /\ faults' \in Nat
      BY <1>7, SaveFacts DEF IInv
<1>9. LossInv'
  <2> SUFFICES ASSUME faults' = 0
               PROVE  /\ pending' < Checkpoint
                      /\ file' # NoFile =>
                            Alike(file', record') /\ Behind(file', record', pending')
        BY DEF LossInv
  <2>1. CheckpointOk(r, p) /\ faults = 0
        BY SaveFacts DEF IInv
  <2>2. \/ file' = r /\ r.save /\ pending' = 0
        \/ file' = file /\ ~r.save /\ pending' = 0
        \/ file' = file /\ pending' = pending + p /\ pending' < Checkpoint
        BY <2>1, SaveFacts DEF IInv
  <2>3. CASE file' = r /\ pending' = 0
    <3>1. \A k \in 1 .. Len(r.messages) : r.messages[k].text \in Nat
          BY <1>3, MessageFacts
    <3>2. QED
          BY <1>5, <2>3, <3>1, HistoryAssumption DEF Alike, Behind
  <2>4. CASE file' = file /\ ~r.save /\ pending' = 0
    <3>1. file = NoFile
          BY <1>3, <2>4 DEF IInv, StoreInv, NothingKeptUnlessSaved
    <3>2. QED
          BY <2>4, <3>1, HistoryAssumption
  <2>5. CASE file' = file /\ pending' = pending + p /\ pending' < Checkpoint
    <3> SUFFICES ASSUME file # NoFile
                 PROVE  Alike(file, record') /\ Behind(file, record', pending + p)
          BY <2>5
    <3>1. Alike(file, record) /\ Behind(file, record, pending)
          BY <2>1 DEF IInv, LossInv
    <3>2. Alike(file, record')
          BY <1>3, <1>5, <3>1 DEF Alike
    <3>3. file \in Record
          BY DEF IInv, StoreInv
    <3>4. \A k \in 1 .. Len(file.messages) :
            file.messages[k].text \in Nat /\ record.messages[k].text \in Nat
            /\ record'.messages[k].text \in Nat
          BY <1>1, <1>5, <3>1, <3>2, <3>3, MessageFacts DEF Alike
    <3>5. Behind(file, record', pending + p)
      <4> SUFFICES ASSUME NEW k \in 1 .. Len(file.messages)
                   PROVE  record'.messages[k].text <= file.messages[k].text + (pending + p)
            BY DEF Behind
      <4>1. record.messages[k].text <= file.messages[k].text + pending
            BY <3>1 DEF Behind
      <4>2. record'.messages[k].text <= record.messages[k].text + p
            BY <1>3, <1>5, <3>1 DEF Alike
      <4>3. QED
            BY <1>7, <3>4, <4>1, <4>2
    <3>6. QED
          BY <3>2, <3>5
  <2>6. QED
        BY <2>2, <2>3, <2>4, <2>5
<1>10. QED
      BY <1>1, <1>3, <1>4, <1>5, <1>6, <1>8, <1>9

\* A thread that goes on has been started.
LEMMA MovedFacts ==
    ASSUME StoreInv, NEW t \in Turns, NEW to \in JobState \ {"idle"}, Moved(t, to)
    PROVE  /\ job' \in [Turns -> JobState] /\ job'[t] = to
           /\ \A u \in Turns : job'[u] = "idle" => job[u] = "idle"
BY DEF StoreInv, Moved

\* A step that leaves the store alone.
LEMMA StoreSame ==
    ASSUME IInv, UNCHANGED storeVars, UNCHANGED faults,
           job' \in [Turns -> JobState], \A t \in Turns : job'[t] = "idle" => job[t] = "idle"
    PROVE  IInv'
<1>1. /\ record' = record /\ file' = file /\ cancelled' = cancelled
      /\ pending' = pending /\ faults' = faults
      BY DEF storeVars
<1>2. StoreInv'
  <2>1. CASE record # Gone
        BY <1>1, <2>1, StoreFrom DEF IInv, StoreInv
  <2>2. CASE record = Gone
    <3>1. file = NoFile
          BY <2>2 DEF IInv, StoreInv, NothingKeptUnlessSaved
    <3>2. Known(cancelled)'
          BY <1>1 DEF IInv, StoreInv, Known
    <3>3. QED
          BY <1>1, <2>2, <3>1, <3>2 DEF IInv, StoreInv, NothingKeptUnlessSaved
  <2>3. QED
        BY <2>1, <2>2
<1>3. LossInv'
      BY <1>1 DEF IInv, LossInv, Alike, Behind
<1>4. QED
      BY <1>2, <1>3 DEF IInv

LEMMA BeginKeeps ==
    ASSUME IInv, NEW t \in Turns, Begin(t)
    PROVE  IInv'
<1> DEFINE m == [turn |-> t, status |-> "streaming", text |-> 0]
           r == [record EXCEPT !.messages = Append(record.messages, m), !.active = t]
<1>1. /\ record # Gone /\ record \in Record /\ Good(record) /\ m \in Message /\ m.turn = t
      /\ job[t] = "idle" /\ cancelled' = cancelled
      BY DEF Begin, IInv, StoreInv, Message
<1>2. t \notin TurnsOf(record)
      BY <1>1 DEF IInv, StoreInv, Known
<1>3. /\ Good(r) /\ r.save = record.save /\ r.messages # <<>>
      /\ TurnsOf(r) = TurnsOf(record) \cup {t}
  <2> DEFINE n == Append(record.messages, m)
  <2>1. n \in Seq(Message)
        BY <1>1 DEF Record
  <2> HIDE DEF n
  <2>2. /\ r \in Record /\ r.messages = n /\ r.active = t /\ r.save = record.save
        /\ r.selected = record.selected /\ r.context_error = record.context_error
    <3>1. r = [record EXCEPT !.messages = n, !.active = t]
          BY DEF n
    <3> HIDE DEF r
    <3>2. QED
          BY <1>1, <2>1, <3>1 DEF Record
  <2> HIDE DEF m, r
  <2>3. r.messages = Append(record.messages, m)
        BY <2>2 DEF n
  <2>4. QED
        BY <1>1, <1>2, <2>2, <2>3, BegunFacts
<1>4. \/ /\ Save(r) /\ record' = Logged(r, "status") /\ Moved(t, "run")
      \/ /\ SaveRaises(r) /\ record' = r /\ Moved(t, "refused") /\ UNCHANGED pending
      BY DEF Begin
<1> HIDE DEF r, m
<1>5. /\ job' \in [Turns -> JobState] /\ job'[t] # "idle"
      /\ \A u \in Turns : job'[u] = "idle" => job[u] = "idle"
      BY <1>4, MovedFacts DEF IInv, JobState
<1>6. r \in Record
      BY <1>3 DEF Good
<1>7. CASE Save(r) /\ record' = Logged(r, "status")
  <2>1. /\ record' \in Record /\ Alike(r, record') /\ record'.active = r.active
        /\ record'.save = r.save /\ record'.selected = r.selected
        /\ record'.context_error = r.context_error
        /\ \A k \in 1 .. Len(r.messages) : record'.messages[k].text = r.messages[k].text
    <3>1. \A k \in 1 .. Len(r.messages) : r.messages[k].text \in Nat
          BY <1>6, MessageFacts
    <3>2. QED
          BY <1>6, <1>7, <3>1, LoggedFacts
  <2>2. Good(record') /\ TurnsOf(record') = TurnsOf(r)
        BY <1>3, <2>1, GoodFacts
  <2>3. file' = (IF r.save THEN r ELSE file) /\ pending' = 0 /\ faults' = faults
        BY <1>7, SaveFacts DEF IInv
  <2>4. StoreInv'
        BY <1>1, <1>3, <1>5, <2>1, <2>2, <2>3, StoreFrom DEF IInv, StoreInv
  <2>5. ~r.save => file = NoFile
        BY <1>3 DEF IInv, StoreInv, NothingKeptUnlessSaved
  <2>6. file' # NoFile => file' = r
        BY <2>3, <2>5
  <2>7. Behind(r, record', 0)
        BY <1>6, <2>1, MessageFacts DEF Behind
  <2>8. LossInv'
        BY <2>1, <2>3, <2>6, <2>7, HistoryAssumption DEF LossInv
  <2>9. QED
        BY <2>4, <2>8 DEF IInv
<1>8. CASE SaveRaises(r) /\ record' = r /\ UNCHANGED pending
  <2>1. file' = file /\ faults' \in Nat /\ faults' # 0
        BY <1>8, SaveFacts DEF IInv
  <2>2. StoreInv'
        BY <1>1, <1>3, <1>5, <1>8, <2>1, StoreFrom DEF IInv, StoreInv
  <2>3. QED
        BY <2>1, <2>2 DEF IInv, LossInv
<1>9. QED
      BY <1>4, <1>7, <1>8

\* A step that emits one event for the active turn and goes on.
LEMMA EmitStep ==
    ASSUME IInv, NEW t \in Turns, Takes(t), NEW type,
           NEW p \in 0 .. 1, p = (IF type = "text" THEN 1 ELSE 0),
           record' = Logged(record, type),
           CheckpointOk(record', p) \/ CheckpointRaises(record', p),
           job' \in [Turns -> JobState], \A u \in Turns : job'[u] = "idle" => job[u] = "idle",
           UNCHANGED cancelled
    PROVE  IInv'
<1> DEFINE r == Logged(record, type)
<1>1. CheckpointOk(r, p) \/ CheckpointRaises(r, p)
      BY DEF CheckpointOk, CheckpointRaises, Save, SaveRaises
<1> HIDE DEF r
<1>2. record' = r /\ r = Logged(record, type)
      BY DEF r
<1>3. /\ record # Gone /\ Good(record') /\ TurnsOf(record') = TurnsOf(record)
      /\ record'.save = record.save /\ (file' = file \/ (r.save /\ file' = r))
      /\ pending' \in Nat /\ faults' \in Nat /\ LossInv'
      BY <1>1, <1>2, EmitKeeps
<1>4. StoreInv'
      BY <1>2, <1>3, StoreFrom DEF IInv, StoreInv
<1>5. QED
      BY <1>3, <1>4 DEF IInv

LEMMA EmitTextKeeps ==
    ASSUME IInv, NEW t \in Turns, EmitText(t)
    PROVE  IInv'
<1>1. /\ job' \in [Turns -> JobState] /\ UNCHANGED cancelled
      /\ \A u \in Turns : job'[u] = "idle" => job[u] = "idle"
      BY MovedFacts DEF EmitText, IInv, StoreInv, JobState, storeVars
<1>2. CASE Takes(t)
      BY <1>1, <1>2, EmitStep DEF EmitText
<1>3. CASE ~Takes(t)
      BY <1>1, <1>3, StoreSame DEF EmitText
<1>4. QED
      BY <1>2, <1>3

LEMMA EmitErrorKeeps ==
    ASSUME IInv, NEW t \in Turns, EmitError(t)
    PROVE  IInv'
<1>1. /\ job' \in [Turns -> JobState] /\ UNCHANGED cancelled
      /\ \A u \in Turns : job'[u] = "idle" => job[u] = "idle"
      BY MovedFacts DEF EmitError, IInv, JobState
<1>2. CASE t \notin stopping /\ Takes(t)
      BY <1>1, <1>2, EmitStep DEF EmitError
<1>3. CASE ~(t \notin stopping /\ Takes(t))
      BY <1>1, <1>3, StoreSame DEF EmitError, storeVars
<1>4. QED
      BY <1>2, <1>3

LEMMA StopFailsKeeps ==
    ASSUME IInv, NEW t \in Turns, StopFails(t)
    PROVE  IInv'
<1>1. /\ job' \in [Turns -> JobState] /\ UNCHANGED cancelled
      /\ \A u \in Turns : job'[u] = "idle" => job[u] = "idle"
      BY MovedFacts DEF StopFails, IInv, JobState
<1>2. CASE Takes(t)
      BY <1>1, <1>2, EmitStep DEF StopFails
<1>3. CASE ~Takes(t)
      BY <1>1, <1>3, StoreSame DEF StopFails, storeVars
<1>4. QED
      BY <1>2, <1>3

LEMMA FinishKeeps ==
    ASSUME IInv, NEW t \in Turns, Finish(t)
    PROVE  IInv'
<1>1. /\ job' \in [Turns -> JobState]
      /\ \A u \in Turns : job'[u] = "idle" => job[u] = "idle"
      BY MovedFacts DEF Finish, IInv, JobState
<1>2. CASE record = Gone \/ record.active # t
      BY <1>1, <1>2, StoreSame DEF Finish
<1>3. CASE record # Gone /\ record.active = t
  <2> DEFINE status == IF t \in stopping \cup failed \cup cancelled THEN "stopped" ELSE "complete"
             closed == [record EXCEPT !.messages[Len(record.messages)].status = status]
             r == Logged(closed, "done")
             over == [r EXCEPT !.active = NoTurn]
  <2>1. /\ record \in Record /\ Good(record) /\ record.messages # <<>>
        /\ faults \in Nat /\ pending \in Nat
        BY <1>3, HistoryAssumption DEF IInv, StoreInv, Good, Opened
  <2>2. /\ cancelled' = cancelled \ {t}
        /\ \/ record' = over /\ Save(over)
           \/ /\ record' = over
              /\ r.save /\ faults < MaxFaults /\ faults' = faults + 1
              /\ \/ file' = r /\ pending' = 0
                 \/ UNCHANGED <<file, pending>>
           \/ record' = r /\ CheckpointRaises(r, 0)
        BY <1>3 DEF Finish
  <2>3. /\ closed \in Record
        /\ closed.active = record.active /\ closed.save = record.save
        /\ closed.selected = record.selected /\ closed.context_error = record.context_error
        /\ Alike(record, closed)
    <3>1. status \in {"complete", "stopped"}
          OBVIOUS
    <3> HIDE DEF status
    <3>2. QED
          BY <2>1, <3>1, ClosedFacts
  <2> HIDE DEF closed
  <2>4. Good(closed) /\ TurnsOf(closed) = TurnsOf(record)
        BY <2>1, <2>3, GoodFacts
  <2>5. /\ r \in Record /\ r.active = closed.active /\ r.save = closed.save
        /\ r.selected = closed.selected /\ r.context_error = closed.context_error
        /\ Alike(closed, r)
        BY <2>3, LoggedFacts
  <2> HIDE DEF r
  <2>6. Good(r) /\ TurnsOf(r) = TurnsOf(record)
        BY <2>4, <2>5, GoodFacts
  <2>7. /\ over \in Record /\ over.messages = r.messages /\ over.active = NoTurn
        /\ over.save = r.save /\ over.selected = r.selected
        /\ over.context_error = r.context_error
        BY <2>5 DEF Record
  <2> HIDE DEF over
  <2>8. Good(over) /\ TurnsOf(over) = TurnsOf(record)
    <3>1. Alike(r, over)
          BY <2>7 DEF Alike
    <3>2. QED
          BY <2>6, <2>7, <3>1, GoodFacts
  <2>9. CASE record' = over /\ Save(over)
    <3>1. file' = (IF over.save THEN over ELSE file) /\ pending' = 0 /\ faults' = faults
          BY <2>9, SaveFacts DEF IInv
    <3>2. StoreInv'
          BY <1>1, <1>3, <2>1, <2>2, <2>3, <2>5, <2>7, <2>8, <2>9, <3>1, StoreFrom
          DEF IInv, StoreInv
    <3>3. file' # NoFile => file' = record'
      <4>1. ~over.save => file = NoFile
            BY <2>3, <2>5, <2>7 DEF IInv, StoreInv, NothingKeptUnlessSaved
      <4>2. QED
            BY <2>9, <3>1, <4>1
    <3>4. Alike(over, over) /\ Behind(over, over, 0)
          BY <2>7, MessageFacts DEF Alike, Behind
    <3>5. LossInv'
          BY <2>9, <3>1, <3>3, <3>4, HistoryAssumption DEF LossInv
    <3>6. QED
          BY <3>2, <3>5 DEF IInv
  <2>10. CASE /\ record' = over /\ r.save /\ faults' = faults + 1
              /\ (file' = r /\ pending' = 0) \/ UNCHANGED <<file, pending>>
    <3>1. faults' \in Nat /\ faults' # 0 /\ pending' \in Nat
          BY <2>1, <2>10
    <3>2. StoreInv'
          BY <1>1, <1>3, <2>1, <2>2, <2>6, <2>7, <2>8, <2>10, <3>1, StoreFrom
          DEF IInv, StoreInv
    <3>3. QED
          BY <3>1, <3>2 DEF IInv, LossInv
  <2>11. CASE record' = r /\ CheckpointRaises(r, 0)
    <3>1. file' = file /\ faults' \in Nat /\ faults' # 0 /\ pending' = pending + 0
          BY <2>11, SaveFacts DEF IInv
    <3>2. StoreInv'
          BY <1>1, <1>3, <2>1, <2>2, <2>3, <2>5, <2>6, <2>11, <3>1, StoreFrom
          DEF IInv, StoreInv
    <3>3. QED
          BY <3>1, <3>2 DEF IInv, LossInv
  <2>12. QED
        BY <2>2, <2>9, <2>10, <2>11
<1>4. QED
      BY <1>2, <1>3

LEMMA CancelKeeps ==
    ASSUME IInv, NEW t \in Turns, Cancel(t)
    PROVE  IInv'
<1>1. /\ job' = job /\ job \in [Turns -> JobState] /\ job[t] # "idle"
      /\ record' = record
      BY DEF Cancel, IInv, StoreInv
<1>2. CASE ~(record # Gone /\ record.active = t)
      BY <1>1, <1>2, StoreSame DEF Cancel, storeVars
<1>3. CASE record # Gone /\ record.active = t
  <2>1. /\ Good(record) /\ record \in Record /\ faults \in Nat /\ pending \in Nat
        /\ cancelled' = cancelled \cup {t} /\ cancelled \subseteq Turns
        BY <1>3 DEF Cancel, IInv, StoreInv
  <2>2. CASE Save(record)
    <3>1. file' = (IF record.save THEN record ELSE file) /\ pending' = 0 /\ faults' = faults
          BY <2>2, SaveFacts DEF IInv
    <3>2. StoreInv'
          BY <1>1, <1>3, <2>1, <3>1, StoreFrom DEF IInv, StoreInv
    <3>3. file' # NoFile => file' = record
          BY <3>1 DEF IInv, StoreInv, NothingKeptUnlessSaved
    <3>4. Alike(record, record) /\ Behind(record, record, 0)
          BY <2>1, MessageFacts DEF Alike, Behind
    <3>5. LossInv'
          BY <1>1, <3>1, <3>3, <3>4, HistoryAssumption DEF LossInv
    <3>6. QED
          BY <3>2, <3>5 DEF IInv
  <2>3. CASE SaveRaises(record) /\ UNCHANGED pending
    <3>1. file' = file /\ faults' \in Nat /\ faults' # 0
          BY <2>3, SaveFacts DEF IInv
    <3>2. StoreInv'
          BY <1>1, <1>3, <2>1, <2>3, <3>1, StoreFrom DEF IInv, StoreInv
    <3>3. QED
          BY <3>1, <3>2 DEF IInv, LossInv
  <2>4. QED
        BY <1>3, <2>2, <2>3 DEF Cancel
<1>4. QED
      BY <1>2, <1>3

\* A request that changes the record's own fields, saved at once.
LEMMA RequestStep ==
    ASSUME IInv, record # Gone, Good(record'), record'.messages = record.messages,
           UNCHANGED <<job, cancelled>>,
           \/ Save(record')
           \/ SaveRaises(record') /\ UNCHANGED pending
           \/ file' = NoFile /\ UNCHANGED <<pending, faults>>,
           record'.save \/ file' = NoFile \/ (record'.save = record.save /\ file' = file)
    PROVE  IInv'
<1>1. /\ Good(record) /\ record' \in Record /\ faults \in Nat /\ pending \in Nat
      /\ job \in [Turns -> JobState] /\ cancelled \subseteq Turns
      /\ TurnsOf(record') = TurnsOf(record)
      BY DEF IInv, StoreInv, Good, TurnsOf
<1> DEFINE r == record'
<1>2. \/ file' = (IF r.save THEN r ELSE file) /\ pending' = 0 /\ faults' = faults
      \/ file' = file /\ faults' \in Nat /\ faults' # 0 /\ pending' = pending
      \/ file' = NoFile /\ pending' = pending /\ faults' = faults
      BY <1>1 DEF Save, SaveRaises
<1>3. StoreInv'
  <2>1. pending' \in Nat /\ faults' \in Nat
        BY <1>1, <1>2
  <2>2. file' \in {file, NoFile} \/ file' = record'
        BY <1>2
  <2>3. job' \in [Turns -> JobState] /\ cancelled' \subseteq Turns /\ job' = job
        /\ cancelled' = cancelled
        BY <1>1
  <2> HIDE DEF r
  <2>4. QED
        BY <1>1, <2>1, <2>2, <2>3, StoreFrom DEF IInv
<1>4. ~r.save => file' = NoFile
      BY <1>2 DEF IInv, StoreInv, NothingKeptUnlessSaved
<1>5. Alike(r, r) /\ Behind(r, r, 0)
      BY <1>1, MessageFacts DEF Alike, Behind
<1>6. LossInv'
      BY <1>2, <1>4, <1>5, HistoryAssumption DEF IInv, LossInv
<1>7. QED
      BY <1>3, <1>6 DEF IInv

LEMMA SetSavedKeeps ==
    ASSUME IInv, NEW save \in BOOLEAN, SetSaved(save)
    PROVE  IInv'
<1>1. /\ record # Gone /\ Good(record) /\ record \in Record
      /\ record' = [record EXCEPT !.save = save]
      /\ UNCHANGED <<job, cancelled>>
      BY DEF SetSaved, jobVars, IInv, StoreInv
<1>2. /\ record' \in Record /\ record'.messages = record.messages /\ record'.save = save
      /\ record'.active = record.active /\ record'.selected = record.selected
      /\ record'.context_error = record.context_error
      BY <1>1 DEF Record
<1>3. Good(record')
      BY <1>1, <1>2, GoodFacts DEF Alike
<1>4. /\ \/ Save(record')
         \/ SaveRaises(record') /\ UNCHANGED pending
         \/ file' = NoFile /\ UNCHANGED <<pending, faults>>
      /\ save \/ file' = NoFile
      BY DEF SetSaved
<1>5. QED
      BY <1>1, <1>2, <1>3, <1>4, RequestStep

LEMMA SetContextKeeps ==
    ASSUME IInv, NEW turns \in SUBSET Turns, SetContext(turns)
    PROVE  IInv'
<1>1. /\ record # Gone /\ Good(record) /\ record \in Record
      /\ record' = [record EXCEPT !.selected = turns, !.context_error = FALSE]
      /\ UNCHANGED <<job, cancelled>>
      /\ turns \subseteq Completed(record)
      BY DEF SetContext, jobVars, IInv, StoreInv
<1>2. /\ record' \in Record /\ record'.messages = record.messages
      /\ record'.save = record.save /\ record'.active = record.active
      /\ record'.selected = turns /\ ~record'.context_error
      BY <1>1 DEF Record
<1>3. Completed(record) \subseteq TurnsOf(record)
  <2>1. record.messages \in Seq(Message)
        BY <1>1 DEF Record
  <2>2. DOMAIN record.messages = 1 .. Len(record.messages)
        BY <2>1
  <2>3. QED
        BY <2>2 DEF Completed, TurnsOf
<1>4. Good(record')
      BY <1>1, <1>2, <1>3 DEF Good, Distinct, Opened, TurnsOf
<1>5. Save(record') \/ (SaveRaises(record') /\ UNCHANGED pending)
      BY DEF SetContext
<1>6. record'.save \/ file' = NoFile \/ (record'.save = record.save /\ file' = file)
      BY <1>2, <1>5 DEF Save, SaveRaises
<1>7. QED
      BY <1>1, <1>2, <1>4, <1>5, <1>6, RequestStep

LEMMA DeleteKeeps ==
    ASSUME IInv, Delete
    PROVE  IInv'
BY HistoryAssumption DEF Delete, jobVars, IInv, StoreInv, LossInv, NothingKeptUnlessSaved, Known

LEMMA CrashKeeps ==
    ASSUME IInv, Crash
    PROVE  IInv'
<1>1. /\ file' = file /\ faults' = faults /\ pending' = 0 /\ cancelled' = {}
      /\ record' = IF file = NoFile THEN Gone ELSE Loaded(file)
      /\ job' = [t \in Turns |-> IF job[t] = "idle" THEN "idle" ELSE "done"]
      BY DEF Crash
<1>2. /\ job' \in [Turns -> JobState]
      /\ \A t \in Turns : job'[t] = "idle" => job[t] = "idle"
      BY <1>1 DEF JobState
<1>3. CASE file = NoFile
      BY <1>1, <1>2, <1>3, HistoryAssumption
      DEF IInv, StoreInv, LossInv, NothingKeptUnlessSaved, Known
<1>4. CASE file # NoFile
  <2>1. file \in Record /\ Good(file) /\ \A t \in TurnsOf(file) : job[t] # "idle"
        BY <1>4 DEF IInv, StoreInv, Known
  <2>2. /\ record' \in Record /\ record'.active = NoTurn /\ record'.save
        /\ record'.selected = file.selected /\ ~record'.context_error
        /\ Alike(file, record')
        /\ \A k \in 1 .. Len(file.messages) :
              record'.messages[k].text = file.messages[k].text
        BY <1>1, <1>4, <2>1, LoadedFacts DEF Good
  <2>3. Good(record') /\ TurnsOf(record') = TurnsOf(file)
    <3>1. record'.context_error = file.context_error
          BY <2>1, <2>2 DEF Good, Record
    <3>2. QED
          BY <2>1, <2>2, <3>1, GoodFacts
  <2>4. TurnsOf(file) \subseteq Turns
        BY <2>1, MessageFacts DEF TurnsOf
  <2>5. Known(TurnsOf(file))' /\ Known(TurnsOf(record))' /\ Known(cancelled)'
        BY <1>1, <1>2, <2>1, <2>3, <2>4 DEF Known, TurnsOf
  <2>6. StoreInv'
    <3>1. Good(record)' /\ Good(file)'
          BY <1>1, <2>1, <2>3 DEF Good, Distinct, Opened, TurnsOf
    <3>2. NothingKeptUnlessSaved'
          BY <2>2, RecordAssumption DEF NothingKeptUnlessSaved
    <3>3. pending' \in Nat /\ faults' \in Nat /\ cancelled' \subseteq Turns
          BY <1>1 DEF IInv, StoreInv
    <3>4. record' \in Record \cup {Gone} /\ file' \in Record \cup {NoFile}
          BY <1>1, <2>1, <2>2
    <3>5. QED
          BY <1>2, <2>5, <3>1, <3>2, <3>3, <3>4 DEF StoreInv
  <2>7. LossInv'
        BY <1>1, <2>1, <2>2, MessageFacts, HistoryAssumption DEF LossInv, Behind, Alike
  <2>8. QED
        BY <2>6, <2>7 DEF IInv
<1>5. QED
      BY <1>3, <1>4

LEMMA QuietKeeps ==
    ASSUME IInv, NEW t \in Turns, Fails(t) \/ ReplyEnds(t) \/ Follow(t)
    PROVE  IInv'
<1>1. job \in [Turns -> JobState]
      BY DEF IInv, StoreInv
<1>2. CASE Fails(t) \/ ReplyEnds(t)
  <2>1. \/ Moved(t, "raise")
        \/ Moved(t, "release")
        BY <1>2 DEF Fails, ReplyEnds
  <2>2. UNCHANGED storeVars /\ UNCHANGED faults
        BY <1>2 DEF Fails, ReplyEnds
  <2>3. QED
        BY <2>1, <2>2, MovedFacts, StoreSame DEF IInv, JobState
<1>3. CASE Follow(t)
  <2>1. UNCHANGED storeVars /\ UNCHANGED faults /\ job' = job
        BY <1>3 DEF Follow, jobVars
  <2>2. QED
        BY <1>1, <2>1, StoreSame
<1>4. QED
      BY <1>2, <1>3

LEMMA InitInv == Init => IInv
<1> SUFFICES ASSUME Init PROVE IInv
      OBVIOUS
<1>1. PICK saved \in BOOLEAN :
        record = [messages |-> <<>>, active |-> NoTurn, sequence |-> 0,
                  save |-> saved, selected |-> {}, context_error |-> FALSE]
      BY DEF Init
<1>2. record \in Record /\ Len(record.messages) = 0 /\ record.active = NoTurn
      /\ record.save = saved /\ record.selected = {} /\ ~record.context_error
      BY <1>1 DEF Record
<1>3. Good(record) /\ TurnsOf(record) = {}
      BY <1>2 DEF Good, Distinct, Opened, TurnsOf
<1>4. /\ file = (IF record.save THEN record ELSE NoFile) /\ cancelled = {} /\ pending = 0
      /\ job \in [Turns -> JobState] /\ faults = 0
      BY DEF Init, JobState
<1>5. StoreInv
      BY <1>2, <1>3, <1>4, RecordAssumption DEF StoreInv, NothingKeptUnlessSaved, Known
<1>6. LossInv
      BY <1>2, <1>4, HistoryAssumption DEF LossInv, Alike, Behind
<1>7. QED
      BY <1>5, <1>6 DEF IInv

\* The invariant is inductive.
LEMMA Inductive == Spec => []IInv
<1>1. IInv /\ [Next]_vars => IInv'
  <2> SUFFICES ASSUME IInv, [Next]_vars PROVE IInv'
        OBVIOUS
  <2>1. ASSUME NEW t \in Turns,
               Begin(t) \/ EmitText(t) \/ TurnStep(t) \/ Cancel(t) \/ Follow(t)
        PROVE  IInv'
        BY <2>1, BeginKeeps, EmitTextKeeps, EmitErrorKeeps, StopFailsKeeps, FinishKeeps,
           CancelKeeps, QuietKeeps DEF TurnStep
  <2>2. ASSUME NEW save \in BOOLEAN, SetSaved(save) PROVE IInv'
        BY <2>2, SetSavedKeeps
  <2>3. ASSUME NEW turns \in SUBSET Turns, SetContext(turns) PROVE IInv'
        BY <2>3, SetContextKeeps
  <2>4. CASE Delete \/ Crash
        BY <2>4, DeleteKeeps, CrashKeeps
  <2>5. ASSUME ReaderStep \/ Receive \/ Break \/ UNCHANGED vars
        PROVE  IInv'
    <3>1. UNCHANGED storeVars /\ UNCHANGED faults /\ job' = job
          BY <2>5 DEF ReaderStep, OpenEvents, Fetch, CheckActive, Receive, Break, vars, jobVars
    <3>2. QED
          BY <3>1, StoreSame DEF IInv, StoreInv
  <2>6. QED
        BY <2>1, <2>2, <2>3, <2>4, <2>5 DEF Next
<1>2. QED
      BY InitInv, <1>1, PTL DEF Spec

-----------------------------------------------------------------------------
\* A turn's text in a record

\* Where a turn has a reply, its text is that reply's.
LEMMA TextsFound ==
    ASSUME NEW r \in Record, Distinct(r), NEW k \in 1 .. Len(r.messages)
    PROVE  Texts(r, r.messages[k].turn) = r.messages[k].text
<1> DEFINE t == r.messages[k].turn
           I == {i \in 1 .. Len(r.messages) : r.messages[i].turn = t}
<1>1. I = {k}
      BY DEF Distinct
<1>2. Min(I) = k
      BY <1>1 DEF Min
<1>3. SelectInSeq(r.messages, LAMBDA m : m.turn = t) = k
      BY <1>1, <1>2 DEF SelectInSeq
<1>4. k # 0
      OBVIOUS
<1>5. QED
      BY <1>3, <1>4 DEF Texts

\* A turn without a reply has no text.
LEMMA TextsNone ==
    ASSUME NEW r \in Record, NEW t, t \notin TurnsOf(r)
    PROVE  Texts(r, t) = 0
<1>1. {i \in 1 .. Len(r.messages) : r.messages[i].turn = t} = {}
      BY DEF TurnsOf
<1>2. SelectInSeq(r.messages, LAMBDA m : m.turn = t) = 0
      BY <1>1 DEF SelectInSeq
<1>3. QED
      BY <1>2 DEF Texts

\* Two records that agree on a turn's reply.
LEMMA SameTexts ==
    ASSUME NEW r \in Record, NEW s \in Record, Distinct(r), Distinct(s), NEW t,
           Len(r.messages) <= Len(s.messages),
           \A k \in 1 .. Len(r.messages) :
              /\ s.messages[k].turn = r.messages[k].turn
              /\ r.messages[k].turn = t => s.messages[k].text = r.messages[k].text,
           t \in TurnsOf(s) => t \in TurnsOf(r)
    PROVE  Texts(s, t) = Texts(r, t)
<1>1. CASE t \in TurnsOf(r)
  <2>1. PICK k \in 1 .. Len(r.messages) : r.messages[k].turn = t
        BY <1>1 DEF TurnsOf
  <2>2. k \in 1 .. Len(s.messages)
    <3>1. Len(r.messages) \in Nat /\ Len(s.messages) \in Nat
          BY DEF Record
    <3>2. QED
          BY <3>1
  <2>3. QED
        BY <2>1, <2>2, TextsFound
<1>2. CASE t \notin TurnsOf(r)
      BY <1>2, TextsNone
<1>3. QED
      BY <1>1, <1>2

\* An event of the active turn does not touch a cancelled turn's reply, nor any
\* reply unless it is a text.
LEMMA LoggedSilent ==
    ASSUME IInv, NEW t \in Turns, record # Gone, record.active = t,
           NEW type, type = "text" => t \notin cancelled,
           record' \in Record, record'.messages = Logged(record, type).messages,
           NEW u \in cancelled
    PROVE  Texts(record', u) = Texts(record, u)
<1>1. record \in Record /\ Good(record) /\ record.messages # <<>>
      /\ record.messages[Len(record.messages)].turn = t
      BY HistoryAssumption DEF IInv, StoreInv, Good, Opened
<1>2. /\ Len(record'.messages) = Len(record.messages)
      /\ \A k \in 1 .. Len(record.messages) :
            /\ record'.messages[k].turn = record.messages[k].turn
            /\ record.messages[k].turn = u =>
                  record'.messages[k].text = record.messages[k].text
  <2> DEFINE r == Logged(record, type)
  <2>1. /\ Alike(record, r)
        /\ \A k \in 1 .. Len(record.messages) :
              r.messages[k].text =
                 record.messages[k].text
                    + (IF type = "text" /\ k = Len(record.messages) THEN 1 ELSE 0)
        BY <1>1, LoggedFacts
  <2> HIDE DEF r
  <2>2. record'.messages = r.messages
        BY DEF r
  <2>3. ASSUME NEW k \in 1 .. Len(record.messages), record.messages[k].turn = u
        PROVE  record'.messages[k].text = record.messages[k].text
    <3>1. ~(type = "text" /\ k = Len(record.messages))
          BY <1>1, <2>3
    <3>2. record.messages[k].text \in Nat
          BY <1>1, MessageFacts
    <3>3. QED
          BY <2>1, <2>2, <3>1, <3>2
  <2>4. QED
        BY <2>1, <2>2, <2>3 DEF Alike
<1>3. TurnsOf(record') = TurnsOf(record)
      BY <1>2 DEF TurnsOf
<1>4. Distinct(record')
      BY <1>1, <1>2 DEF Good, Distinct
<1>5. Len(record.messages) <= Len(record'.messages)
  <2>1. Len(record.messages) \in Nat
        BY <1>1 DEF Record
  <2>2. QED
        BY <1>2, <2>1
<1>6. QED
      BY <1>1, <1>2, <1>3, <1>4, <1>5, SameTexts DEF Good

\* No step but a crash changes a cancelled turn's text.
LEMMA Silence ==
    ASSUME IInv, IInv', [Next]_vars, crashes \in Nat, crashes' = crashes,
           record # Gone, record' # Gone, NEW u \in cancelled
    PROVE  Texts(record', u) = Texts(record, u)
<1>1. record \in Record /\ Good(record) /\ record' \in Record /\ Good(record')
      BY DEF IInv, StoreInv
<1>2. ASSUME NEW t \in Turns, Begin(t) PROVE Texts(record', u) = Texts(record, u)
  <2> DEFINE m == [turn |-> t, status |-> "streaming", text |-> 0]
             n == Append(record.messages, m)
             r == [record EXCEPT !.messages = n, !.active = t]
  <2>1. record' = r \/ record' = Logged(r, "status")
        BY <1>2 DEF Begin
  <2>2. m \in Message /\ m.turn = t
        BY DEF Message
  <2> HIDE DEF m
  <2>3. record.messages \in Seq(Message) /\ n \in Seq(Message)
        /\ Len(n) = Len(record.messages) + 1 /\ n[Len(record.messages) + 1] = m
        /\ \A k \in 1 .. Len(record.messages) : n[k] = record.messages[k]
        BY <1>1, <2>2 DEF Record
  <2> HIDE DEF n
  <2>4. r \in Record /\ r.messages = n
        BY <1>1, <2>3 DEF Record
  <2> HIDE DEF r
  <2>5. /\ Len(record'.messages) = Len(n)
        /\ \A k \in 1 .. Len(n) : /\ record'.messages[k].turn = n[k].turn
                                  /\ record'.messages[k].text = n[k].text
    <3>1. CASE record' = r
          BY <2>4, <3>1
    <3>2. CASE record' = Logged(r, "status")
      <4>1. \A k \in 1 .. Len(r.messages) : r.messages[k].text \in Nat
            BY <2>4, MessageFacts
      <4>2. QED
            BY <2>4, <3>2, <4>1, LoggedFacts DEF Alike
    <3>3. QED
          BY <2>1, <3>1, <3>2
  <2>6. Len(record.messages) \in Nat /\ Len(record.messages) <= Len(record'.messages)
        BY <2>3, <2>5
  <2>7. \A k \in 1 .. Len(n) : k \in 1 .. Len(record.messages) \/ k = Len(record.messages) + 1
        BY <2>3
  <2>8. u # t
        BY <1>2 DEF Begin, IInv, StoreInv, Known
  <2>9. \A k \in 1 .. Len(record.messages) :
          /\ record'.messages[k].turn = record.messages[k].turn
          /\ record'.messages[k].text = record.messages[k].text
        BY <2>3, <2>5
  <2>10. u \in TurnsOf(record') => u \in TurnsOf(record)
    <3> SUFFICES ASSUME NEW k \in 1 .. Len(n), record'.messages[k].turn = u
                 PROVE  u \in TurnsOf(record)
          BY <2>5 DEF TurnsOf
    <3>1. k \in 1 .. Len(record.messages)
          BY <2>2, <2>3, <2>5, <2>7, <2>8
    <3>2. QED
          BY <2>9, <3>1 DEF TurnsOf
  <2>11. QED
        BY <1>1, <2>6, <2>9, <2>10, SameTexts DEF Good
<1>3. ASSUME NEW t \in Turns, NEW type, Takes(t), record' = Logged(record, type)
      PROVE  Texts(record', u) = Texts(record, u)
      BY <1>1, <1>3, LoggedSilent DEF Takes
<1>4. ASSUME NEW t \in Turns, Finish(t) PROVE Texts(record', u) = Texts(record, u)
  <2>1. CASE record.active # t
        BY <1>4, <2>1 DEF Finish, storeVars
  <2>2. CASE record.active = t
    <3> DEFINE status == IF t \in stopping \cup failed \cup cancelled THEN "stopped"
                         ELSE "complete"
               closed == [record EXCEPT !.messages[Len(record.messages)].status = status]
               r == Logged(closed, "done")
    <3>1. record' = r \/ record' = [r EXCEPT !.active = NoTurn]
          BY <1>4, <2>2 DEF Finish
    <3>2. record.messages # <<>> /\ status \in {"complete", "stopped"}
          BY <1>1, <2>2, HistoryAssumption DEF Good, Opened
    <3> HIDE DEF status
    <3>3. closed \in Record /\ Alike(record, closed)
          /\ \A k \in 1 .. Len(record.messages) :
                closed.messages[k].text = record.messages[k].text
          BY <1>1, <3>2, ClosedFacts
    <3> HIDE DEF closed
    <3>4. r \in Record /\ Alike(closed, r)
          /\ \A k \in 1 .. Len(closed.messages) : r.messages[k].text = closed.messages[k].text
      <4>1. \A k \in 1 .. Len(closed.messages) : closed.messages[k].text \in Nat
            BY <3>3, MessageFacts
      <4>2. QED
            BY <3>3, <4>1, LoggedFacts
    <3> HIDE DEF r
    <3>5. record'.messages = r.messages
          BY <3>1, <3>4 DEF Record
    <3>6. /\ Len(record'.messages) = Len(record.messages)
          /\ \A k \in 1 .. Len(record.messages) :
                /\ record'.messages[k].turn = record.messages[k].turn
                /\ record'.messages[k].text = record.messages[k].text
          BY <3>3, <3>4, <3>5 DEF Alike
    <3>7. TurnsOf(record') = TurnsOf(record)
          BY <3>6 DEF TurnsOf
    <3>8. Len(record.messages) \in Nat
          BY <1>1 DEF Record
    <3>9. QED
          BY <1>1, <3>6, <3>7, <3>8, SameTexts DEF Good
  <2>3. QED
        BY <2>1, <2>2
<1>5. ASSUME record'.messages = record.messages
      PROVE  Texts(record', u) = Texts(record, u)
      BY <1>5 DEF Texts
<1>6. ASSUME NEW t \in Turns,
             EmitText(t) \/ EmitError(t) \/ StopFails(t)
      PROVE  record' = record \/ \E type \in {"text", "error"} :
                                    Takes(t) /\ record' = Logged(record, type)
      BY <1>6 DEF EmitText, EmitError, StopFails, storeVars
<1>7. ASSUME NEW t \in Turns, Fails(t) \/ ReplyEnds(t) \/ Cancel(t) \/ Follow(t)
      PROVE  record' = record
      BY <1>7 DEF Fails, ReplyEnds, Cancel, Follow, storeVars
<1>8. ASSUME NEW save \in BOOLEAN, SetSaved(save) PROVE record'.messages = record.messages
  <2>1. record' = [record EXCEPT !.save = save]
        BY <1>8 DEF SetSaved
  <2>2. QED
        BY <1>1, <2>1 DEF Record
<1>9. ASSUME NEW turns \in SUBSET Turns, SetContext(turns)
      PROVE  record'.messages = record.messages
  <2>1. record' = [record EXCEPT !.selected = turns, !.context_error = FALSE]
        BY <1>9 DEF SetContext
  <2>2. QED
        BY <1>1, <2>1 DEF Record
<1>10. ~Delete /\ ~Crash
      BY DEF Delete, Crash
<1>11. ASSUME ReaderStep \/ Receive \/ Break \/ UNCHANGED vars
       PROVE  record' = record
       BY <1>11 DEF ReaderStep, OpenEvents, Fetch, CheckActive, Receive, Break, vars, storeVars
<1>12. QED
      BY <1>2, <1>3, <1>4, <1>5, <1>6, <1>7, <1>8, <1>9, <1>10, <1>11 DEF Next, TurnStep

\* Crashes are counted.
LEMMA CrashCount == Spec => [](crashes \in Nat)
<1>1. Init => crashes \in Nat
      BY DEF Init
<1>2. [Next]_vars => crashes' = crashes \/ crashes' = crashes + 1
      BY DEF Next, TurnStep, ReaderStep, Begin, EmitText, Fails, EmitError, ReplyEnds,
         StopFails, Finish, Cancel, SetSaved, SetContext, Delete, Crash, Follow, OpenEvents,
         Fetch, CheckActive, Receive, Break, vars
<1>3. crashes \in Nat /\ [Next]_vars => (crashes \in Nat)'
      BY <1>2
<1>4. QED
      BY <1>1, <1>3, PTL DEF Spec

-----------------------------------------------------------------------------
\* The client: the invariant

Alive == {"run", "raise", "release", "close"}
Started == Alive \cup {"done"}

\* What an event adds to the reply.
Gain(e) == IF e.type = "text" THEN 1 ELSE 0

\* The events the store still has, and those on their way to the client.
Events == {stream[i] : i \in 1 .. Len(stream)} \cup {inbox[i] : i \in 1 .. Len(inbox)}

\* The numbers of the events: the deque ends with the record's, what is on its way
\* follows the cursor.
FlowInv ==
    /\ stream \in Seq(Event) /\ Len(stream) <= Kept
    /\ inbox \in Seq(Event) /\ cursor \in Nat /\ shown \in Seq(Nat)
    /\ reader \in ReaderState
    /\ record = Gone => stream = <<>>
    /\ record # Gone =>
          \A i \in 1 .. Len(stream) : stream[i].sequence = record.sequence - Len(stream) + i
    /\ \A i \in 1 .. Len(inbox) : inbox[i].sequence = cursor + i
    /\ record # Gone => cursor + Len(inbox) <= record.sequence
    /\ inbox # <<>> => reader = "check" /\ (record # Gone => stream # <<>>)
    /\ reader = "lost" => shown = <<>>

\* The text an event carries: that of the reply it belongs to, one more with each
\* text, from nothing where a turn begins.
PairInv ==
    \A e, f \in Events :
       /\ e.sequence = f.sequence => e = f
       /\ f.sequence = e.sequence + 1 /\ f.turn = e.turn => f.text = e.text + Gain(f)
       /\ f.sequence = e.sequence + 1 /\ f.turn # e.turn => f.text = Gain(f)

\* The events of a turn are not interrupted by another's.
BlockInv ==
    \A e, f, g \in Events :
       e.sequence < f.sequence /\ f.sequence < g.sequence /\ e.turn = g.turn => f.turn = e.turn

EventInv ==
    \A e \in Events :
       /\ e.sequence >= 1
       /\ e.sequence = 1 => e.text = Gain(e)
       /\ job[e.turn] \in Started
       /\ e.type = "done" =>
             /\ job[e.turn] = "done"
             /\ record # Gone => e.text = Texts(record, e.turn) /\ e.turn \in Completed(record)

\* A turn's last event carries its reply as it is now; a turn that has begun has
\* an event in the deque, unless events have been dropped.
EndInv ==
    record # Gone =>
       /\ \A e \in Events :
             \/ e.sequence = record.sequence
             \/ \E f \in Events : f.sequence = e.sequence + 1 /\ f.turn # e.turn
             => e.text = Texts(record, e.turn)
       /\ stream # <<>> /\ record.active # NoTurn /\ job[record.active] \in Alive
             => stream[Len(stream)].turn = record.active
       /\ \A t \in Turns : job[t] \in Alive => record.sequence >= 1
       /\ reader # "lost" =>
             \A t \in Turns : job[t] \in Started =>
                /\ record.sequence >= 1
                /\ \/ \E i \in 1 .. Len(stream) : stream[i].turn = t
                   \/ stream = <<>>
                   \/ stream[1].sequence > 1

\* Nothing is dropped between what the client has, or was sent, and the deque.
Whole ==
    /\ record # Gone
    /\ stream = <<>> => cursor + Len(inbox) = record.sequence
    /\ stream # <<>> => cursor + Len(inbox) >= stream[1].sequence - 1

\* The client can get the event.
Ahead(e) ==
    /\ e.sequence > cursor
    /\ Whole \/ \E i \in 1 .. Len(inbox) : inbox[i] = e

\* No event of its turn comes between the cursor and this one.
Foremost(e) ==
    e.sequence = cursor + 1 \/ \E f \in Events : f.sequence + 1 = e.sequence /\ f.turn # e.turn

\* The client has printed the reply up to the cursor: the next event of its turn
\* goes on where it is, and if there is none it has the reply.
FollowInv ==
    reader \in {"closed", "fetch", "check"} =>
       /\ follows \in Turns /\ job[follows] \in Started
       /\ \A e \in Events : e.turn = follows /\ Ahead(e) /\ Foremost(e)
             => e.text = Len(shown) + Gain(e)
       /\ Whole /\ (\A e \in Events : e.sequence > cursor => e.turn # follows)
             => Len(shown) = Texts(record, follows)

ShownInv ==
    /\ \A i \in 1 .. Len(shown) : shown[i] = i
    /\ reader = "done" =>
          /\ follows \in Turns /\ job[follows] = "done"
          /\ record # Gone =>
                Len(shown) = Texts(record, follows) /\ follows \in Completed(record)

ReadInv ==
    /\ FlowInv /\ PairInv /\ BlockInv /\ EventInv /\ EndInv /\ FollowInv /\ ShownInv

-----------------------------------------------------------------------------
\* An event is added

\* The step adds the event of a turn that begins or is alive.
Adds(t, type) ==
    /\ record # Gone /\ record' # Gone
    /\ record.sequence \in Nat /\ record'.sequence = record.sequence + 1
    /\ Texts(record', t) \in Nat
    /\ stream' = Append(IF Len(stream) = Kept THEN Tail(stream) ELSE stream,
                        [sequence |-> record.sequence + 1, turn |-> t, type |-> type,
                         text |-> Texts(record', t)])
    /\ \A u \in Turns \ {t} : Texts(record', u) = Texts(record, u) /\ job'[u] = job[u]
    /\ Completed(record) \subseteq Completed(record')
    /\ record'.active \in {t, NoTurn} /\ job'[t] \in Started
    /\ \/ job[t] = "idle" /\ Texts(record', t) = 0 /\ type = "status"
       \/ /\ job[t] \in Alive /\ record.active = t
          /\ Texts(record', t) = Texts(record, t) + (IF type = "text" THEN 1 ELSE 0)
    /\ type = "done" => job'[t] = "done" /\ t \in Completed(record')
    /\ UNCHANGED readerVars

\* The deque with one more event: k of the old ones have fallen off.
LEMMA Appended ==
    ASSUME NEW s \in Seq(Event), NEW e \in Event, NEW n,
           n = Append(IF Len(s) = Kept THEN Tail(s) ELSE s, e), Len(s) <= Kept
    PROVE  \E k \in 0 .. 1 :
              /\ n \in Seq(Event) /\ n # <<>> /\ Len(n) = Len(s) + 1 - k /\ Len(n) <= Kept
              /\ k <= Len(s) /\ n[Len(n)] = e
              /\ \A i \in 1 .. Len(n) - 1 : n[i] = s[i + k]
<1>0. Kept \in Nat \ {0} /\ Len(s) \in Nat
      BY HistoryAssumption
<1>1. CASE Len(s) = Kept
  <2>1. s # <<>>
        BY <1>0, <1>1
  <2> DEFINE b == Tail(s)
  <2>2. b \in Seq(Event) /\ Len(b) = Len(s) - 1 /\ \A i \in 1 .. Len(b) : b[i] = s[i + 1]
        BY <1>0, <2>1
  <2>3. n = Append(b, e)
        BY <1>1
  <2> HIDE DEF b
  <2>4. /\ n \in Seq(Event) /\ n # <<>> /\ Len(n) = Len(s) /\ n[Len(n)] = e
        /\ \A i \in 1 .. Len(b) : n[i] = b[i]
        BY <1>0, <2>2, <2>3
  <2>5. QED
        BY <1>0, <1>1, <2>2, <2>4
<1>2. CASE Len(s) # Kept
  <2>1. n = Append(s, e)
        BY <1>2
  <2>2. /\ n \in Seq(Event) /\ n # <<>> /\ Len(n) = Len(s) + 1 /\ n[Len(n)] = e
        /\ \A i \in 1 .. Len(s) : n[i] = s[i]
        BY <1>0, <2>1
  <2>3. \A i \in 1 .. Len(n) - 1 : n[i] = s[i + 0]
        BY <1>0, <2>2
  <2>4. 0 \in 0 .. 1 /\ 0 <= Len(s) /\ Len(n) <= Kept /\ Len(n) = Len(s) + 1 - 0
        BY <1>0, <1>2, <2>2
  <2>5. QED
        BY <2>2, <2>3, <2>4
<1>3. QED
      BY <1>1, <1>2

\* What is known of the events, and of the last one in the deque.
LEMMA EventFacts ==
    ASSUME FlowInv, record # Gone => record.sequence \in Nat
    PROVE  /\ \A e \in Events : e \in Event /\ e.sequence \in Nat /\ e.text \in Nat /\ e.turn \in Turns
           /\ \A i \in 1 .. Len(stream) : stream[i] \in Events
           /\ \A i \in 1 .. Len(inbox) : inbox[i] \in Events
           /\ record # Gone => \A e \in Events : e.sequence <= record.sequence
           /\ record # Gone /\ Events # {} => stream # <<>>
           /\ stream # <<>> =>
                /\ Len(stream) \in 1 .. Len(stream) /\ 1 \in 1 .. Len(stream)
                /\ stream[Len(stream)] \in Events /\ stream[1] \in Events
                /\ record # Gone
                /\ stream[Len(stream)].sequence = record.sequence
<1>1. stream \in Seq(Event) /\ inbox \in Seq(Event) /\ cursor \in Nat
      BY DEF FlowInv
<1>2. /\ \A i \in 1 .. Len(stream) : stream[i] \in Event
      /\ \A i \in 1 .. Len(inbox) : inbox[i] \in Event
      BY <1>1
<1>3. \A e \in Events : e \in Event
      BY <1>2 DEF Events
<1>4. \A e \in Event : e.sequence \in Nat /\ e.text \in Nat /\ e.turn \in Turns
      BY DEF Event
<1>5. ASSUME record # Gone, NEW e \in Events PROVE e.sequence <= record.sequence
  <2>1. CASE \E i \in 1 .. Len(stream) : e = stream[i]
    <3>1. PICK i \in 1 .. Len(stream) : e = stream[i]
          BY <2>1
    <3>2. e.sequence = record.sequence - Len(stream) + i
          BY <1>5, <3>1 DEF FlowInv
    <3>3. QED
          BY <1>1, <1>5, <3>2
  <2>2. CASE \E i \in 1 .. Len(inbox) : e = inbox[i]
    <3>1. PICK i \in 1 .. Len(inbox) : e = inbox[i]
          BY <2>2
    <3>2. e.sequence = cursor + i /\ cursor + Len(inbox) <= record.sequence
          BY <1>5, <3>1 DEF FlowInv
    <3>3. QED
          BY <1>1, <1>5, <3>2
  <2>3. QED
        BY <1>5, <2>1, <2>2 DEF Events
<1>6. record # Gone /\ Events # {} => stream # <<>>
  <2>1. inbox = <<>> => 1 .. Len(inbox) = {}
        BY <1>1
  <2>2. stream = <<>> => 1 .. Len(stream) = {}
        BY <1>1
  <2>3. QED
        BY <2>1, <2>2 DEF Events, FlowInv
<1>7. stream # <<>> =>
         /\ Len(stream) \in 1 .. Len(stream) /\ 1 \in 1 .. Len(stream)
         /\ record # Gone
         /\ stream[Len(stream)].sequence = record.sequence
  <2> SUFFICES ASSUME stream # <<>>
               PROVE  /\ Len(stream) \in 1 .. Len(stream) /\ 1 \in 1 .. Len(stream)
                      /\ record # Gone
                      /\ stream[Len(stream)].sequence = record.sequence
        OBVIOUS
  <2>1. Len(stream) \in 1 .. Len(stream) /\ 1 \in 1 .. Len(stream) /\ Len(stream) \in Nat
        BY <1>1
  <2>2. record # Gone
        BY DEF FlowInv
  <2>3. stream[Len(stream)].sequence = record.sequence - Len(stream) + Len(stream)
        BY <2>1, <2>2 DEF FlowInv
  <2>4. QED
        BY <2>1, <2>2, <2>3
<1>8. QED
      BY <1>3, <1>4, <1>5, <1>6, <1>7 DEF Events

\* The events after one is added: the old ones, less one that may have fallen off
\* the deque, and the new one.
LEMMA AddsFacts ==
    ASSUME FlowInv, NEW t \in Turns, NEW type, type \in {"status", "text", "error", "done"},
           Adds(t, type)
    PROVE  \E e \in Event, k \in 0 .. 1 :
             /\ e.sequence = record.sequence + 1 /\ e.turn = t /\ e.type = type
             /\ e.text = Texts(record', t)
             /\ stream' \in Seq(Event) /\ stream' # <<>> /\ Len(stream') = Len(stream) + 1 - k
             /\ Len(stream') <= Kept /\ k <= Len(stream) /\ stream'[Len(stream')] = e
             /\ \A i \in 1 .. Len(stream') - 1 : stream'[i] = stream[i + k]
             /\ Events' \subseteq Events \cup {e} /\ e \in Events'
<1> DEFINE e == [sequence |-> record.sequence + 1, turn |-> t, type |-> type,
                 text |-> Texts(record', t)]
<1>1. e \in Event /\ e.sequence = record.sequence + 1 /\ e.turn = t /\ e.type = type
      /\ e.text = Texts(record', t)
      BY DEF Adds, Event
<1>2. stream' = Append(IF Len(stream) = Kept THEN Tail(stream) ELSE stream, e)
      BY DEF Adds
<1> HIDE DEF e
<1>3. stream \in Seq(Event) /\ Len(stream) <= Kept /\ Len(stream) \in Nat
      BY DEF FlowInv
<1>4. PICK k \in 0 .. 1 :
              /\ stream' \in Seq(Event) /\ stream' # <<>> /\ Len(stream') = Len(stream) + 1 - k
              /\ Len(stream') <= Kept /\ k <= Len(stream) /\ stream'[Len(stream')] = e
              /\ \A i \in 1 .. Len(stream') - 1 : stream'[i] = stream[i + k]
      BY <1>1, <1>2, <1>3, Appended
<1>5. inbox' = inbox
      BY DEF Adds, readerVars
<1>6. Events' = {stream'[i] : i \in 1 .. Len(stream')} \cup {inbox[i] : i \in 1 .. Len(inbox)}
      BY <1>5 DEF Events
<1>7. \A i \in 1 .. Len(stream') :
         i = Len(stream') \/ (i \in 1 .. Len(stream') - 1 /\ i + k \in 1 .. Len(stream))
      BY <1>3, <1>4
<1>8. Len(stream') \in 1 .. Len(stream')
      BY <1>3, <1>4
<1>9. \A i \in 1 .. Len(stream') : stream'[i] \in Events \cup {e}
      BY <1>4, <1>7 DEF Events
<1>10. Events' \subseteq Events \cup {e} /\ e \in Events'
      BY <1>4, <1>6, <1>8, <1>9 DEF Events
<1>11. QED
      BY <1>1, <1>4, <1>10

\* One more event: what a reply's text is, and what the client has, stay as they are.
LEMMA ReadAdds ==
    ASSUME ReadInv, NEW t \in Turns, NEW type, type \in {"status", "text", "error", "done"},
           Adds(t, type)
    PROVE  ReadInv'
<1>1. PICK e \in Event, k \in 0 .. 1 :
         /\ e.sequence = record.sequence + 1 /\ e.turn = t /\ e.type = type
         /\ e.text = Texts(record', t)
         /\ stream' \in Seq(Event) /\ stream' # <<>> /\ Len(stream') = Len(stream) + 1 - k
         /\ Len(stream') <= Kept /\ k <= Len(stream) /\ stream'[Len(stream')] = e
         /\ \A i \in 1 .. Len(stream') - 1 : stream'[i] = stream[i + k]
         /\ Events' \subseteq Events \cup {e} /\ e \in Events'
      BY AddsFacts DEF ReadInv
<1>2. /\ record # Gone /\ record' # Gone /\ record.sequence \in Nat
      /\ record'.sequence = record.sequence + 1
      /\ UNCHANGED readerVars
      /\ Len(stream) \in Nat /\ cursor \in Nat /\ Len(inbox) \in Nat /\ inbox \in Seq(Event)
      BY DEF Adds, ReadInv, FlowInv
<1>3. /\ \A x \in Events : x \in Event /\ x.sequence \in Nat /\ x.text \in Nat /\ x.turn \in Turns
      /\ \A i \in 1 .. Len(stream) : stream[i] \in Events
      /\ \A i \in 1 .. Len(inbox) : inbox[i] \in Events
      /\ \A x \in Events : x.sequence <= record.sequence
      /\ Events # {} => stream # <<>>
      /\ stream # <<>> =>
           /\ Len(stream) \in 1 .. Len(stream) /\ 1 \in 1 .. Len(stream)
           /\ stream[Len(stream)] \in Events /\ stream[1] \in Events
           /\ stream[Len(stream)].sequence = record.sequence
      BY <1>2, EventFacts DEF ReadInv
<1> DEFINE last == stream[Len(stream)]
<1>4. \A i \in 1 .. Len(stream') :
         i = Len(stream') \/ (i \in 1 .. Len(stream') - 1 /\ i + k \in 1 .. Len(stream))
      BY <1>1, <1>2
<1>5. e.sequence \in Nat /\ e.text \in Nat /\ \A x \in Events : x.sequence < e.sequence /\ x # e
  <2>1. e.sequence \in Nat /\ e.text \in Nat
        BY DEF Event
  <2>2. ASSUME NEW x \in Events PROVE x.sequence < e.sequence
    <3>1. x.sequence \in Nat /\ x.sequence <= record.sequence
          BY <1>3
    <3>2. QED
          BY <1>1, <1>2, <3>1
  <2>3. ASSUME NEW x \in Events PROVE x # e
    <3>1. x.sequence < e.sequence
          BY <2>2
    <3>2. QED
          BY <2>1, <3>1
  <2>4. QED
        BY <2>1, <2>2, <2>3
\* The last event in the deque is the turn's, if it is alive; else it has none.
<1>6. \/ /\ job[t] \in Alive /\ record.active = t /\ t # NoTurn
         /\ e.text = Texts(record, t) + Gain(e)
         /\ stream # <<>> => last.turn = t
      \/ /\ job[t] = "idle" /\ e.text = 0 /\ Gain(e) = 0
         /\ \A x \in Events : x.turn # t
  <2>1. CASE job[t] = "idle" /\ Texts(record', t) = 0 /\ type = "status"
        BY <1>1, <1>3, <2>1 DEF Gain, ReadInv, EventInv, Started, Alive
  <2>2. CASE /\ job[t] \in Alive /\ record.active = t
             /\ Texts(record', t) = Texts(record, t) + (IF type = "text" THEN 1 ELSE 0)
    <3>1. t # NoTurn
          BY HistoryAssumption
    <3>2. stream # <<>> => last.turn = t
          BY <1>2, <2>2, <3>1 DEF ReadInv, EndInv
    <3>3. QED
          BY <1>1, <2>2, <3>1, <3>2 DEF Gain
  <2>3. QED
        BY <2>1, <2>2 DEF Adds
\* An event with the record's number is the last one of the deque.
<1>7. \A x \in Events : x.sequence = record.sequence =>
         /\ stream # <<>> /\ x = last /\ x.text = Texts(record, x.turn)
  <2> SUFFICES ASSUME NEW x \in Events, x.sequence = record.sequence
               PROVE  stream # <<>> /\ x = last /\ x.text = Texts(record, x.turn)
        OBVIOUS
  <2>1. stream # <<>> /\ last \in Events /\ last.sequence = record.sequence
        BY <1>3
  <2>2. x = last
        BY <2>1 DEF ReadInv, PairInv
  <2>3. last.text = Texts(record, last.turn)
        BY <1>2, <1>3, <2>1 DEF ReadInv, EndInv
  <2>4. QED
        BY <2>1, <2>2, <2>3
<1>8. FlowInv'
  <2>1. \A i \in 1 .. Len(stream') : stream'[i].sequence = record'.sequence - Len(stream') + i
    <3> SUFFICES ASSUME NEW i \in 1 .. Len(stream')
                 PROVE  stream'[i].sequence = record'.sequence - Len(stream') + i
          OBVIOUS
    <3>1. CASE i = Len(stream')
          BY <1>1, <1>2, <3>1
    <3>2. CASE i \in 1 .. Len(stream') - 1 /\ i + k \in 1 .. Len(stream)
      <4>1. stream'[i] = stream[i + k]
            BY <1>1, <3>2
      <4>2. stream[i + k].sequence = record.sequence - Len(stream) + (i + k)
            BY <1>2, <3>2 DEF ReadInv, FlowInv
      <4>3. QED
            BY <1>1, <1>2, <4>1, <4>2
    <3>3. QED
          BY <1>4, <3>1, <3>2
  <2>2. cursor + Len(inbox) <= record'.sequence
        BY <1>2 DEF ReadInv, FlowInv
  <2>3. QED
        BY <1>1, <1>2, <2>1, <2>2 DEF ReadInv, FlowInv, readerVars
<1>9. PairInv'
  <2> SUFFICES ASSUME NEW x \in Events', NEW y \in Events'
               PROVE  /\ x.sequence = y.sequence => x = y
                      /\ y.sequence = x.sequence + 1 /\ y.turn = x.turn
                            => y.text = x.text + Gain(y)
                      /\ y.sequence = x.sequence + 1 /\ y.turn # x.turn => y.text = Gain(y)
        BY DEF PairInv, Gain
  <2>1. CASE x \in Events /\ y \in Events
        BY <2>1 DEF ReadInv, PairInv
  <2>2. CASE x = e
        BY <1>1, <1>5, <2>2
  <2>3. CASE x \in Events /\ y = e
    <3>1. x.sequence # y.sequence
          BY <1>3, <1>5, <2>3
    <3>2. ASSUME y.sequence = x.sequence + 1
          PROVE  /\ y.turn = x.turn => y.text = x.text + Gain(y)
                 /\ y.turn # x.turn => y.text = Gain(y)
      <4>1. x.sequence = record.sequence
            BY <1>1, <1>2, <1>3, <2>3, <3>2
      <4>2. x = last /\ stream # <<>> /\ x.text = Texts(record, x.turn)
            BY <1>7, <2>3, <4>1
      <4>3. QED
            BY <1>1, <1>6, <2>3, <4>2
    <3>3. QED
          BY <3>1, <3>2
  <2>4. QED
        BY <1>1, <2>1, <2>2, <2>3
<1>10. BlockInv'
  <2> SUFFICES ASSUME NEW x \in Events', NEW y \in Events', NEW z \in Events',
                      x.sequence < y.sequence, y.sequence < z.sequence, x.turn = z.turn
               PROVE  y.turn = x.turn
        BY DEF BlockInv
  <2>1. \A w \in Events' : w.sequence \in Nat /\ w.sequence <= e.sequence
        BY <1>1, <1>3, <1>5
  <2>2. x \in Events /\ y \in Events
        BY <1>1, <2>1
  <2>3. CASE z \in Events
        BY <2>2, <2>3 DEF ReadInv, BlockInv
  <2>4. CASE z = e
    <3>1. x.turn = t
          BY <1>1, <2>4
    <3>2. stream # <<>> /\ last.turn = t /\ last \in Events /\ last.sequence = record.sequence
          BY <1>3, <1>6, <2>2, <3>1
    <3>3. CASE y.sequence = record.sequence
          BY <1>7, <2>2, <3>1, <3>2, <3>3
    <3>4. CASE y.sequence < last.sequence
          BY <2>2, <3>1, <3>2, <3>4 DEF ReadInv, BlockInv
    <3>5. QED
          BY <1>2, <1>3, <2>2, <3>2, <3>3, <3>4
  <2>5. z \in Events \/ z = e
        BY <1>1
  <2>6. QED
        BY <2>3, <2>4, <2>5
<1>11. EventInv'
  <2> SUFFICES ASSUME NEW x \in Events'
               PROVE  /\ x.sequence >= 1
                      /\ x.sequence = 1 => x.text = Gain(x)
                      /\ job'[x.turn] \in Started
                      /\ x.type = "done" =>
                            /\ job'[x.turn] = "done"
                            /\ x.text = Texts(record', x.turn) /\ x.turn \in Completed(record')
        BY DEF EventInv, Gain
  <2>1. CASE x \in Events
    <3>1. /\ x.sequence >= 1
          /\ x.sequence = 1 => x.text = Gain(x)
          /\ job[x.turn] \in Started
          /\ x.type = "done" =>
                /\ job[x.turn] = "done"
                /\ x.text = Texts(record, x.turn) /\ x.turn \in Completed(record)
          BY <1>2, <2>1 DEF ReadInv, EventInv
    <3>2. CASE x.turn = t
      <4>1. x.type # "done"
            BY <1>6, <2>1, <3>1, <3>2 DEF Alive
      <4>2. job'[x.turn] \in Started
            BY <3>2 DEF Adds
      <4>3. QED
            BY <3>1, <4>1, <4>2
    <3>3. CASE x.turn # t
      <4>1. x.turn \in Turns \ {t}
            BY <1>3, <2>1, <3>3
      <4>2. job'[x.turn] = job[x.turn] /\ Texts(record', x.turn) = Texts(record, x.turn)
            BY <4>1 DEF Adds
      <4>3. Completed(record) \subseteq Completed(record')
            BY DEF Adds
      <4>4. /\ job'[x.turn] \in Started
            /\ x.type = "done" => job'[x.turn] = "done" /\ x.turn \in Completed(record')
            /\ x.type = "done" => x.text = Texts(record', x.turn)
            BY <3>1, <4>2, <4>3
      <4>5. QED
            BY <3>1, <4>4
    <3>4. QED
          BY <3>2, <3>3
  <2>2. CASE x = e
    <3>1. job'[x.turn] \in Started
          BY <1>1, <2>2 DEF Adds
    <3>2. x.type = "done" => job'[x.turn] = "done" /\ x.turn \in Completed(record')
                             /\ x.text = Texts(record', x.turn)
          BY <1>1, <2>2 DEF Adds
    <3>3. x.sequence >= 1
          BY <1>1, <1>2, <2>2
    <3>4. ASSUME x.sequence = 1 PROVE x.text = Gain(x)
      <4>1. record.sequence = 0
            BY <1>1, <1>2, <2>2, <3>4
      <4>2. job[t] \notin Alive
            BY <1>2, <4>1 DEF ReadInv, EndInv
      <4>3. QED
            BY <1>6, <2>2, <4>2
    <3>5. QED
          BY <3>1, <3>2, <3>3, <3>4
  <2>3. x \in Events \/ x = e
        BY <1>1
  <2>4. QED
        BY <2>1, <2>2, <2>3
<1>12. EndInv'
  <2>1. ASSUME NEW x \in Events',
               \/ x.sequence = record'.sequence
               \/ \E y \in Events' : y.sequence = x.sequence + 1 /\ y.turn # x.turn
        PROVE  x.text = Texts(record', x.turn)
    <3>1. CASE x = e
          BY <1>1, <3>1
    <3>2. CASE x \in Events
      <4>1. x.sequence <= record.sequence /\ x.sequence \in Nat
            BY <1>3, <3>2
      <4>2. PICK y \in Events' : y.sequence = x.sequence + 1 /\ y.turn # x.turn
            BY <1>2, <2>1, <4>1
      <4>3. CASE y = e
        <5>1. x.sequence = record.sequence
              BY <1>1, <1>2, <4>1, <4>2, <4>3
        <5>2. x.text = Texts(record, x.turn)
              BY <1>7, <3>2, <5>1
        <5>3. x.turn \in Turns \ {t}
              BY <1>1, <1>3, <3>2, <4>2, <4>3
        <5>4. QED
              BY <5>2, <5>3 DEF Adds
      <4>4. CASE y \in Events
        <5>1. x.text = Texts(record, x.turn)
              BY <1>2, <3>2, <4>2, <4>4 DEF ReadInv, EndInv
        <5>2. x.turn # t
          <6> SUFFICES ASSUME x.turn = t PROVE FALSE
                OBVIOUS
          <6>1. stream # <<>> /\ last.turn = t /\ last \in Events
                /\ last.sequence = record.sequence
                BY <1>3, <1>6, <3>2
          <6>2. y.sequence \in Nat /\ y.sequence <= record.sequence /\ x.sequence < y.sequence
                BY <1>3, <4>1, <4>2, <4>4
          <6>3. CASE y.sequence = record.sequence
                BY <1>7, <4>2, <4>4, <6>1, <6>3
          <6>4. CASE y.sequence < last.sequence
                BY <3>2, <4>2, <4>4, <6>1, <6>2, <6>4 DEF ReadInv, BlockInv
          <6>5. QED
                BY <1>2, <6>1, <6>2, <6>3, <6>4
        <5>3. x.turn \in Turns \ {t}
              BY <1>3, <3>2, <5>2
        <5>4. QED
              BY <5>1, <5>3 DEF Adds
      <4>5. QED
            BY <1>1, <4>3, <4>4
    <3>3. QED
          BY <1>1, <3>1, <3>2
  <2>2. record'.active # NoTurn => stream'[Len(stream')].turn = record'.active
        BY <1>1 DEF Adds
  <2>3. record'.sequence >= 1
        BY <1>2
  <2>4. ASSUME reader # "lost", NEW u \in Turns, job'[u] \in Started
        PROVE  (\E i \in 1 .. Len(stream') : stream'[i].turn = u) \/ stream'[1].sequence > 1
    <3>1. CASE u = t
      <4>1. Len(stream') \in 1 .. Len(stream')
            BY <1>1, <1>2
      <4>2. QED
            BY <1>1, <3>1, <4>1
    <3>2. CASE u # t
      <4>1. job[u] \in Started
            BY <2>4, <3>2 DEF Adds
      <4>2. /\ record.sequence >= 1
            /\ \/ \E i \in 1 .. Len(stream) : stream[i].turn = u
               \/ stream = <<>>
               \/ stream[1].sequence > 1
            BY <1>2, <2>4, <4>1 DEF ReadInv, EndInv
      <4>3. 1 \in 1 .. Len(stream')
            BY <1>1, <1>2
      <4>4. stream'[1].sequence = record'.sequence - Len(stream') + 1
            BY <1>2, <1>8, <4>3 DEF FlowInv
      <4>5. stream # <<>> => stream[1].sequence = record.sequence - Len(stream) + 1
                             /\ stream[1].sequence >= 1
            BY <1>2, <1>3 DEF ReadInv, FlowInv, EventInv
      <4>6. CASE \E i \in 1 .. Len(stream) : stream[i].turn = u
        <5>1. PICK i \in 1 .. Len(stream) : stream[i].turn = u
              BY <4>6
        <5>2. CASE i > k
          <6>1. i - k \in 1 .. Len(stream') - 1 /\ i - k \in 1 .. Len(stream') /\ (i - k) + k = i
                BY <1>1, <1>2, <5>2
          <6>2. stream'[i - k].turn = u
                BY <1>1, <5>1, <6>1
          <6>3. QED
                BY <6>1, <6>2
        <5>3. CASE i <= k
          <6>1. k = 1 /\ stream # <<>>
                BY <1>2, <5>3
          <6>2. QED
                BY <1>1, <1>2, <4>4, <4>5, <6>1
        <5>4. QED
              BY <5>2, <5>3
      <4>7. CASE stream = <<>>
        <5>1. Len(stream) = 0
              BY <4>7
        <5>2. Len(stream') = 1 /\ stream'[1] = e
              BY <1>1, <5>1
        <5>3. QED
              BY <1>1, <1>2, <4>2, <5>2
      <4>8. CASE stream # <<>> /\ stream[1].sequence > 1
            BY <1>1, <1>2, <4>4, <4>5, <4>8
      <4>9. QED
            BY <4>2, <4>6, <4>7, <4>8
    <3>3. QED
          BY <3>1, <3>2
  <2>5. reader' = reader
        BY <1>2 DEF readerVars
  <2>6. \A x \in Events' :
           \/ x.sequence = record'.sequence
           \/ \E y \in Events' : y.sequence = x.sequence + 1 /\ y.turn # x.turn
           => x.text = Texts(record', x.turn)
        BY <2>1
  <2>7. reader' # "lost" =>
           \A u \in Turns : job'[u] \in Started =>
              /\ record'.sequence >= 1
              /\ \/ \E i \in 1 .. Len(stream') : stream'[i].turn = u
                 \/ stream' = <<>>
                 \/ stream'[1].sequence > 1
        BY <2>3, <2>4, <2>5
  <2>8. QED
        BY <2>2, <2>3, <2>6, <2>7 DEF EndInv
\* Nothing has been dropped now only if nothing had been before.
<1>13. Whole' => Whole
  <2> SUFFICES ASSUME Whole' PROVE Whole
        OBVIOUS
  <2>1. cursor + Len(inbox) >= stream'[1].sequence - 1
        BY <1>1, <1>2 DEF Whole, readerVars
  <2>2. 1 \in 1 .. Len(stream')
        BY <1>1, <1>2
  <2>3. stream'[1].sequence = record'.sequence - Len(stream') + 1
        BY <1>2, <1>8, <2>2 DEF FlowInv
  <2>4. CASE stream = <<>>
    <3>1. Len(stream) = 0
          BY <2>4
    <3>2. Len(stream') = 1
          BY <1>1, <3>1
    <3>3. cursor + Len(inbox) <= record.sequence
          BY <1>2 DEF ReadInv, FlowInv
    <3>4. QED
          BY <1>2, <2>1, <2>3, <2>4, <3>2, <3>3 DEF Whole
  <2>5. CASE stream # <<>>
    <3>1. stream[1].sequence = record.sequence - Len(stream) + 1
          BY <1>2, <1>3, <2>5 DEF ReadInv, FlowInv
    <3>2. Len(stream') \in Nat /\ Len(stream') <= Len(stream) + 1
          BY <1>1, <1>2
    <3>3. /\ stream'[1].sequence - 1 >= stream[1].sequence - 1
          /\ stream'[1].sequence \in Int /\ stream[1].sequence \in Int
      <4> DEFINE a == stream'[1].sequence
                 b == stream[1].sequence
                 n == Len(stream')
                 m == Len(stream)
                 q == record.sequence
      <4>1. a = (q + 1) - n + 1 /\ b = q - m + 1 /\ n <= m + 1
            BY <1>2, <2>3, <3>1, <3>2
      <4>2. q \in Nat /\ n \in Nat /\ m \in Nat
            BY <1>2, <3>2
      <4> HIDE DEF a, b, n, m, q
      <4>3. a - 1 >= b - 1 /\ a \in Int /\ b \in Int
            BY <4>1, <4>2
      <4>4. QED
            BY <4>3 DEF a, b
    <3>4. cursor + Len(inbox) >= stream[1].sequence - 1
          BY <1>2, <2>1, <3>3
    <3>5. QED
          BY <1>2, <2>5, <3>4 DEF Whole
  <2>6. QED
        BY <2>4, <2>5
<1>14. FollowInv'
  <2> SUFFICES ASSUME reader \in {"closed", "fetch", "check"}
               PROVE  /\ follows \in Turns /\ job'[follows] \in Started
                      /\ \A x \in Events' : x.turn = follows /\ Ahead(x)' /\ Foremost(x)'
                            => x.text = Len(shown) + Gain(x)
                      /\ Whole' /\ (\A x \in Events' : x.sequence > cursor => x.turn # follows)
                            => Len(shown) = Texts(record', follows)
        BY <1>2 DEF FollowInv, Gain, readerVars
  <2>1. /\ follows \in Turns /\ job[follows] \in Started
        /\ \A x \in Events : x.turn = follows /\ Ahead(x) /\ Foremost(x)
              => x.text = Len(shown) + Gain(x)
        /\ Whole /\ (\A x \in Events : x.sequence > cursor => x.turn # follows)
              => Len(shown) = Texts(record, follows)
        BY DEF ReadInv, FollowInv
  <2>2. job'[follows] \in Started
        BY <2>1 DEF Adds
  <2>3. ASSUME NEW x \in Events', x.turn = follows, Ahead(x)', Foremost(x)'
        PROVE  x.text = Len(shown) + Gain(x)
    <3>1. x.sequence > cursor /\ (Whole' \/ \E i \in 1 .. Len(inbox) : inbox[i] = x)
          BY <1>2, <2>3 DEF Ahead, readerVars
    <3>2. x.sequence = cursor + 1 \/ \E y \in Events' : y.sequence + 1 = x.sequence /\ y.turn # follows
          BY <1>2, <2>3 DEF Foremost, readerVars
    <3>3. CASE x \in Events
      <4>1. Ahead(x)
            BY <1>13, <3>1 DEF Ahead
      <4>2. Foremost(x)
        <5>1. \A y \in Events' : y.sequence + 1 = x.sequence => y \in Events
              BY <1>1, <1>3, <1>5, <3>3
        <5>2. QED
              BY <2>3, <3>2, <5>1 DEF Foremost
      <4>3. QED
            BY <2>1, <2>3, <3>3, <4>1, <4>2
    <3>4. CASE x = e
      <4>1. follows = t
            BY <1>1, <2>3, <3>4
      <4>2. job[t] \in Alive /\ e.text = Texts(record, t) + Gain(e) /\ (stream # <<>> => last.turn = t)
            BY <1>6, <2>1, <4>1 DEF Started, Alive
      <4>3. Whole
        <5>1. ~ \E i \in 1 .. Len(inbox) : inbox[i] = x
              BY <1>3, <1>5, <3>4
        <5>2. QED
              BY <1>13, <3>1, <5>1
      <4>4. \A y \in Events : y.sequence > cursor => y.turn # follows
        <5>1. CASE x.sequence = cursor + 1
              BY <1>1, <1>2, <1>3, <3>4, <5>1
        <5>2. CASE \E y \in Events' : y.sequence + 1 = x.sequence /\ y.turn # follows
          <6>1. PICK y \in Events' : y.sequence + 1 = x.sequence /\ y.turn # follows
                BY <5>2
          <6>2. y # e
                BY <1>1, <4>1, <6>1
          <6>3. y \in Events
                BY <1>1, <6>2
          <6>4. y.sequence = record.sequence
                BY <1>1, <1>2, <1>3, <3>4, <6>1, <6>3
          <6>5. QED
                BY <1>7, <4>1, <4>2, <6>1, <6>3, <6>4
        <5>3. QED
              BY <3>2, <5>1, <5>2
      <4>5. Len(shown) = Texts(record, t)
            BY <2>1, <4>1, <4>3, <4>4
      <4>6. QED
            BY <3>4, <4>2, <4>5
    <3>5. x \in Events \/ x = e
          BY <1>1
    <3>6. QED
          BY <3>3, <3>4, <3>5
  <2>4. ASSUME Whole', \A x \in Events' : x.sequence > cursor => x.turn # follows
        PROVE  Len(shown) = Texts(record', follows)
    <3>1. cursor <= record.sequence
          BY <1>2 DEF ReadInv, FlowInv
    <3>2. e.sequence > cursor
          BY <1>1, <1>2, <3>1
    <3>3. follows # t
          BY <1>1, <2>4, <3>2
    <3>4. Texts(record', follows) = Texts(record, follows)
          BY <2>1, <3>3 DEF Adds
    <3>5. \A x \in Events : x.sequence > cursor => x.turn # follows
      <4> SUFFICES ASSUME NEW x \in Events, x.sequence > cursor, x.turn = follows PROVE FALSE
            OBVIOUS
      <4>1. CASE \E i \in 1 .. Len(inbox) : inbox[i] = x
        <5>1. x \in Events'
              BY <1>2, <4>1 DEF Events, readerVars
        <5>2. QED
              BY <2>4, <5>1
      <4>2. CASE \E i \in 1 .. Len(stream) : stream[i] = x
        <5>1. PICK i \in 1 .. Len(stream) : stream[i] = x
              BY <4>2
        <5>2. CASE i > k
          <6>1. i - k \in 1 .. Len(stream') - 1 /\ i - k \in 1 .. Len(stream') /\ (i - k) + k = i
                BY <1>1, <1>2, <5>2
          <6>2. stream'[i - k] = x
                BY <1>1, <5>1, <6>1
          <6>3. x \in Events'
                BY <6>1, <6>2 DEF Events
          <6>4. QED
                BY <2>4, <6>3
        <5>3. CASE i <= k
          <6>1. k = 1 /\ i = 1 /\ stream # <<>>
                BY <1>2, <5>3
          <6>2. x.sequence = record.sequence - Len(stream) + 1
                BY <1>2, <1>3, <5>1, <6>1 DEF ReadInv, FlowInv
          <6>3. 1 \in 1 .. Len(stream')
                BY <1>1, <1>2
          <6>4. stream'[1].sequence = record'.sequence - Len(stream') + 1
                BY <1>2, <1>8, <6>3 DEF FlowInv
          <6>5. cursor + Len(inbox) >= stream'[1].sequence - 1
                BY <1>1, <1>2, <2>4 DEF Whole, readerVars
          <6>6. cursor + Len(inbox) >= x.sequence
                BY <1>1, <1>2, <6>1, <6>2, <6>4, <6>5
          <6>7. x.sequence - cursor \in 1 .. Len(inbox)
                BY <1>2, <1>3, <6>6
          <6>8. inbox[x.sequence - cursor].sequence = cursor + (x.sequence - cursor)
                BY <6>7 DEF ReadInv, FlowInv
          <6>9. inbox[x.sequence - cursor] = x
            <7>1. inbox[x.sequence - cursor].sequence = x.sequence
                  BY <1>2, <1>3, <6>8
            <7>2. inbox[x.sequence - cursor] \in Events
                  BY <1>3, <6>7
            <7>3. QED
                  BY <7>1, <7>2 DEF ReadInv, PairInv
          <6>10. QED
                BY <4>1, <6>7, <6>9
        <5>4. QED
              BY <1>1, <1>2, <5>2, <5>3
      <4>3. QED
            BY <4>1, <4>2 DEF Events
    <3>6. QED
          BY <1>13, <2>1, <2>4, <3>4, <3>5
  <2>5. QED
        BY <2>1, <2>2, <2>3, <2>4
<1>15. ShownInv'
  <2>1. UNCHANGED <<shown, reader, follows>>
        BY <1>2 DEF readerVars
  <2>2. ASSUME reader = "done"
        PROVE  /\ follows \in Turns /\ job'[follows] = "done"
               /\ Len(shown) = Texts(record', follows) /\ follows \in Completed(record')
    <3>1. /\ follows \in Turns /\ job[follows] = "done"
          /\ Len(shown) = Texts(record, follows) /\ follows \in Completed(record)
          BY <1>2, <2>2 DEF ReadInv, ShownInv
    <3>2. follows # t
          BY <1>6, <3>1 DEF Alive
    <3>3. QED
          BY <3>1, <3>2 DEF Adds
  <2>3. QED
        BY <2>1, <2>2 DEF ReadInv, ShownInv
<1>16. QED
      BY <1>8, <1>9, <1>10, <1>11, <1>12, <1>14, <1>15 DEF ReadInv

-----------------------------------------------------------------------------
\* The other steps of the store

\* The step leaves the events and the replies alone; a thread may go on or end.
Keeps ==
    /\ record' = Gone <=> record = Gone
    /\ record # Gone =>
         /\ record.sequence \in Nat /\ record'.sequence = record.sequence
         /\ \A t \in Turns : Texts(record', t) = Texts(record, t)
         /\ Completed(record) \subseteq Completed(record')
         /\ record'.active # NoTurn /\ job'[record'.active] \in Alive =>
               record'.active = record.active /\ job[record.active] \in Alive
    /\ stream' = stream
    /\ \A t \in Turns :
         /\ job[t] \in Started <=> job'[t] \in Started
         /\ job[t] = "done" => job'[t] = "done"
         /\ job'[t] \in Alive => job[t] \in Alive
    /\ UNCHANGED readerVars

\* A step without an event.
LEMMA ReadKeeps ==
    ASSUME ReadInv, Keeps
    PROVE  ReadInv'
<1>1. /\ stream' = stream /\ inbox' = inbox /\ cursor' = cursor /\ shown' = shown
      /\ reader' = reader /\ follows' = follows
      BY DEF Keeps, readerVars
<1>2. Events' = Events
      BY <1>1 DEF Events
<1>3. \A x \in Events : x.turn \in Turns
      BY EventFacts DEF ReadInv, Keeps
<1>4. /\ record' = Gone <=> record = Gone
      /\ record # Gone =>
         /\ record.sequence \in Nat /\ record'.sequence = record.sequence
         /\ \A t \in Turns : Texts(record', t) = Texts(record, t)
         /\ Completed(record) \subseteq Completed(record')
      /\ \A t \in Turns : job[t] = "done" => job'[t] = "done"
      /\ \A t \in Turns : job[t] \in Started => job'[t] \in Started
      BY DEF Keeps
<1>5. FlowInv'
      BY <1>1, <1>4 DEF ReadInv, FlowInv
<1>6. PairInv' /\ BlockInv'
      BY <1>2 DEF ReadInv, PairInv, BlockInv, Gain
<1>7. EventInv'
      BY <1>2, <1>3, <1>4 DEF ReadInv, EventInv, Gain
<1>8. EndInv'
  <2> SUFFICES ASSUME record' # Gone
               PROVE  EndInv'
        BY DEF EndInv
  <2>1. \A x \in Events' :
           \/ x.sequence = record'.sequence
           \/ \E f \in Events' : f.sequence = x.sequence + 1 /\ f.turn # x.turn
           => x.text = Texts(record', x.turn)
        BY <1>2, <1>3, <1>4 DEF ReadInv, EndInv
  <2>2. stream' # <<>> /\ record'.active # NoTurn /\ job'[record'.active] \in Alive
             => stream'[Len(stream')].turn = record'.active
        BY <1>1, <1>4 DEF ReadInv, EndInv, Keeps
  <2>3. \A t \in Turns : job'[t] \in Alive => record'.sequence >= 1
        BY <1>4 DEF ReadInv, EndInv, Keeps
  <2>4. reader' # "lost" =>
             \A t \in Turns : job'[t] \in Started =>
                /\ record'.sequence >= 1
                /\ \/ \E i \in 1 .. Len(stream') : stream'[i].turn = t
                   \/ stream' = <<>>
                   \/ stream'[1].sequence > 1
        BY <1>1, <1>4 DEF ReadInv, EndInv, Keeps
  <2>5. QED
        BY <2>1, <2>2, <2>3, <2>4 DEF EndInv
<1>9. Whole' <=> Whole
      BY <1>1, <1>4 DEF Whole
<1>10. \A x \in Events : /\ Ahead(x)' <=> Ahead(x)
                         /\ Foremost(x)' <=> Foremost(x)
      BY <1>1, <1>2, <1>9 DEF Ahead, Foremost
<1>11. FollowInv'
  <2> SUFFICES ASSUME reader \in {"closed", "fetch", "check"}
               PROVE  FollowInv'
        BY <1>1 DEF FollowInv
  <2>1. /\ follows \in Turns /\ job[follows] \in Started
        /\ \A e \in Events : e.turn = follows /\ Ahead(e) /\ Foremost(e)
              => e.text = Len(shown) + Gain(e)
        /\ Whole /\ (\A e \in Events : e.sequence > cursor => e.turn # follows)
              => Len(shown) = Texts(record, follows)
        BY DEF ReadInv, FollowInv
  <2>2. follows' \in Turns /\ job'[follows'] \in Started
        BY <1>1, <1>4, <2>1
  <2>3. \A e \in Events' : e.turn = follows' /\ Ahead(e)' /\ Foremost(e)'
              => e.text = Len(shown') + Gain(e)
        BY <1>1, <1>2, <1>10, <2>1
  <2>4. Whole' /\ (\A e \in Events' : e.sequence > cursor' => e.turn # follows')
              => Len(shown') = Texts(record', follows')
    <3>1. Whole => record # Gone
          BY DEF Whole
    <3>2. QED
          BY <1>1, <1>2, <1>4, <1>9, <2>1, <3>1
  <2>5. QED
        BY <2>2, <2>3, <2>4 DEF FollowInv, Gain
<1>12. ShownInv'
      BY <1>1, <1>4 DEF ReadInv, ShownInv
<1>13. QED
      BY <1>5, <1>6, <1>7, <1>8, <1>11, <1>12 DEF ReadInv

\* The conversation is gone: the client can read on only what is on its way.
LEMMA ReadDelete ==
    ASSUME ReadInv, Delete
    PROVE  ReadInv'
<1>1. /\ record' = Gone /\ stream' = <<>> /\ UNCHANGED readerVars /\ job' = job
      BY DEF Delete, jobVars
<1>2. /\ inbox' = inbox /\ cursor' = cursor /\ shown' = shown
      /\ reader' = reader /\ follows' = follows
      BY <1>1 DEF readerVars
<1>3. 1 .. Len(stream') = {} /\ Kept \in Nat
      BY <1>1, HistoryAssumption
<1>4. Events' \subseteq Events
      BY <1>2, <1>3 DEF Events
<1>5. FlowInv'
      BY <1>1, <1>2, <1>3 DEF ReadInv, FlowInv
<1>6. PairInv' /\ BlockInv'
      BY <1>4 DEF ReadInv, PairInv, BlockInv, Gain
<1>7. EventInv'
      BY <1>1, <1>4 DEF ReadInv, EventInv, Gain
<1>8. EndInv'
      BY <1>1 DEF EndInv
<1>9. ~Whole'
      BY <1>1 DEF Whole
<1>10. \A x \in Events : /\ Ahead(x)' => Ahead(x)
                         /\ Foremost(x)' => Foremost(x)
      BY <1>2, <1>4, <1>9 DEF Ahead, Foremost
<1>11. FollowInv'
      BY <1>1, <1>2, <1>4, <1>9, <1>10 DEF ReadInv, FollowInv, Gain
<1>12. ShownInv'
      BY <1>1, <1>2 DEF ReadInv, ShownInv
<1>13. QED
      BY <1>5, <1>6, <1>7, <1>8, <1>11, <1>12 DEF ReadInv

\* After a crash there is no event and no client.
LEMMA ReadCrash ==
    ASSUME IInv, Crash
    PROVE  ReadInv'
<1>1. /\ stream' = <<>> /\ inbox' = <<>> /\ cursor' = 0 /\ shown' = <<>> /\ reader' = "lost"
      /\ job' = [t \in Turns |-> IF job[t] = "idle" THEN "idle" ELSE "done"]
      BY DEF Crash
<1>2. Events' = {}
      BY <1>1 DEF Events
<1>3. record' # Gone => record'.sequence \in Nat
      BY CrashKeeps DEF IInv, StoreInv, Record
<1>4. FlowInv'
      BY <1>1, <1>3, HistoryAssumption DEF FlowInv, ReaderState
<1>5. PairInv' /\ BlockInv' /\ EventInv'
      BY <1>2 DEF PairInv, BlockInv, EventInv
<1>6. \A t \in Turns : job'[t] \notin Alive
      BY <1>1 DEF Alive
<1>7. EndInv'
      BY <1>1, <1>2, <1>6 DEF EndInv
<1>8. FollowInv' /\ ShownInv'
      BY <1>1 DEF FollowInv, ShownInv
<1>9. QED
      BY <1>4, <1>5, <1>7, <1>8 DEF ReadInv

-----------------------------------------------------------------------------
\* The client's steps

LEMMA ReadFollow ==
    ASSUME IInv, ReadInv, NEW t \in Turns, Follow(t)
    PROVE  ReadInv'
<1>1. /\ reader \in {"idle", "done"} /\ job[t] \in Started
      /\ reader' = "closed" /\ follows' = t /\ cursor' = 0 /\ shown' = <<>> /\ inbox' = inbox
      /\ record' = record /\ stream' = stream /\ job' = job
      BY DEF Follow, storeVars, jobVars, Started, Alive
<1>2. inbox = <<>> /\ Events' = Events
      BY <1>1 DEF ReadInv, FlowInv, Events
<1>3. record # Gone => record.sequence \in Nat
      BY DEF IInv, StoreInv, Record
<1>4. FlowInv'
      BY <1>1, <1>2, <1>3 DEF ReadInv, FlowInv, ReaderState
<1>5. PairInv' /\ BlockInv'
      BY <1>2 DEF ReadInv, PairInv, BlockInv, Gain
<1>6. EventInv'
      BY <1>1, <1>2 DEF ReadInv, EventInv, Gain
<1>7. EndInv'
      BY <1>1, <1>2 DEF ReadInv, EndInv
<1>8. \A x \in Events : x.sequence \in Nat /\ x.text \in Nat
      BY <1>3, EventFacts DEF ReadInv
<1>9. ASSUME NEW x \in Events, x.turn = t, Foremost(x)'
      PROVE  x.text = Len(shown') + Gain(x)
  <2>1. Len(shown') = 0 /\ Gain(x) \in Nat
        BY <1>1 DEF Gain
  <2>2. CASE x.sequence = cursor' + 1
    <3>1. x.text = Gain(x)
          BY <1>1, <2>2 DEF ReadInv, EventInv
    <3>2. QED
          BY <2>1, <3>1
  <2>3. CASE \E f \in Events' : f.sequence + 1 = x.sequence /\ f.turn # x.turn
    <3>1. PICK f \in Events : f.sequence + 1 = x.sequence /\ f.turn # x.turn
          BY <1>2, <2>3
    <3>2. x.text = Gain(x)
          BY <3>1 DEF ReadInv, PairInv
    <3>3. QED
          BY <2>1, <3>2
  <2>4. QED
        BY <1>9, <2>2, <2>3 DEF Foremost
<1>10. ASSUME Whole', \A x \in Events : x.sequence > 0 => x.turn # t
       PROVE  Len(shown') = Texts(record', t)
  <2>1. record # Gone /\ reader # "lost"
        BY <1>1, <1>10 DEF Whole
  <2>2. /\ record.sequence >= 1
        /\ \/ \E i \in 1 .. Len(stream) : stream[i].turn = t
           \/ stream = <<>>
           \/ stream[1].sequence > 1
        BY <1>1, <2>1 DEF ReadInv, EndInv
  <2>3. CASE \E i \in 1 .. Len(stream) : stream[i].turn = t
    <3>1. PICK i \in 1 .. Len(stream) : stream[i].turn = t
          BY <2>3
    <3>2. stream[i] \in Events
          BY DEF Events
    <3>3. stream[i].sequence >= 1 /\ stream[i].sequence \in Nat
          BY <1>8, <3>2 DEF ReadInv, EventInv
    <3>4. QED
          BY <1>10, <3>1, <3>2, <3>3
  <2>4. Len(inbox') = 0
        BY <1>1, <1>2
  <2>5. CASE stream = <<>>
    <3>1. 0 + 0 = record.sequence
          BY <1>1, <1>10, <2>4, <2>5 DEF Whole
    <3>2. QED
          BY <2>2, <3>1
  <2>6. CASE stream # <<>> /\ stream[1].sequence > 1
    <3>1. 0 + 0 >= stream[1].sequence - 1
          BY <1>1, <1>10, <2>4, <2>6 DEF Whole
    <3>2. stream[1].sequence \in Nat
      <4>1. 1 \in 1 .. Len(stream)
            BY <2>6 DEF ReadInv, FlowInv
      <4>2. QED
            BY <1>8, <4>1 DEF Events
    <3>3. QED
          BY <2>6, <3>1, <3>2
  <2>7. QED
        BY <2>2, <2>3, <2>5, <2>6
<1>11. FollowInv'
      BY <1>1, <1>2, <1>9, <1>10 DEF FollowInv, Gain
<1>12. ShownInv'
      BY <1>1 DEF ShownInv
<1>13. QED
      BY <1>4, <1>5, <1>6, <1>7, <1>11, <1>12 DEF ReadInv

\* The deque of a conversation has what comes after the cursor, if no gap is found.
LEMMA WholeHas ==
    ASSUME ReadInv, record # Gone, record.sequence \in Nat, stream # <<>>,
           NEW n \in Nat, n >= stream[1].sequence, n <= record.sequence
    PROVE  LET i == n - (record.sequence - Len(stream))
           IN  i \in 1 .. Len(stream) /\ stream[i] \in Events /\ stream[i].sequence = n
<1> DEFINE i == n - (record.sequence - Len(stream))
<1>1. Len(stream) \in Nat /\ 1 \in 1 .. Len(stream)
      BY DEF ReadInv, FlowInv
<1>2. stream[1].sequence = record.sequence - Len(stream) + 1
      BY <1>1 DEF ReadInv, FlowInv
<1>3. i \in 1 .. Len(stream)
      BY <1>1, <1>2
<1>4. stream[i].sequence = record.sequence - Len(stream) + i
      BY <1>3 DEF ReadInv, FlowInv
<1>5. stream[i].sequence = n
      BY <1>1, <1>4
<1>6. stream[i] \in Events
      BY <1>3 DEF Events
<1>7. QED
      BY <1>3, <1>5, <1>6

\* The client drops what was not read, if anything: a connection that was closed,
\* broke, or is opened.
LEMMA ReadDrops ==
    ASSUME IInv, ReadInv, reader \in {"closed", "fetch", "check"},
           reader' \in {"told", "closed", "fetch"}, inbox' = <<>>,
           UNCHANGED <<storeVars, jobVars, follows, cursor, shown>>
    PROVE  ReadInv'
<1>1. /\ record' = record /\ stream' = stream /\ job' = job
      /\ follows' = follows /\ cursor' = cursor /\ shown' = shown
      BY DEF storeVars, jobVars
<1>2. 1 .. Len(inbox') = {} /\ Len(inbox') = 0
      OBVIOUS
<1>3. Events' \subseteq Events
      BY <1>1, <1>2 DEF Events
<1>4. record # Gone => record.sequence \in Nat
      BY DEF IInv, StoreInv, Record
<1>5. /\ cursor \in Nat /\ Len(inbox) \in Nat /\ inbox \in Seq(Event)
      /\ record # Gone => cursor + Len(inbox) <= record.sequence
      /\ inbox # <<>> => (record # Gone => stream # <<>>)
      BY DEF ReadInv, FlowInv
<1>6. /\ \A x \in Events : x.sequence \in Nat
      /\ record # Gone => \A x \in Events : x.sequence <= record.sequence
      /\ \A i \in 1 .. Len(stream) : stream[i] \in Events
      BY <1>4, EventFacts DEF ReadInv
<1>7. FlowInv'
      BY <1>1, <1>2, <1>4, <1>5 DEF ReadInv, FlowInv, ReaderState
<1>8. PairInv' /\ BlockInv'
      BY <1>3 DEF ReadInv, PairInv, BlockInv, Gain
<1>9. EventInv'
      BY <1>1, <1>3 DEF ReadInv, EventInv, Gain
<1>10. EndInv'
      BY <1>1, <1>3 DEF ReadInv, EndInv
<1>11. Whole' => Whole
  <2> SUFFICES ASSUME Whole' PROVE Whole
        OBVIOUS
  <2>1. /\ record # Gone
        /\ stream = <<>> => cursor + 0 = record.sequence
        /\ stream # <<>> => cursor + 0 >= stream[1].sequence - 1
        BY <1>1, <1>2 DEF Whole
  <2>2. stream # <<>> => stream[1].sequence \in Nat
    <3>1. stream # <<>> => 1 \in 1 .. Len(stream)
          BY DEF ReadInv, FlowInv
    <3>2. QED
          BY <1>6, <3>1
  <2>3. stream = <<>> => cursor + Len(inbox) = record.sequence
        BY <1>4, <1>5, <2>1
  <2>4. stream # <<>> => cursor + Len(inbox) >= stream[1].sequence - 1
        BY <1>5, <2>1, <2>2
  <2>5. QED
        BY <2>1, <2>3, <2>4 DEF Whole
<1>12. \A x \in Events : /\ Ahead(x)' => Ahead(x)
                         /\ Foremost(x)' => Foremost(x)
       BY <1>1, <1>2, <1>3, <1>11 DEF Ahead, Foremost
\* What was on its way is still in the deque, if the client can go on.
<1>13. ASSUME Whole', NEW x \in Events, x.sequence > cursor PROVE x \in Events'
  <2>1. record # Gone /\ stream # <<>>
    <3>1. record # Gone /\ (stream = <<>> => cursor + 0 = record.sequence)
          BY <1>1, <1>2, <1>13 DEF Whole
    <3>2. QED
          BY <1>4, <1>5, <1>6, <1>13, <3>1
  <2>2. cursor + 0 >= stream[1].sequence - 1
        BY <1>1, <1>2, <1>13, <2>1 DEF Whole
  <2>3. stream[1].sequence \in Nat
    <3>1. 1 \in 1 .. Len(stream)
          BY <2>1 DEF ReadInv, FlowInv
    <3>2. QED
          BY <1>6, <3>1
  <2>4. x.sequence \in Nat /\ x.sequence <= record.sequence /\ x.sequence >= stream[1].sequence
        BY <1>5, <1>6, <1>13, <2>1, <2>2, <2>3
  <2>5. PICK i \in 1 .. Len(stream) : stream[i] \in Events /\ stream[i].sequence = x.sequence
        BY <1>4, <2>1, <2>4, WholeHas
  <2>6. stream[i] = x
        BY <2>5 DEF ReadInv, PairInv
  <2>7. QED
        BY <1>1, <2>6 DEF Events
<1>14. FollowInv'
  <2> SUFFICES ASSUME reader' \in {"closed", "fetch", "check"}
               PROVE  FollowInv'
        BY DEF FollowInv
  <2>1. /\ follows \in Turns /\ job[follows] \in Started
        /\ \A e \in Events : e.turn = follows /\ Ahead(e) /\ Foremost(e)
              => e.text = Len(shown) + Gain(e)
        /\ Whole /\ (\A e \in Events : e.sequence > cursor => e.turn # follows)
              => Len(shown) = Texts(record, follows)
        BY DEF ReadInv, FollowInv
  <2>2. \A e \in Events' : e.turn = follows' /\ Ahead(e)' /\ Foremost(e)'
              => e.text = Len(shown') + Gain(e)
        BY <1>1, <1>3, <1>12, <2>1
  <2>3. Whole' /\ (\A e \in Events' : e.sequence > cursor' => e.turn # follows')
              => Len(shown') = Texts(record', follows')
        BY <1>1, <1>11, <1>13, <2>1
  <2>4. QED
        BY <1>1, <2>1, <2>2, <2>3 DEF FollowInv, Gain
<1>15. ShownInv'
       BY <1>1 DEF ReadInv, ShownInv
<1>16. QED
       BY <1>7, <1>8, <1>9, <1>10, <1>14, <1>15 DEF ReadInv

\* The end of a sequence, from an element on.
LEMMA EndOfSeq ==
    ASSUME NEW S, NEW s \in Seq(S), NEW k \in 1 .. Len(s)
    PROVE  LET b == SubSeq(s, k, Len(s))
           IN  /\ b \in Seq(S) /\ Len(b) = Len(s) - k + 1
               /\ \A j \in 1 .. Len(s) - k + 1 : b[j] = s[k + j - 1]
OBVIOUS

\* The endpoint writes what the deque has after the cursor.
LEMMA ReadFetch ==
    ASSUME IInv, ReadInv, Fetch
    PROVE  ReadInv'
<1>1. /\ reader = "fetch" /\ UNCHANGED <<storeVars, jobVars, follows, cursor, shown>>
      /\ record' = record /\ stream' = stream /\ job' = job
      /\ follows' = follows /\ cursor' = cursor /\ shown' = shown
      BY DEF Fetch, storeVars, jobVars
<1>2. inbox = <<>> /\ Len(inbox) = 0 /\ 1 .. Len(inbox) = {}
      BY <1>1 DEF ReadInv, FlowInv
<1>3. CASE record = Gone \/ EventGap
  <2>1. reader' = "closed" /\ inbox' = <<>>
        BY <1>2, <1>3 DEF Fetch
  <2>2. QED
        BY <1>1, <2>1, ReadDrops
<1>4. CASE record # Gone /\ ~EventGap
  <2> DEFINE I == {i \in 1 .. Len(stream) : stream[i].sequence > cursor}
             first == SelectInSeq(stream, LAMBDA e : e.sequence > cursor)
             n == Len(stream)
             d == record.sequence - n
             k == cursor - d + 1
  <2>1. /\ reader' = "check"
        /\ inbox' = IF first = 0 THEN <<>> ELSE SubSeq(stream, first, n)
        BY <1>4 DEF Fetch
  <2>2. /\ record.sequence \in Nat /\ n \in Nat /\ cursor \in Nat /\ stream \in Seq(Event)
        /\ \A i \in 1 .. n : stream[i].sequence = d + i
        /\ cursor <= record.sequence
        BY <1>2, <1>4 DEF IInv, StoreInv, Record, ReadInv, FlowInv
  <2>3. /\ stream = <<>> => n = 0 /\ cursor = record.sequence
        /\ stream # <<>> => 1 \in 1 .. n /\ stream[1].sequence = d + 1 /\ cursor >= d
    <3>1. stream = <<>> => n = 0 /\ cursor = record.sequence
          BY <1>4, <2>2 DEF EventGap
    <3>2. ASSUME stream # <<>> PROVE 1 \in 1 .. n /\ stream[1].sequence = d + 1 /\ cursor >= d
      <4>1. 1 \in 1 .. n
            BY <2>2, <3>2
      <4>2. stream[1].sequence = d + 1 /\ Head(stream) = stream[1]
            BY <2>2, <3>2, <4>1
      <4>3. ~(cursor < (d + 1) - 1)
            BY <1>4, <3>2, <4>2 DEF EventGap
      <4>4. QED
            BY <2>2, <4>1, <4>2, <4>3
    <3>3. QED
          BY <3>1, <3>2
  <2>4. Whole
        BY <1>2, <1>4, <2>2, <2>3 DEF Whole
  <2>5. first = IF I # {} THEN Min(I) ELSE 0
        BY DEF SelectInSeq
  <2>6. CASE cursor = record.sequence
    <3>1. I = {}
          BY <2>2, <2>6
    <3>2. inbox' = inbox /\ Whole'
          BY <1>1, <1>2, <2>1, <2>4, <2>5, <3>1 DEF Whole
    <3>3. Events' = Events
          BY <1>1, <3>2 DEF Events
    <3>4. \A x \in Events : /\ Ahead(x)' <=> Ahead(x)
                            /\ Foremost(x)' <=> Foremost(x)
          BY <1>1, <2>4, <3>2, <3>3 DEF Ahead, Foremost
    <3>5. FlowInv'
          BY <1>1, <1>2, <2>1, <3>2 DEF ReadInv, FlowInv, ReaderState
    <3>6. PairInv' /\ BlockInv' /\ EventInv' /\ EndInv'
          BY <1>1, <2>1, <3>3 DEF ReadInv, PairInv, BlockInv, EventInv, EndInv, Gain
    <3>7. FollowInv'
          BY <1>1, <2>1, <2>4, <3>2, <3>3, <3>4 DEF ReadInv, FollowInv, Gain
    <3>8. ShownInv'
          BY <1>1, <2>1 DEF ReadInv, ShownInv
    <3>9. QED
          BY <3>5, <3>6, <3>7, <3>8 DEF ReadInv
  <2>7. CASE cursor < record.sequence
    <3>1. stream # <<>>
          BY <2>2, <2>3, <2>7
    <3>2. k \in 1 .. n /\ \A i \in 1 .. n : stream[i].sequence > cursor <=> i >= k
          BY <2>2, <2>3, <2>7, <3>1
    <3>3. I = k .. n
          BY <2>2, <3>2
    <3>4. k \in I /\ \A i \in I : k <= i
          BY <2>2, <3>2, <3>3
    <3>5. Min(I) = k
      <4>1. \A x \in I : (\A y \in I : x <= y) => x = k
            BY <2>2, <3>2, <3>3, <3>4
      <4>2. QED
            BY <3>4, <4>1 DEF Min
    <3>6. first = k
          BY <2>5, <3>4, <3>5
    <3> HIDE DEF I, first
    <3>7. inbox' = SubSeq(stream, k, n)
      <4>1. first # 0
            BY <3>2, <3>6
      <4>2. QED
            BY <2>1, <3>6, <4>1
    <3>8. /\ inbox' \in Seq(Event) /\ Len(inbox') = n - k + 1
          /\ \A j \in 1 .. n - k + 1 : inbox'[j] = stream[k + j - 1]
      <4>1. stream \in Seq(Event) /\ k \in 1 .. Len(stream)
            BY <2>2, <3>2
      <4> HIDE DEF k
      <4>2. QED
            BY <3>7, <4>1, EndOfSeq
    <3>9. Len(inbox') = record.sequence - cursor
          BY <2>2, <3>8
    <3>10. \A j \in 1 .. Len(inbox') : k + j - 1 \in 1 .. n /\ inbox'[j] = stream[k + j - 1]
                                       /\ inbox'[j].sequence = cursor + j
      <4> SUFFICES ASSUME NEW j \in 1 .. Len(inbox')
                   PROVE  k + j - 1 \in 1 .. n /\ inbox'[j] = stream[k + j - 1]
                          /\ inbox'[j].sequence = cursor + j
            OBVIOUS
      <4>1. k + j - 1 \in 1 .. n /\ inbox'[j] = stream[k + j - 1]
        <5> HIDE DEF k, n
        <5>1. j \in 1 .. n - k + 1 /\ k \in 1 .. n /\ n \in Nat
              BY <2>2, <3>2, <3>8
        <5>2. k + j - 1 \in 1 .. n
              BY <5>1
        <5>3. QED
              BY <3>8, <5>1, <5>2
      <4>2. stream[k + j - 1].sequence = d + (k + j - 1)
            BY <2>2, <4>1
      <4>3. d + (k + j - 1) = cursor + j
            BY <2>2
      <4>4. QED
            BY <4>1, <4>2, <4>3
    <3>11. Events' = Events
      <4>1. \A j \in 1 .. Len(inbox') : inbox'[j] \in {stream[i] : i \in 1 .. Len(stream)}
            BY <3>10
      <4>2. QED
            BY <1>1, <1>2, <4>1 DEF Events
    <3> HIDE DEF n, d, k
    <3>12. FlowInv'
      <4>1. cursor + Len(inbox') <= record.sequence
            BY <2>2, <3>9
      <4>2. QED
            BY <1>1, <2>1, <3>1, <3>8, <3>10, <4>1 DEF ReadInv, FlowInv, ReaderState
    <3>13. PairInv' /\ BlockInv' /\ EventInv' /\ EndInv'
          BY <1>1, <2>1, <3>11 DEF ReadInv, PairInv, BlockInv, EventInv, EndInv, Gain
    <3>14. \A x \in Events : /\ Ahead(x)' => Ahead(x)
                             /\ Foremost(x)' <=> Foremost(x)
          BY <1>1, <2>4, <3>11 DEF Ahead, Foremost
    <3>15. FollowInv'
          BY <1>1, <2>1, <2>4, <3>11, <3>14 DEF ReadInv, FollowInv, Gain
    <3>16. ShownInv'
          BY <1>1, <2>1 DEF ReadInv, ShownInv
    <3>17. QED
          BY <3>12, <3>13, <3>15, <3>16 DEF ReadInv
  <2>8. QED
        BY <2>2, <2>6, <2>7
<1>5. QED
      BY <1>3, <1>4

\* The client reads an event: a text goes on where the reply is, a "done" finds it
\* complete.
LEMMA ReadReceive ==
    ASSUME IInv, ReadInv, Receive
    PROVE  ReadInv'
<1> DEFINE e == inbox[1]
           over == e.turn = follows /\ e.type = "done"
<1>1. /\ reader = "check" /\ inbox # <<>>
      /\ UNCHANGED <<storeVars, jobVars, follows>>
      /\ record' = record /\ stream' = stream /\ job' = job /\ follows' = follows
      BY DEF Receive, storeVars, jobVars
<1>2. inbox \in Seq(Event) /\ Len(inbox) \in Nat /\ 1 \in 1 .. Len(inbox) /\ Head(inbox) = e
      BY <1>1 DEF ReadInv, FlowInv
<1>3. /\ cursor' = e.sequence
      /\ shown' = (IF e.turn = follows /\ e.type = "text" THEN Append(shown, e.text) ELSE shown)
      /\ inbox' = (IF over THEN <<>> ELSE Tail(inbox))
      /\ reader' = (IF over THEN "done" ELSE "check")
      BY <1>2 DEF Receive
<1>4. record # Gone => record.sequence \in Nat
      BY DEF IInv, StoreInv, Record
<1>5. /\ \A x \in Events : x \in Event /\ x.sequence \in Nat /\ x.text \in Nat /\ x.turn \in Turns
      /\ \A i \in 1 .. Len(stream) : stream[i] \in Events
      /\ \A i \in 1 .. Len(inbox) : inbox[i] \in Events
      /\ record # Gone => \A x \in Events : x.sequence <= record.sequence
      BY <1>4, EventFacts DEF ReadInv
<1>6. /\ cursor \in Nat /\ shown \in Seq(Nat) /\ Len(shown) \in Nat
      /\ \A i \in 1 .. Len(inbox) : inbox[i].sequence = cursor + i
      /\ record # Gone => cursor + Len(inbox) <= record.sequence
      /\ record # Gone => stream # <<>>
      BY <1>1 DEF ReadInv, FlowInv
<1>7. e \in Events /\ e.sequence = cursor + 1 /\ e.text \in Nat /\ e.turn \in Turns
      /\ cursor' = cursor + 1 /\ Gain(e) \in Nat
      BY <1>2, <1>3, <1>5, <1>6 DEF Gain
<1> HIDE DEF e
\* The events that are left.
<1>8. /\ inbox' \in Seq(Event) /\ Len(inbox') \in Nat
      /\ Len(inbox') <= Len(inbox) - 1
      /\ ~over => Len(inbox') = Len(inbox) - 1
      /\ \A i \in 1 .. Len(inbox') : i + 1 \in 1 .. Len(inbox) /\ inbox'[i] = inbox[i + 1]
  <2>1. CASE over
        BY <1>2, <1>3, <2>1
  <2>2. CASE ~over
    <3> DEFINE b == Tail(inbox)
    <3>1. b \in Seq(Event) /\ Len(b) = Len(inbox) - 1 /\ \A i \in 1 .. Len(b) : b[i] = inbox[i + 1]
          BY <1>1, <1>2
    <3>2. inbox' = b
          BY <1>3, <2>2
    <3> HIDE DEF b, over
    <3>3. \A i \in 1 .. Len(b) : i + 1 \in 1 .. Len(inbox)
          BY <1>2, <3>1
    <3>4. QED
          BY <1>2, <2>2, <3>1, <3>2, <3>3
  <2>3. QED
        BY <2>1, <2>2
<1>9. Events' \subseteq Events
      BY <1>1, <1>8 DEF Events
<1>10. ~over => \A x \in Events : x \in Events' \/ x = e
  <2> SUFFICES ASSUME ~over, NEW x \in Events PROVE x \in Events' \/ x = e
        OBVIOUS
  <2>1. CASE \E i \in 1 .. Len(stream) : x = stream[i]
        BY <1>1, <2>1 DEF Events
  <2>2. CASE \E i \in 1 .. Len(inbox) : x = inbox[i]
    <3>1. PICK i \in 1 .. Len(inbox) : x = inbox[i]
          BY <2>2
    <3>2. CASE i = 1
          BY <3>1, <3>2 DEF e
    <3>3. CASE i # 1
      <4>1. i - 1 \in 1 .. Len(inbox') /\ (i - 1) + 1 = i
            BY <1>2, <1>8, <3>3
      <4>2. inbox'[i - 1] = x
            BY <1>8, <3>1, <4>1
      <4>3. QED
            BY <4>1, <4>2 DEF Events
    <3>4. QED
          BY <3>2, <3>3
  <2>3. QED
        BY <2>1, <2>2 DEF Events
\* What is shown is the reply up to the event.
<1>11. /\ follows \in Turns /\ job[follows] \in Started
       /\ \A x \in Events : x.turn = follows /\ Ahead(x) /\ Foremost(x)
             => x.text = Len(shown) + Gain(x)
       /\ Whole /\ (\A x \in Events : x.sequence > cursor => x.turn # follows)
             => Len(shown) = Texts(record, follows)
       BY <1>1 DEF ReadInv, FollowInv
<1>12. e.turn = follows => e.text = Len(shown) + Gain(e)
  <2>1. Ahead(e) /\ Foremost(e)
        BY <1>2, <1>6, <1>7 DEF Ahead, Foremost, e
  <2>2. QED
        BY <1>7, <1>11, <2>1
<1>13. /\ shown' \in Seq(Nat)
       /\ Len(shown') = Len(shown) + (IF e.turn = follows THEN Gain(e) ELSE 0)
       /\ e.turn # follows => shown' = shown
       /\ e.turn = follows => Len(shown') = e.text
       /\ \A i \in 1 .. Len(shown') : shown'[i] = i
  <2>0. \A i \in 1 .. Len(shown) : shown[i] = i
        BY <1>6 DEF ReadInv, ShownInv
  <2>1. CASE e.turn = follows /\ e.type = "text"
    <3>1. shown' = Append(shown, e.text) /\ Gain(e) = 1
          BY <1>3, <2>1 DEF Gain
    <3>2. /\ shown' \in Seq(Nat) /\ Len(shown') = Len(shown) + 1
          /\ \A i \in 1 .. Len(shown) : shown'[i] = shown[i]
          /\ shown'[Len(shown) + 1] = e.text
          BY <1>6, <1>7, <3>1
    <3>3. e.text = Len(shown) + 1
          BY <1>12, <2>1, <3>1
    <3>4. \A i \in 1 .. Len(shown') : i \in 1 .. Len(shown) \/ i = Len(shown) + 1
          BY <1>6, <3>2
    <3>5. QED
          BY <2>0, <2>1, <3>1, <3>2, <3>3, <3>4
  <2>2. CASE ~(e.turn = follows /\ e.type = "text")
    <3>1. shown' = shown /\ (e.turn = follows => Gain(e) = 0)
          BY <1>3, <2>2 DEF Gain
    <3>2. QED
          BY <1>6, <1>12, <2>0, <3>1
  <2>3. QED
        BY <2>1, <2>2
<1>14. \A i \in DOMAIN shown' : shown'[i] = i
       BY <1>13
<1>15. FlowInv'
  <2>1. \A i \in 1 .. Len(inbox') : inbox'[i].sequence = cursor' + i
    <3> SUFFICES ASSUME NEW i \in 1 .. Len(inbox')
                 PROVE  inbox'[i].sequence = cursor' + i
          OBVIOUS
    <3>1. inbox'[i].sequence = cursor + (i + 1)
          BY <1>6, <1>8
    <3>2. QED
          BY <1>6, <1>7, <3>1
  <2>2. record # Gone => cursor' + Len(inbox') <= record.sequence
        BY <1>2, <1>4, <1>6, <1>7, <1>8
  <2>3. inbox' # <<>> => reader' = "check"
        BY <1>3
  <2>4. reader' \in ReaderState /\ reader' # "lost" /\ cursor' \in Nat
        BY <1>3, <1>6, <1>7 DEF ReaderState
  <2>5. QED
        BY <1>1, <1>6, <1>8, <1>13, <2>1, <2>2, <2>3, <2>4 DEF ReadInv, FlowInv
<1>16. PairInv' /\ BlockInv'
       BY <1>9 DEF ReadInv, PairInv, BlockInv, Gain
<1>17. EventInv'
       BY <1>1, <1>9 DEF ReadInv, EventInv, Gain
<1>18. EndInv'
       BY <1>1, <1>3, <1>9 DEF ReadInv, EndInv
<1>19. CASE over
  <2>1. reader' = "done" /\ e.turn = follows /\ e.type = "done" /\ Gain(e) = 0
        BY <1>3, <1>19 DEF Gain
  <2>2. Len(shown') = e.text
        BY <1>13, <2>1
  <2>3. /\ job[follows] = "done"
        /\ record # Gone => e.text = Texts(record, follows) /\ follows \in Completed(record)
        BY <1>7, <2>1 DEF ReadInv, EventInv
  <2>4. ShownInv'
        BY <1>1, <1>11, <1>13, <2>2, <2>3 DEF ShownInv
  <2>5. FollowInv'
        BY <2>1 DEF FollowInv
  <2>6. QED
        BY <1>15, <1>16, <1>17, <1>18, <2>4, <2>5 DEF ReadInv
<1>20. CASE ~over
  <2>1. reader' = "check" /\ Len(inbox') = Len(inbox) - 1
        BY <1>3, <1>8, <1>20
  <2>2. ShownInv'
        BY <1>13, <2>1 DEF ShownInv
  <2>3. cursor' + Len(inbox') = cursor + Len(inbox)
        BY <1>2, <1>6, <1>7, <2>1
  <2>4. Whole' <=> Whole
        BY <1>1, <2>3 DEF Whole
  <2>5. \A x \in Events : Ahead(x)' => Ahead(x)
    <3> SUFFICES ASSUME NEW x \in Events, Ahead(x)' PROVE Ahead(x)
          OBVIOUS
    <3>1. x.sequence > cursor' /\ (Whole' \/ \E i \in 1 .. Len(inbox') : inbox'[i] = x)
          BY DEF Ahead
    <3>2. x.sequence > cursor
          BY <1>5, <1>6, <1>7, <3>1
    <3>3. Whole \/ \E i \in 1 .. Len(inbox) : inbox[i] = x
          BY <1>8, <2>4, <3>1
    <3>4. QED
          BY <3>2, <3>3 DEF Ahead
  <2>6. ASSUME NEW x \in Events', x.turn = follows, Ahead(x)', Foremost(x)'
        PROVE  x.text = Len(shown') + Gain(x)
    <3>1. x \in Events /\ Ahead(x) /\ x.sequence > cursor + 1 /\ Gain(x) \in Nat
          BY <1>7, <1>9, <2>5, <2>6 DEF Ahead, Gain
    <3>2. CASE x.sequence = cursor' + 1
      <4>1. x.sequence = e.sequence + 1
            BY <1>7, <3>2
      <4>2. CASE e.turn = follows
        <5>1. x.text = e.text + Gain(x)
              BY <1>7, <2>6, <3>1, <4>1, <4>2 DEF ReadInv, PairInv
        <5>2. QED
              BY <1>13, <4>2, <5>1
      <4>3. CASE e.turn # follows
        <5>1. Foremost(x)
              BY <1>7, <2>6, <4>1, <4>3 DEF Foremost
        <5>2. QED
              BY <1>11, <1>13, <2>6, <3>1, <4>3, <5>1
      <4>4. QED
            BY <4>2, <4>3
    <3>3. CASE \E f \in Events' : f.sequence + 1 = x.sequence /\ f.turn # x.turn
      <4>1. PICK f \in Events' : f.sequence + 1 = x.sequence /\ f.turn # x.turn
            BY <3>3
      <4>2. f \in Events /\ f.sequence \in Nat
            BY <1>5, <1>9
      <4>3. CASE e.turn # follows
        <5>1. Foremost(x)
              BY <4>1, <4>2 DEF Foremost
        <5>2. QED
              BY <1>11, <1>13, <2>6, <3>1, <4>3, <5>1
      <4>4. CASE e.turn = follows
        <5>1. f # e
              BY <2>6, <4>1, <4>4
        <5>2. f.sequence # e.sequence
              BY <1>7, <4>2, <5>1 DEF ReadInv, PairInv
        <5>3. e.sequence < f.sequence /\ f.sequence < x.sequence
              BY <1>6, <1>7, <3>1, <4>1, <4>2, <5>2
        <5>4. f.turn = e.turn
              BY <1>7, <2>6, <3>1, <4>2, <4>4, <5>3 DEF ReadInv, BlockInv
        <5>5. QED
              BY <2>6, <4>1, <4>4, <5>4
      <4>5. QED
            BY <4>3, <4>4
    <3>4. QED
          BY <2>6, <3>2, <3>3 DEF Foremost
  <2>7. ASSUME Whole, \A x \in Events' : x.sequence > cursor' => x.turn # follows
        PROVE  Len(shown') = Texts(record, follows)
    <3>1. record # Gone /\ stream # <<>> /\ cursor + Len(inbox) >= stream[1].sequence - 1
          BY <1>6, <2>7 DEF Whole
    <3>2. CASE e.turn # follows
      <4>1. ASSUME NEW x \in Events, x.sequence > cursor PROVE x.turn # follows
        <5>1. CASE x = e
              BY <3>2, <5>1
        <5>2. CASE x # e
          <6>1. x \in Events'
                BY <1>10, <1>20, <5>2
          <6>2. x.sequence # e.sequence
                BY <1>7, <5>2 DEF ReadInv, PairInv
          <6>3. x.sequence > cursor'
                BY <1>5, <1>6, <1>7, <4>1, <6>2
          <6>4. QED
                BY <2>7, <6>1, <6>3
        <5>3. QED
              BY <5>1, <5>2
      <4>2. QED
            BY <1>11, <1>13, <2>7, <3>2, <4>1
    <3>3. CASE e.turn = follows
      <4>1. e.sequence <= record.sequence /\ record.sequence \in Nat
            BY <1>4, <1>5, <1>7, <3>1
      <4>2. CASE e.sequence = record.sequence
        <5>1. e.text = Texts(record, follows)
              BY <1>7, <3>1, <3>3, <4>2 DEF ReadInv, EndInv
        <5>2. QED
              BY <1>13, <3>3, <5>1
      <4>3. CASE e.sequence # record.sequence
        <5>1. \E x \in Events : x.sequence = e.sequence + 1
          <6>1. CASE Len(inbox) >= 2
            <7>1. 2 \in 1 .. Len(inbox)
                  BY <1>2, <6>1
            <7>2. inbox[2] \in Events /\ inbox[2].sequence = cursor + 2
                  BY <1>5, <1>6, <7>1
            <7>3. QED
                  BY <1>6, <1>7, <7>2
          <6>2. CASE Len(inbox) = 1
            <7>1. 1 \in 1 .. Len(stream) /\ stream[1] \in Events
              <8>1. 1 \in 1 .. Len(stream)
                    BY <3>1 DEF ReadInv, FlowInv
              <8>2. QED
                    BY <1>5, <8>1
            <7>2. stream[1].sequence \in Nat
                  BY <1>5, <7>1
            <7>3. e.sequence + 1 >= stream[1].sequence /\ e.sequence + 1 <= record.sequence
                  /\ e.sequence + 1 \in Nat
                  BY <1>6, <1>7, <3>1, <4>1, <4>3, <6>2, <7>2
            <7>4. QED
                  BY <3>1, <4>1, <7>3, WholeHas
          <6>3. Len(inbox) >= 2 \/ Len(inbox) = 1
            <7>1. Len(inbox) \in Nat /\ Len(inbox) >= 1
                  BY <1>2
            <7>2. \A m \in Nat : m >= 1 => m >= 2 \/ m = 1
                  OBVIOUS
            <7>3. QED
                  BY <7>1, <7>2
          <6>4. QED
                BY <6>1, <6>2, <6>3
        <5>2. PICK x \in Events : x.sequence = e.sequence + 1
              BY <5>1
        <5>3. x \in Events' /\ x.sequence > cursor'
              BY <1>6, <1>7, <1>10, <1>20, <5>2
        <5>4. x.turn # e.turn
              BY <2>7, <3>3, <5>3
        <5>5. e.text = Texts(record, follows)
              BY <1>7, <3>1, <3>3, <5>2, <5>4 DEF ReadInv, EndInv
        <5>6. QED
              BY <1>13, <3>3, <5>5
      <4>4. QED
            BY <4>2, <4>3
    <3>4. QED
          BY <3>2, <3>3
  <2>8. FollowInv'
    <3>1. \A x \in Events' : x.turn = follows /\ Ahead(x)' /\ Foremost(x)'
              => x.text = Len(shown') + Gain(x)
          BY <2>6
    <3>2. Whole' /\ (\A x \in Events' : x.sequence > cursor' => x.turn # follows)
              => Len(shown') = Texts(record, follows)
          BY <2>4, <2>7
    <3>3. QED
          BY <1>1, <1>11, <3>1, <3>2 DEF FollowInv, Gain
  <2>9. QED
        BY <1>15, <1>16, <1>17, <1>18, <2>2, <2>8 DEF ReadInv
<1>21. QED
       BY <1>19, <1>20

-----------------------------------------------------------------------------
\* What the store's steps do to the events

\* An event of the active turn.
LEMMA EmitAdds ==
    ASSUME IInv, NEW t \in Turns, record # Gone, record.active = t, job[t] \in Alive,
           NEW type \in {"text", "error", "done"}, NEW r \in Record,
           r.sequence = record.sequence + 1, r.active = t, Alike(record, r),
           \A k \in 1 .. Len(record.messages) :
              /\ r.messages[k].text =
                    record.messages[k].text
                       + (IF type = "text" /\ k = Len(record.messages) THEN 1 ELSE 0)
              /\ record.messages[k].status # "streaming" => r.messages[k].status # "streaming",
           record' = r \/ record' = [r EXCEPT !.active = NoTurn],
           stream' = Pushed(r, t, type),
           \A u \in Turns \ {t} : job'[u] = job[u], job'[t] \in Started,
           type = "done" =>
              job'[t] = "done" /\ r.messages[Len(r.messages)].status # "streaming",
           UNCHANGED readerVars
    PROVE  Adds(t, type)
<1> DEFINE n == Len(record.messages)
<1>1. /\ record \in Record /\ Good(record) /\ Distinct(record) /\ record.messages # <<>>
      /\ record.messages[n].turn = t
      BY HistoryAssumption DEF IInv, StoreInv, Good, Opened
<1>2. /\ record.messages \in Seq(Message) /\ r.messages \in Seq(Message)
      /\ n \in Nat /\ n \in 1 .. n /\ record.sequence \in Nat
      /\ Len(r.messages) = n
      BY <1>1 DEF Record, Alike
<1>3. /\ record' \in Record /\ record'.messages = r.messages /\ record'.sequence = r.sequence
      /\ record'.active \in {t, NoTurn} /\ record' # Gone
      BY RecordAssumption DEF Record
<1>4. \A k \in 1 .. n : record'.messages[k].turn = record.messages[k].turn
      BY <1>3 DEF Alike
<1>5. Distinct(record')
      BY <1>1, <1>2, <1>3, <1>4 DEF Distinct
<1>6. TurnsOf(record') = TurnsOf(record)
      BY <1>2, <1>3, <1>4 DEF TurnsOf
<1>7. \A k \in 1 .. n : record.messages[k].text \in Nat /\ r.messages[k].text \in Nat
      BY <1>1, <1>2, MessageFacts
<1>8. Texts(record, t) = record.messages[n].text /\ Texts(record', t) = r.messages[n].text
      BY <1>1, <1>2, <1>3, <1>4, <1>5, TextsFound
<1>9. ASSUME NEW u \in Turns \ {t} PROVE Texts(record', u) = Texts(record, u)
  <2>1. \A k \in 1 .. n : record.messages[k].turn = u => k # n
        BY <1>1
  <2>2. \A k \in 1 .. n : record.messages[k].turn = u =>
           record'.messages[k].text = record.messages[k].text
        BY <1>3, <1>7, <2>1
  <2>3. n <= Len(record'.messages)
        BY <1>2, <1>3
  <2>4. QED
        BY <1>1, <1>3, <1>4, <1>5, <1>6, <2>2, <2>3, SameTexts
<1>10. DOMAIN record.messages = 1 .. n /\ DOMAIN record'.messages = 1 .. n
       BY <1>2, <1>3
<1>11. Completed(record) \subseteq Completed(record')
  <2> SUFFICES ASSUME NEW j \in 1 .. n, record.messages[j].status # "streaming"
               PROVE  record.messages[j].turn \in Completed(record')
        BY <1>10 DEF Completed
  <2>1. record'.messages[j].status # "streaming"
        BY <1>3
  <2>2. QED
        BY <1>4, <1>10, <2>1 DEF Completed
<1>12. type = "done" => t \in Completed(record')
       BY <1>1, <1>2, <1>3, <1>4, <1>10 DEF Completed
<1>13. stream' = Append(IF Len(stream) = Kept THEN Tail(stream) ELSE stream,
                        [sequence |-> record.sequence + 1, turn |-> t, type |-> type,
                         text |-> Texts(record', t)])
  <2>1. Last(r.messages) = r.messages[n]
        BY <1>2 DEF Last
  <2>2. QED
        BY <1>8, <2>1 DEF Pushed
<1>14. Texts(record', t) \in Nat
       /\ Texts(record', t) = Texts(record, t) + (IF type = "text" THEN 1 ELSE 0)
       BY <1>2, <1>7, <1>8
<1>15. QED
       BY <1>2, <1>3, <1>9, <1>11, <1>12, <1>13, <1>14 DEF Adds

\* The step of a thread.
LEMMA MovedOne ==
    ASSUME IInv, NEW t \in Turns, NEW to, Moved(t, to)
    PROVE  job'[t] = to /\ \A u \in Turns \ {t} : job'[u] = job[u]
BY DEF IInv, StoreInv, Moved

\* emit, for the active turn.
LEMMA LoggedAdds ==
    ASSUME IInv, NEW t \in Turns, Takes(t), job[t] \in Alive,
           NEW type \in {"text", "error"},
           record' = Logged(record, type), stream' = Pushed(record', t, type),
           \A u \in Turns \ {t} : job'[u] = job[u], job'[t] \in Started,
           UNCHANGED readerVars
    PROVE  Adds(t, type)
<1> DEFINE r == Logged(record, type)
<1>1. /\ record # Gone /\ record.active = t /\ record \in Record /\ record.messages # <<>>
      BY HistoryAssumption DEF IInv, StoreInv, Good, Opened, Takes
<1>2. /\ r \in Record /\ r.active = t /\ r.sequence = record.sequence + 1 /\ Alike(record, r)
      /\ \A k \in 1 .. Len(record.messages) :
           /\ r.messages[k].text = record.messages[k].text
                 + (IF type = "text" /\ k = Len(record.messages) THEN 1 ELSE 0)
           /\ r.messages[k].status = record.messages[k].status
      BY <1>1, LoggedFacts
<1> HIDE DEF r
<1>3. record' = r /\ stream' = Pushed(r, t, type)
      BY DEF r, Pushed
<1>4. QED
      BY <1>1, <1>2, <1>3, EmitAdds

\* A step that leaves the replies alone; threads go on.
LEMMA KeepsFrom ==
    ASSUME IInv, record' = Gone <=> record = Gone,
           record # Gone => /\ record'.messages = record.messages
                            /\ record'.sequence = record.sequence
                            /\ record'.active = record.active,
           stream' = stream, UNCHANGED readerVars,
           \A t \in Turns : job'[t] = job[t] \/ (job[t] \in Alive /\ job'[t] \in Started)
    PROVE  Keeps
<1>1. record # Gone => record.sequence \in Nat /\ record.active \in Turns \cup {NoTurn}
      BY DEF IInv, StoreInv, Record
<1>2. record # Gone => /\ \A t \in Turns : Texts(record', t) = Texts(record, t)
                       /\ Completed(record) \subseteq Completed(record')
      BY DEF Texts, Completed
<1>3. \A t \in Turns :
         /\ job[t] \in Started <=> job'[t] \in Started
         /\ job[t] = "done" => job'[t] = "done"
         /\ job'[t] \in Alive => job[t] \in Alive
      BY DEF Started, Alive
<1>4. QED
      BY <1>1, <1>2, <1>3 DEF Keeps

\* A step that leaves the store alone.
LEMMA KeepsSame ==
    ASSUME IInv, UNCHANGED <<record, stream, readerVars>>,
           \/ job' = job
           \/ \E t \in Turns, to \in Started : job[t] \in Alive /\ Moved(t, to)
    PROVE  Keeps
<1>1. \A t \in Turns : job'[t] = job[t] \/ (job[t] \in Alive /\ job'[t] \in Started)
  <2>1. CASE job' = job
        BY <2>1
  <2>2. CASE \E t \in Turns, to \in Started : job[t] \in Alive /\ Moved(t, to)
    <3>1. PICK t \in Turns, to \in Started : job[t] \in Alive /\ Moved(t, to)
          BY <2>2
    <3>2. job'[t] = to /\ \A u \in Turns \ {t} : job'[u] = job[u]
          BY <3>1, MovedOne
    <3>3. QED
          BY <3>1, <3>2
  <2>3. QED
        BY <2>1, <2>2
<1>2. QED
      BY <1>1, KeepsFrom

LEMMA EmitTextEvent ==
    ASSUME IInv, NEW t \in Turns, EmitText(t)
    PROVE  Adds(t, "text") \/ Keeps
<1>1. job[t] \in Alive /\ "raise" \in Started /\ UNCHANGED readerVars
      BY DEF EmitText, Streaming, Alive, Started
<1>2. CASE Takes(t)
  <2>1. /\ record' = Logged(record, "text") /\ stream' = Pushed(record', t, "text")
        /\ job' = job \/ Moved(t, "raise")
        BY <1>2 DEF EmitText
  <2>2. job'[t] \in Started /\ \A u \in Turns \ {t} : job'[u] = job[u]
    <3>1. CASE job' = job
          BY <1>1, <3>1 DEF Started
    <3>2. CASE Moved(t, "raise")
          BY <1>1, <3>2, MovedOne
    <3>3. QED
          BY <2>1, <3>1, <3>2
  <2>3. QED
        BY <1>1, <1>2, <2>1, <2>2, LoggedAdds
<1>3. CASE ~Takes(t)
  <2>1. UNCHANGED <<record, stream, readerVars>> /\ job' = job
        BY <1>1, <1>3 DEF EmitText, storeVars
  <2>2. QED
        BY <2>1, KeepsSame
<1>4. QED
      BY <1>2, <1>3

LEMMA EmitErrorEvent ==
    ASSUME IInv, NEW t \in Turns, EmitError(t)
    PROVE  Adds(t, "error") \/ Keeps
<1>1. job[t] \in Alive /\ "release" \in Started /\ Moved(t, "release") /\ UNCHANGED readerVars
      BY DEF EmitError, Alive, Started
<1>2. job'[t] \in Started /\ \A u \in Turns \ {t} : job'[u] = job[u]
      BY <1>1, MovedOne
<1>3. CASE t \notin stopping /\ Takes(t)
  <2>1. record' = Logged(record, "error") /\ stream' = Pushed(record', t, "error")
        BY <1>3 DEF EmitError
  <2>2. QED
        BY <1>1, <1>2, <1>3, <2>1, LoggedAdds
<1>4. CASE ~(t \notin stopping /\ Takes(t))
  <2>1. UNCHANGED <<record, stream, readerVars>>
        BY <1>1, <1>4 DEF EmitError
  <2>2. QED
        BY <1>1, <2>1, KeepsSame
<1>5. QED
      BY <1>3, <1>4

LEMMA StopFailsEvent ==
    ASSUME IInv, NEW t \in Turns, StopFails(t)
    PROVE  Adds(t, "error") \/ Keeps
<1>1. /\ job[t] \in Alive /\ UNCHANGED readerVars
      /\ \E to \in Started : Moved(t, to)
      BY DEF StopFails, Alive, Started
<1>2. job'[t] \in Started /\ \A u \in Turns \ {t} : job'[u] = job[u]
      BY <1>1, MovedOne
<1>3. CASE Takes(t)
  <2>1. record' = Logged(record, "error") /\ stream' = Pushed(record', t, "error")
        BY <1>3 DEF StopFails
  <2>2. QED
        BY <1>1, <1>2, <1>3, <2>1, LoggedAdds
<1>4. CASE ~Takes(t)
  <2>1. UNCHANGED <<record, stream, readerVars>>
        BY <1>1, <1>4 DEF StopFails
  <2>2. QED
        BY <1>1, <2>1, KeepsSame
<1>5. QED
      BY <1>3, <1>4

LEMMA FinishEvent ==
    ASSUME IInv, NEW t \in Turns, Finish(t)
    PROVE  Adds(t, "done") \/ Keeps
<1>1. job[t] \in Alive /\ "done" \in Started /\ Moved(t, "done") /\ UNCHANGED readerVars
      BY DEF Finish, Alive, Started
<1>2. job'[t] = "done" /\ \A u \in Turns \ {t} : job'[u] = job[u]
      BY <1>1, MovedOne
<1>3. CASE record = Gone \/ record.active # t
  <2>1. UNCHANGED <<record, stream, readerVars>>
        BY <1>1, <1>3 DEF Finish, storeVars
  <2>2. QED
        BY <1>1, <2>1, KeepsSame
<1>4. CASE record # Gone /\ record.active = t
  <2> DEFINE status == IF t \in stopping \cup failed \cup cancelled THEN "stopped" ELSE "complete"
             closed == [record EXCEPT !.messages[Len(record.messages)].status = status]
             r == Logged(closed, "done")
             n == Len(record.messages)
  <2>1. record \in Record /\ record.messages # <<>> /\ n \in 1 .. n
    <3>1. record \in Record /\ record.messages # <<>>
          BY <1>4, HistoryAssumption DEF IInv, StoreInv, Good, Opened
    <3>2. QED
          BY <3>1 DEF Record
  <2>2. /\ record' = r \/ record' = [r EXCEPT !.active = NoTurn]
        /\ stream' = Pushed(r, t, "done")
        BY <1>4 DEF Finish
  <2>3. /\ closed \in Record /\ closed.active = t /\ closed.sequence = record.sequence
        /\ Alike(record, closed)
        /\ \A k \in 1 .. n :
             /\ closed.messages[k].text = record.messages[k].text
             /\ closed.messages[k].status = (IF k = n THEN status ELSE record.messages[k].status)
        /\ status # "streaming"
    <3>1. status \in {"complete", "stopped"}
          OBVIOUS
    <3> HIDE DEF status
    <3>2. QED
          BY <1>4, <2>1, <3>1, ClosedFacts
  <2> HIDE DEF closed, status
  <2>4. /\ r \in Record /\ r.active = t /\ r.sequence = closed.sequence + 1 /\ Alike(closed, r)
        /\ \A k \in 1 .. Len(closed.messages) :
              /\ r.messages[k].text = closed.messages[k].text + 0
              /\ r.messages[k].status = closed.messages[k].status
        BY <2>3, LoggedFacts
  <2>5. \A k \in 1 .. n : closed.messages[k].text \in Nat
        BY <2>3, MessageFacts DEF Alike
  <2> HIDE DEF r
  <2>6. Alike(record, r)
        BY <2>3, <2>4 DEF Alike
  <2>7. \A k \in 1 .. n : /\ r.messages[k].text = record.messages[k].text + 0
                          /\ record.messages[k].status # "streaming" =>
                                r.messages[k].status # "streaming"
        BY <2>3, <2>4, <2>5 DEF Alike
  <2>8. r.messages[Len(r.messages)].status # "streaming"
        BY <2>1, <2>3, <2>4, <2>6 DEF Alike
  <2>9. r.sequence = record.sequence + 1
        BY <2>3, <2>4
  <2> HIDE DEF n
  <2>10. QED
        BY <1>1, <1>2, <1>4, <2>2, <2>4, <2>6, <2>7, <2>8, <2>9, EmitAdds DEF n
<1>5. QED
      BY <1>3, <1>4

\* A turn begins with an event, or is refused with its reply begun.
LEMMA BeginEvent ==
    ASSUME IInv, NEW t \in Turns, Begin(t)
    PROVE  Adds(t, "status") \/ Keeps
<1> DEFINE m == [turn |-> t, status |-> "streaming", text |-> 0]
           b == Append(record.messages, m)
           r == [record EXCEPT !.messages = b, !.active = t]
           n == Len(record.messages)
<1>1. /\ record # Gone /\ record \in Record /\ Good(record) /\ Distinct(record)
      /\ m \in Message /\ m.turn = t /\ m.text = 0
      /\ job[t] = "idle" /\ UNCHANGED readerVars
      BY DEF Begin, IInv, StoreInv, Good, Message
<1>2. t \notin TurnsOf(record)
      BY <1>1 DEF IInv, StoreInv, Known
<1>3. \/ /\ record' = Logged(r, "status") /\ stream' = Pushed(record', t, "status")
         /\ Moved(t, "run")
      \/ /\ record' = r /\ stream' = stream /\ Moved(t, "refused")
      BY DEF Begin
<1>4. record.messages \in Seq(Message) /\ n \in Nat /\ record.sequence \in Nat
      BY <1>1 DEF Record
<1>5. b \in Seq(Message)
      BY <1>1, <1>4
<1> HIDE DEF b, m
<1>6. /\ r \in Record /\ r.messages = b /\ r.active = t /\ r.sequence = record.sequence
      /\ r.selected = record.selected /\ r.context_error = record.context_error
      BY <1>1, <1>5 DEF Record
<1> HIDE DEF r
<1>7. /\ Good(r) /\ TurnsOf(r) = TurnsOf(record) \cup {t} /\ Len(b) = n + 1
      /\ \A k \in 1 .. n : b[k] = record.messages[k]
      /\ b[n + 1] = m
  <2>1. r.messages = Append(record.messages, m)
        BY <1>6 DEF b
  <2>2. QED
        BY <1>1, <1>2, <1>6, <2>1, BegunFacts
<1>8. n + 1 \in 1 .. Len(b) /\ 1 .. n \subseteq 1 .. Len(b) /\ n <= Len(b)
      BY <1>4, <1>7
<1>9. Texts(r, t) = 0 /\ Texts(record, t) = 0
  <2>1. Texts(r, t) = 0
        BY <1>1, <1>6, <1>7, <1>8, TextsFound DEF Good
  <2>2. QED
        BY <1>1, <1>2, <2>1, TextsNone
<1>10. ASSUME NEW u \in Turns \ {t} PROVE Texts(r, u) = Texts(record, u)
       BY <1>1, <1>6, <1>7, <1>8, SameTexts DEF Good
<1>11. DOMAIN record.messages = 1 .. n /\ DOMAIN r.messages = 1 .. Len(b)
       BY <1>4, <1>5, <1>6
<1>12. Completed(record) \subseteq Completed(r)
       BY <1>6, <1>7, <1>8, <1>11 DEF Completed
<1>13. CASE /\ record' = Logged(r, "status") /\ stream' = Pushed(record', t, "status")
            /\ Moved(t, "run")
  <2>1. /\ record' \in Record /\ record'.sequence = record.sequence + 1 /\ record'.active = t
        BY <1>6, <1>13, LoggedFacts
  <2>2. record'.messages = b
    <3>1. record' = [r EXCEPT !.sequence = r.sequence + 1, !.messages = r.messages]
          BY <1>13 DEF Logged
    <3>2. QED
          BY <1>6, <3>1 DEF Record
  <2>3. \A u \in Turns : Texts(record', u) = Texts(r, u)
        BY <1>6, <2>2 DEF Texts
  <2>4. Completed(record') = Completed(r)
        BY <1>6, <2>2 DEF Completed
  <2>5. record' # Gone
        BY <2>1, RecordAssumption
  <2>6. job'[t] \in Started /\ \A u \in Turns \ {t} : job'[u] = job[u]
        BY <1>13, MovedOne DEF Started, Alive
  <2>7. stream' = Append(IF Len(stream) = Kept THEN Tail(stream) ELSE stream,
                        [sequence |-> record.sequence + 1, turn |-> t, type |-> "status",
                         text |-> Texts(record', t)])
    <3>1. Last(record'.messages).text = 0
          BY <1>1, <1>7, <2>2 DEF Last
    <3>2. QED
          BY <1>9, <1>13, <2>1, <2>3, <3>1 DEF Pushed
  <2>8. QED
        BY <1>1, <1>4, <1>9, <1>10, <1>12, <2>1, <2>3, <2>4, <2>5, <2>6, <2>7 DEF Adds
<1>14. CASE record' = r /\ stream' = stream /\ Moved(t, "refused")
  <2>1. record' # Gone
        BY <1>6, <1>14, RecordAssumption
  <2>2. job'[t] = "refused" /\ \A u \in Turns \ {t} : job'[u] = job[u]
        BY <1>14, MovedOne
  <2>3. \A u \in Turns : Texts(record', u) = Texts(record, u)
        BY <1>9, <1>10, <1>14
  <2>4. \A u \in Turns :
         /\ job[u] \in Started <=> job'[u] \in Started
         /\ job[u] = "done" => job'[u] = "done"
         /\ job'[u] \in Alive => job[u] \in Alive
        BY <1>1, <2>2 DEF Started, Alive
  <2>5. job'[record'.active] \notin Alive
        BY <1>6, <1>14, <2>2 DEF Alive
  <2>6. QED
        BY <1>1, <1>4, <1>6, <1>12, <1>14, <2>1, <2>3, <2>4, <2>5 DEF Keeps
<1>15. QED
       BY <1>3, <1>13, <1>14

\* The requests.
LEMMA RequestEvent ==
    ASSUME IInv, \/ \E save \in BOOLEAN : SetSaved(save)
                 \/ \E turns \in SUBSET Turns : SetContext(turns)
    PROVE  Keeps
<1>1. /\ record # Gone /\ record \in Record /\ stream' = stream /\ job' = job
      /\ UNCHANGED readerVars
      BY DEF SetSaved, SetContext, jobVars, IInv, StoreInv
<1>2. /\ record' \in Record /\ record'.messages = record.messages
      /\ record'.sequence = record.sequence /\ record'.active = record.active
  <2>1. CASE \E save \in BOOLEAN : SetSaved(save)
    <3>1. PICK save \in BOOLEAN : record' = [record EXCEPT !.save = save]
          BY <2>1 DEF SetSaved
    <3>2. QED
          BY <1>1, <3>1 DEF Record
  <2>2. CASE \E turns \in SUBSET Turns : SetContext(turns)
    <3>1. PICK turns \in SUBSET Turns :
             record' = [record EXCEPT !.selected = turns, !.context_error = FALSE]
          BY <2>2 DEF SetContext
    <3>2. QED
          BY <1>1, <3>1 DEF Record
  <2>3. QED
        BY <2>1, <2>2
<1>3. record' # Gone
      BY <1>2, RecordAssumption
<1>4. QED
      BY <1>1, <1>2, <1>3, KeepsFrom

\* At the start there is no event.
LEMMA ReadInit == Init => ReadInv
<1> SUFFICES ASSUME Init PROVE ReadInv
      OBVIOUS
<1>1. /\ stream = <<>> /\ inbox = <<>> /\ cursor = 0 /\ shown = <<>> /\ reader = "idle"
      /\ job = [t \in Turns |-> "idle"]
      BY DEF Init
<1>2. Events = {}
      BY <1>1 DEF Events
<1>3. record # Gone => record.sequence \in Nat
      BY InitInv DEF IInv, StoreInv, Record
<1>4. FlowInv
      BY <1>1, <1>3, HistoryAssumption DEF FlowInv, ReaderState
<1>5. PairInv /\ BlockInv /\ EventInv
      BY <1>2 DEF PairInv, BlockInv, EventInv
<1>6. EndInv
      BY <1>1, <1>2 DEF EndInv, Started, Alive
<1>7. FollowInv /\ ShownInv
      BY <1>1 DEF FollowInv, ShownInv
<1>8. QED
      BY <1>4, <1>5, <1>6, <1>7 DEF ReadInv

\* The client's invariant is inductive.
LEMMA ReadInductive == Spec => []ReadInv
<1>1. IInv /\ ReadInv /\ [Next]_vars => ReadInv'
  <2> SUFFICES ASSUME IInv, ReadInv, [Next]_vars PROVE ReadInv'
        OBVIOUS
  <2>1. ASSUME NEW t \in Turns, Begin(t) \/ EmitText(t) \/ TurnStep(t) \/ Cancel(t) \/ Follow(t)
        PROVE  ReadInv'
    <3>1. CASE Begin(t)
          BY <3>1, BeginEvent, ReadAdds, ReadKeeps
    <3>2. CASE EmitText(t)
          BY <3>2, EmitTextEvent, ReadAdds, ReadKeeps
    <3>3. CASE EmitError(t) \/ StopFails(t)
          BY <3>3, EmitErrorEvent, StopFailsEvent, ReadAdds, ReadKeeps
    <3>4. CASE Finish(t)
          BY <3>4, FinishEvent, ReadAdds, ReadKeeps
    <3>5. CASE Fails(t) \/ ReplyEnds(t)
      <4>1. /\ UNCHANGED <<record, stream, readerVars>> /\ job[t] \in Alive
            /\ \E to \in Started : Moved(t, to)
            BY <3>5 DEF Fails, ReplyEnds, Streaming, storeVars, Alive, Started
      <4>2. QED
            BY <4>1, KeepsSame, ReadKeeps
    <3>6. CASE Cancel(t)
      <4>1. UNCHANGED <<record, stream, readerVars>> /\ job' = job
            BY <3>6 DEF Cancel
      <4>2. QED
            BY <4>1, KeepsSame, ReadKeeps
    <3>7. CASE Follow(t)
          BY <3>7, ReadFollow
    <3>8. QED
          BY <2>1, <3>1, <3>2, <3>3, <3>4, <3>5, <3>6, <3>7 DEF TurnStep
  <2>2. CASE \/ \E save \in BOOLEAN : SetSaved(save)
             \/ \E turns \in SUBSET Turns : SetContext(turns)
        BY <2>2, RequestEvent, ReadKeeps
  <2>3. CASE Delete
        BY <2>3, ReadDelete
  <2>4. CASE Crash
        BY <2>4, ReadCrash
  <2>5. CASE OpenEvents \/ CheckActive \/ Break
    <3>1. inbox' = <<>>
          BY <2>5 DEF OpenEvents, CheckActive, Break, ReadInv, FlowInv
    <3>2. /\ reader \in {"closed", "fetch", "check"} /\ reader' \in {"told", "closed", "fetch"}
          /\ UNCHANGED <<storeVars, jobVars, follows, cursor, shown>>
          BY <2>5 DEF OpenEvents, CheckActive, Break
    <3>3. QED
          BY <3>1, <3>2, ReadDrops
  <2>6. CASE Fetch
        BY <2>6, ReadFetch
  <2>7. CASE Receive
        BY <2>7, ReadReceive
  <2>8. CASE UNCHANGED vars
    <3>1. UNCHANGED <<record, stream, readerVars>> /\ job' = job
          BY <2>8 DEF vars, storeVars, jobVars
    <3>2. QED
          BY <3>1, KeepsSame, ReadKeeps
  <2>9. QED
        BY <2>1, <2>2, <2>3, <2>4, <2>5, <2>6, <2>7, <2>8 DEF Next, ReaderStep
<1>2. QED
      BY ReadInit, Inductive, <1>1, PTL DEF Spec

-----------------------------------------------------------------------------
\* What was done is on disk

\* Without failing saves: the active turn's reply is open, and a reply that was
\* closed is in the file as it is in memory.  (After a crash nobody is told.)
DurInv ==
    faults = 0 /\ record # Gone =>
       /\ record.active # NoTurn =>
             record.messages[Len(record.messages)].status = "streaming"
       /\ reader # "lost" /\ record.save =>
             /\ file # NoFile
             /\ \A k \in 1 .. Len(record.messages) :
                   record.messages[k].status # "streaming" =>
                       file.messages[k] = record.messages[k]

\* A step that keeps the replies, and saves the record or leaves the file.
LEMMA DurFrom ==
    ASSUME IInv, IInv', DurInv,
           faults' = 0 =>
              /\ faults = 0 /\ record # Gone
              /\ Len(record'.messages) = Len(record.messages)
              /\ record'.active \in {record.active, NoTurn}
              /\ record'.active # NoTurn =>
                    record'.messages[Len(record'.messages)].status
                        = record.messages[Len(record'.messages)].status
              /\ \/ record'.save => file' # NoFile /\ file'.messages = record'.messages
                 \/ /\ record'.save = record.save /\ file' = file
                    /\ \A k \in 1 .. Len(record'.messages) :
                          record'.messages[k].status # "streaming" =>
                              record'.messages[k] = record.messages[k],
           reader = "lost" => reader' = "lost"
    PROVE  DurInv'
<1> SUFFICES ASSUME faults' = 0, record' # Gone
             PROVE  /\ record'.active # NoTurn =>
                          record'.messages[Len(record'.messages)].status = "streaming"
                    /\ reader' # "lost" /\ record'.save =>
                          /\ file' # NoFile
                          /\ \A k \in 1 .. Len(record'.messages) :
                                record'.messages[k].status # "streaming" =>
                                    file'.messages[k] = record'.messages[k]
      BY DEF DurInv
<1>1. /\ record.active # NoTurn =>
             record.messages[Len(record.messages)].status = "streaming"
      /\ reader # "lost" /\ record.save =>
             /\ file # NoFile
             /\ \A k \in 1 .. Len(record.messages) :
                   record.messages[k].status # "streaming" =>
                       file.messages[k] = record.messages[k]
      BY DEF DurInv
<1>2. record'.active # NoTurn =>
                          record'.messages[Len(record'.messages)].status = "streaming"
      BY <1>1
<1>3. ASSUME reader' # "lost", record'.save
      PROVE  /\ file' # NoFile
             /\ \A k \in 1 .. Len(record'.messages) :
                   record'.messages[k].status # "streaming" =>
                       file'.messages[k] = record'.messages[k]
  <2>1. CASE file' # NoFile /\ file'.messages = record'.messages
        BY <2>1
  <2>2. CASE /\ record'.save = record.save /\ file' = file
             /\ \A k \in 1 .. Len(record'.messages) :
                   record'.messages[k].status # "streaming" =>
                       record'.messages[k] = record.messages[k]
        BY <1>1, <1>3, <2>2
  <2>3. QED
        BY <1>3, <2>1, <2>2
<1>4. QED
      BY <1>2, <1>3

\* An event of the active turn that goes on.
LEMMA DurEmit ==
    ASSUME IInv, IInv', DurInv, NEW t \in Turns, Takes(t), NEW type \in {"text", "error"},
           NEW p \in 0 .. 1,
           record' = Logged(record, type),
           CheckpointOk(record', p) \/ CheckpointRaises(record', p), reader' = reader
    PROVE  DurInv'
<1> DEFINE r == Logged(record, type)
           n == Len(record.messages)
<1>1. /\ record # Gone /\ record \in Record /\ record.messages # <<>> /\ record.active # NoTurn
      BY HistoryAssumption DEF IInv, StoreInv, Good, Opened, Takes
<1>2. /\ r \in Record /\ r.active = record.active /\ r.save = record.save
      /\ Len(r.messages) = n
      /\ \A k \in 1 .. n : r.messages[k].status = record.messages[k].status
      /\ \A k \in 1 .. n : k # n => r.messages[k] = record.messages[k]
      BY <1>1, LoggedFacts DEF Alike
<1> HIDE DEF r
<1>3. record' = r
      BY DEF r
<1>4. n \in 1 .. n
      BY <1>1 DEF Record
<1>5. r # NoFile
      BY <1>2, RecordAssumption
<1>6. ASSUME faults' = 0
      PROVE  /\ faults = 0
             /\ \/ record'.save => file' # NoFile /\ file'.messages = record'.messages
                \/ file' = file
             /\ record.messages[n].status = "streaming"
  <2>1. CheckpointOk(record', p) /\ faults = 0
        BY <1>6, SaveFacts DEF IInv
  <2>2. \/ file' = (IF record'.save THEN record' ELSE file)
        \/ file' = file
        BY <2>1, SaveFacts DEF IInv
  <2>3. QED
        BY <1>1, <1>3, <1>5, <2>1, <2>2 DEF DurInv
<1>7. QED
      BY <1>1, <1>2, <1>3, <1>4, <1>6, DurFrom

\* A step that leaves the store alone.
LEMMA DurSame ==
    ASSUME DurInv, UNCHANGED <<record, file, faults>>, reader = "lost" => reader' = "lost"
    PROVE  DurInv'
BY DEF DurInv

\* A turn that begins is saved with its open reply.
LEMMA DurBegin ==
    ASSUME IInv, NEW t \in Turns, Begin(t)
    PROVE  DurInv'
<1> DEFINE m == [turn |-> t, status |-> "streaming", text |-> 0]
           b == Append(record.messages, m)
           r == [record EXCEPT !.messages = b, !.active = t]
           n == Len(record.messages)
<1>1. /\ record # Gone /\ record \in Record /\ m \in Message /\ m.status = "streaming"
      BY DEF Begin, IInv, StoreInv, Message
<1>2. \/ Save(r) /\ record' = Logged(r, "status")
      \/ SaveRaises(r) /\ record' = r
      BY DEF Begin
<1>3. record.messages \in Seq(Message) /\ n \in Nat
      BY <1>1 DEF Record
<1>4. b \in Seq(Message) /\ Len(b) = n + 1 /\ b[n + 1] = m
      BY <1>1, <1>3
<1> HIDE DEF b, m
<1>5. r \in Record /\ r.messages = b /\ r.active = t /\ r.save = record.save /\ r # NoFile
      BY <1>1, <1>4, RecordAssumption DEF Record
<1> HIDE DEF r
<1> SUFFICES ASSUME faults' = 0, record' # Gone
             PROVE  /\ record'.messages[Len(record'.messages)].status = "streaming"
                    /\ record'.save => file' # NoFile /\ file'.messages = record'.messages
      BY DEF DurInv
<1>6. Save(r) /\ record' = Logged(r, "status") /\ file' = (IF r.save THEN r ELSE file)
      BY <1>2, SaveFacts DEF IInv
<1>7. record' = [r EXCEPT !.sequence = r.sequence + 1, !.messages = r.messages]
      BY <1>6 DEF Logged
<1>8. record'.messages = b /\ record'.save = r.save
      BY <1>5, <1>7 DEF Record
<1>9. QED
      BY <1>1, <1>4, <1>5, <1>6, <1>8

\* A turn that ends is saved with its closed reply.
LEMMA DurFinish ==
    ASSUME IInv, DurInv, NEW t \in Turns, Finish(t)
    PROVE  DurInv'
<1>1. reader' = reader
      BY DEF Finish, readerVars
<1>2. CASE record = Gone \/ record.active # t
      BY <1>1, <1>2, DurSame DEF Finish, storeVars
<1>3. CASE record # Gone /\ record.active = t
  <2> DEFINE status == IF t \in stopping \cup failed \cup cancelled THEN "stopped" ELSE "complete"
             closed == [record EXCEPT !.messages[Len(record.messages)].status = status]
             r == Logged(closed, "done")
             over == [r EXCEPT !.active = NoTurn]
  <2>1. record \in Record /\ record.messages # <<>> /\ faults \in Nat
        BY <1>3, HistoryAssumption DEF IInv, StoreInv, Good, Opened
  <2>2. \/ record' = over /\ Save(over)
        \/ faults' = faults + 1
        \/ CheckpointRaises(r, 0)
        BY <1>3 DEF Finish
  <2>3. closed \in Record
    <3>1. status \in {"complete", "stopped"}
          OBVIOUS
    <3> HIDE DEF status
    <3>2. QED
          BY <2>1, <3>1, ClosedFacts
  <2> HIDE DEF closed
  <2>4. r \in Record
        BY <2>3, LoggedFacts
  <2> HIDE DEF r
  <2>5. over \in Record /\ over.active = NoTurn /\ over # NoFile
        BY <2>4, RecordAssumption DEF Record
  <2> HIDE DEF over
  <2>6. faults' = 0 => record' = over /\ file' = (IF over.save THEN over ELSE file)
        BY <2>1, <2>2, SaveFacts DEF IInv
  <2>7. QED
        BY <2>5, <2>6 DEF DurInv
<1>4. QED
      BY <1>2, <1>3

\* A request saves the record, or the conversation is not to be saved.
LEMMA DurRequest ==
    ASSUME IInv, IInv', DurInv,
           \/ \E save \in BOOLEAN : SetSaved(save)
           \/ \E turns \in SUBSET Turns : SetContext(turns)
    PROVE  DurInv'
<1>1. /\ record # Gone /\ record \in Record /\ reader' = reader
      BY DEF SetSaved, SetContext, IInv, StoreInv, readerVars
<1>2. /\ record' \in Record /\ record'.messages = record.messages
      /\ record'.active = record.active
      /\ \/ Save(record')
         \/ SaveRaises(record')
         \/ ~record'.save /\ faults' = faults
  <2>1. CASE \E save \in BOOLEAN : SetSaved(save)
    <3>1. PICK save \in BOOLEAN :
             /\ record' = [record EXCEPT !.save = save]
             /\ Save(record') \/ SaveRaises(record') \/ (~save /\ faults' = faults)
          BY <2>1 DEF SetSaved
    <3>2. QED
          BY <1>1, <3>1 DEF Record
  <2>2. CASE \E turns \in SUBSET Turns : SetContext(turns)
    <3>1. PICK turns \in SUBSET Turns :
             /\ record' = [record EXCEPT !.selected = turns, !.context_error = FALSE]
             /\ Save(record') \/ SaveRaises(record')
          BY <2>2 DEF SetContext
    <3>2. QED
          BY <1>1, <3>1 DEF Record
  <2>3. QED
        BY <2>1, <2>2
<1>3. record' # NoFile
      BY <1>2, RecordAssumption
<1>4. faults' = 0 => faults = 0 /\ (record'.save => file' = record')
  <2>1. faults \in Nat
        BY DEF IInv, StoreInv
  <2>2. QED
        BY <1>2, <2>1 DEF Save, SaveRaises
<1>5. QED
      BY <1>1, <1>2, <1>3, <1>4, DurFrom

\* The file's invariant is inductive.
LEMMA DurInductive == Spec => []DurInv
<1>1. Init => DurInv
  <2> SUFFICES ASSUME Init PROVE DurInv
        OBVIOUS
  <2>1. PICK saved \in BOOLEAN :
          record = [messages |-> <<>>, active |-> NoTurn, sequence |-> 0,
                    save |-> saved, selected |-> {}, context_error |-> FALSE]
        BY DEF Init
  <2>2. record.active = NoTurn /\ record.messages = <<>> /\ 1 .. Len(record.messages) = {}
        BY <2>1
  <2>3. record \in Record
        BY InitInv, <2>1 DEF Record
  <2>4. record.save => file = record /\ file # NoFile
        BY <2>3, RecordAssumption DEF Init
  <2>5. QED
        BY <2>2, <2>4 DEF DurInv
<1>2. IInv /\ IInv' /\ DurInv /\ [Next]_vars => DurInv'
  <2> SUFFICES ASSUME IInv, IInv', DurInv, [Next]_vars PROVE DurInv'
        OBVIOUS
  <2>1. ASSUME NEW t \in Turns, Begin(t) \/ EmitText(t) \/ TurnStep(t) \/ Cancel(t) \/ Follow(t)
        PROVE  DurInv'
    <3>1. CASE Begin(t)
          BY <3>1, DurBegin
    <3>2. CASE EmitText(t)
      <4>1. reader' = reader
            BY <3>2 DEF EmitText, readerVars
      <4>2. CASE Takes(t)
            BY <3>2, <4>1, <4>2, DurEmit DEF EmitText
      <4>3. CASE ~Takes(t)
            BY <3>2, <4>1, <4>3, DurSame DEF EmitText, storeVars
      <4>4. QED
            BY <4>2, <4>3
    <3>3. CASE EmitError(t)
      <4>1. reader' = reader
            BY <3>3 DEF EmitError, readerVars
      <4>2. CASE t \notin stopping /\ Takes(t)
            BY <3>3, <4>1, <4>2, DurEmit DEF EmitError
      <4>3. CASE ~(t \notin stopping /\ Takes(t))
            BY <3>3, <4>1, <4>3, DurSame DEF EmitError
      <4>4. QED
            BY <4>2, <4>3
    <3>4. CASE StopFails(t)
      <4>1. reader' = reader
            BY <3>4 DEF StopFails, readerVars
      <4>2. CASE Takes(t)
            BY <3>4, <4>1, <4>2, DurEmit DEF StopFails
      <4>3. CASE ~Takes(t)
            BY <3>4, <4>1, <4>3, DurSame DEF StopFails
      <4>4. QED
            BY <4>2, <4>3
    <3>5. CASE Finish(t)
          BY <3>5, DurFinish
    <3>6. CASE Fails(t) \/ ReplyEnds(t)
          BY <3>6, DurSame DEF Fails, ReplyEnds, storeVars, readerVars
    <3>7. CASE Cancel(t)
      <4>1. record' = record /\ reader' = reader
            BY <3>7 DEF Cancel, readerVars
      <4>2. CASE record # Gone /\ record.active = t
        <5>1. Save(record) \/ SaveRaises(record)
              BY <3>7, <4>2 DEF Cancel
        <5>2. record # NoFile /\ faults \in Nat
              BY <4>2, RecordAssumption DEF IInv, StoreInv
        <5>3. faults' = 0 => faults = 0 /\ (record.save => file' = record)
              BY <5>1, <5>2 DEF Save, SaveRaises
        <5>4. QED
              BY <4>1, <4>2, <5>2, <5>3, DurFrom
      <4>3. CASE ~(record # Gone /\ record.active = t)
            BY <3>7, <4>1, <4>3, DurSame DEF Cancel
      <4>4. QED
            BY <4>2, <4>3
    <3>8. CASE Follow(t)
          BY <3>8, DurSame DEF Follow, storeVars
    <3>9. QED
          BY <2>1, <3>1, <3>2, <3>3, <3>4, <3>5, <3>6, <3>7, <3>8 DEF TurnStep
  <2>2. CASE \/ \E save \in BOOLEAN : SetSaved(save)
             \/ \E turns \in SUBSET Turns : SetContext(turns)
        BY <2>2, DurRequest
  <2>3. CASE Delete
        BY <2>3 DEF Delete, DurInv
  <2>4. CASE Crash
    <3>1. reader' = "lost" /\ record' = IF file = NoFile THEN Gone ELSE Loaded(file)
          BY <2>4 DEF Crash
    <3>2. file # NoFile => Loaded(file).active = NoTurn
          BY LoadedFacts DEF IInv, StoreInv, Good
    <3>3. QED
          BY <3>1, <3>2 DEF DurInv
  <2>5. CASE ReaderStep \/ Receive \/ Break \/ UNCHANGED vars
    <3>1. UNCHANGED <<record, file, faults>>
          BY <2>5 DEF ReaderStep, OpenEvents, Fetch, CheckActive, Receive, Break, vars, storeVars
    <3>2. reader = "lost" => reader' = "lost"
          BY <2>5 DEF ReaderStep, OpenEvents, Fetch, CheckActive, Receive, Break, vars, readerVars
    <3>3. QED
          BY <3>1, <3>2, DurSame
  <2>6. QED
        BY <2>1, <2>2, <2>3, <2>4, <2>5 DEF Next
<1>3. QED
      BY Inductive, <1>1, <1>2, PTL DEF Spec

-----------------------------------------------------------------------------
\* The types

\* What the store and the client do not say about types.
RestInv ==
    /\ stopping \subseteq Turns /\ failed \subseteq Turns /\ failure \in BOOLEAN
    /\ follows \in Turns \cup {NoTurn}
    /\ faults \in 0 .. MaxFaults /\ crashes \in 0 .. MaxCrashes

\* The types of the rest.
LEMMA RestInductive == Spec => []RestInv
<1>1. Init => RestInv
  <2> SUFFICES ASSUME Init PROVE RestInv
        OBVIOUS
  <2>1. /\ stopping = {} /\ failed = {} /\ failure = FALSE /\ follows = NoTurn
        /\ faults = 0 /\ crashes = 0
        BY DEF Init
  <2>2. 0 \in 0 .. MaxFaults /\ 0 \in 0 .. MaxCrashes
        BY HistoryAssumption
  <2>3. QED
        BY <2>1, <2>2 DEF RestInv
<1>2. RestInv /\ [Next]_vars => RestInv'
  <2> SUFFICES ASSUME RestInv, [Next]_vars PROVE RestInv'
        OBVIOUS
  <2>0. /\ {MaxFaults, MaxCrashes} \subseteq Nat
        /\ faults \in 0 .. MaxFaults /\ crashes \in 0 .. MaxCrashes
        BY HistoryAssumption DEF RestInv
  <2> DEFINE Counted == /\ faults' \in {faults, 0} \/ (faults < MaxFaults /\ faults' = faults + 1)
                        /\ crashes' = crashes \/ (crashes < MaxCrashes /\ crashes' = crashes + 1)
  <2>1. Counted => faults' \in 0 .. MaxFaults /\ crashes' \in 0 .. MaxCrashes
        BY <2>0
  <2> HIDE DEF Counted
  <2>2. ASSUME NEW t \in Turns, Begin(t) \/ EmitText(t) \/ TurnStep(t) \/ Cancel(t) \/ Follow(t)
        PROVE  RestInv'
    <3>1. Counted
          BY <2>2 DEF TurnStep, Begin, EmitText, Fails, EmitError, ReplyEnds, StopFails, Finish,
             Cancel, Follow, Save, SaveRaises, CheckpointOk, CheckpointRaises, Counted
    <3>2. /\ stopping' \subseteq stopping \cup {t} /\ failed' \subseteq failed \cup {t}
          /\ failure' \in {failure, TRUE} /\ follows' \in {follows, t}
          BY <2>2 DEF TurnStep, Begin, EmitText, Fails, EmitError, ReplyEnds, StopFails, Finish,
             Cancel, Follow, readerVars, jobVars
    <3>3. QED
          BY <2>1, <3>1, <3>2 DEF RestInv
  <2>3. CASE \/ \E save \in BOOLEAN : SetSaved(save)
             \/ \E turns \in SUBSET Turns : SetContext(turns)
             \/ Delete \/ Crash \/ ReaderStep \/ Receive \/ Break \/ UNCHANGED vars
    <3>1. Counted
          BY <2>3 DEF SetSaved, SetContext, Delete, Crash, ReaderStep, OpenEvents, Fetch,
             CheckActive, Receive, Break, vars, Save, SaveRaises, Counted
    <3>2. /\ stopping' \subseteq stopping /\ failed' \subseteq failed
          /\ failure' \in {failure, FALSE} /\ follows' \in {follows, NoTurn}
          BY <2>3 DEF SetSaved, SetContext, Delete, Crash, ReaderStep, OpenEvents, Fetch,
             CheckActive, Receive, Break, vars, readerVars, jobVars
    <3>3. QED
          BY <2>1, <3>1, <3>2 DEF RestInv
  <2>4. QED
        BY <2>2, <2>3 DEF Next
<1>3. QED
      BY <1>1, <1>2, PTL DEF Spec

-----------------------------------------------------------------------------
\* The theorems

\* A conversation that is not saved leaves nothing on disk, also when saving is
\* switched off in the middle of a reply (_save, set_saved, delete, __init__).
THEOREM NothingKeptAlways == Spec => []NothingKeptUnlessSaved
<1>1. IInv => NothingKeptUnlessSaved
      BY DEF IInv, StoreInv
<1>2. QED
      BY Inductive, <1>1, PTL

\* No restart withholds a selection that set_context accepted.
THEOREM SelectionAlways == Spec => []SelectionSurvives
<1>1. IInv => SelectionSurvives
      BY DEF IInv, StoreInv, Good, SelectionSurvives
<1>2. QED
      BY Inductive, <1>1, PTL

\* Without failing saves the file is less than a checkpoint behind the record,
\* for every turn (emit's checkpoints).
THEOREM LossAlways == Spec => []LossIsBounded
<1>1. IInv => LossIsBounded
  <2> SUFFICES ASSUME IInv, faults = 0, record # Gone, file # NoFile, NEW t \in Turns
               PROVE  Texts(record, t) < Texts(file, t) + Checkpoint
        BY DEF LossIsBounded
  <2>1. /\ record \in Record /\ file \in Record /\ Distinct(record) /\ Distinct(file)
        /\ pending \in Nat /\ pending < Checkpoint
        /\ Alike(file, record) /\ Behind(file, record, pending)
        BY DEF IInv, StoreInv, LossInv, Good
  <2>2. CASE t \in TurnsOf(file)
    <3>1. PICK k \in 1 .. Len(file.messages) : file.messages[k].turn = t
          BY <2>2 DEF TurnsOf
    <3>2. k \in 1 .. Len(record.messages) /\ record.messages[k].turn = t
          BY <2>1, <3>1 DEF Alike
    <3>3. /\ Texts(record, t) = record.messages[k].text
          /\ Texts(file, t) = file.messages[k].text
          BY <2>1, <3>1, <3>2, TextsFound
    <3>4. record.messages[k].text \in Nat /\ file.messages[k].text \in Nat
          BY <2>1, <3>1, <3>2, MessageFacts
    <3>5. record.messages[k].text <= file.messages[k].text + pending
          BY <2>1, <3>1 DEF Behind
    <3>6. QED
          BY <2>1, <3>3, <3>4, <3>5, HistoryAssumption
  <2>3. CASE t \notin TurnsOf(file)
    <3>1. t \notin TurnsOf(record)
          BY <2>1, <2>3 DEF TurnsOf, Alike
    <3>2. QED
          BY <2>1, <2>3, <3>1, TextsNone, HistoryAssumption
  <2>4. QED
        BY <2>2, <2>3
<1>2. QED
      BY Inductive, <1>1, PTL

\* Once the store cancelled a turn, its reply does not grow any more, whatever its
\* thread still does (cancel, emit, finish).
THEOREM SilenceAlways == Spec => CancelledStaysSilent
<1>1. /\ IInv /\ IInv' /\ crashes \in Nat /\ [Next]_vars
      => [\A t \in cancelled :
            record # Gone /\ record' # Gone /\ crashes' = crashes =>
              Texts(record', t) = Texts(record, t)]_vars
      BY Silence
<1>2. QED
      BY Inductive, CrashCount, <1>1, PTL DEF Spec, CancelledStaysSilent

\* The client prints the texts of its turn in order, none twice and none left out,
\* and has them all when it sees "done" (_assistant_chat's event loop, events).
THEOREM ReaderAlways == Spec => []ReaderIsFaithful
<1>1. ReadInv => ReaderIsFaithful
  <2>1. ReadInv => DOMAIN shown = 1 .. Len(shown)
        BY DEF ReadInv, FlowInv
  <2>2. QED
        BY <2>1 DEF ReadInv, ShownInv, ReaderIsFaithful
<1>2. QED
      BY ReadInductive, <1>1, PTL

\* A turn the client saw finish in a saved conversation is on disk, complete and
\* with every text the client printed (finish saves before anything else happens).
THEOREM DurableAlways == Spec => []DoneIsDurable
<1>1. IInv /\ ReadInv /\ DurInv => DoneIsDurable
  <2> SUFFICES ASSUME IInv, ReadInv, DurInv, faults = 0, reader = "done", record # Gone,
                      record.save
               PROVE  /\ file # NoFile
                      /\ Texts(file, follows) = Len(shown) /\ follows \in Completed(file)
        BY DEF DoneIsDurable
  <2>1. follows \in Turns /\ Len(shown) = Texts(record, follows) /\ follows \in Completed(record)
        BY DEF ReadInv, ShownInv
  <2>2. /\ file # NoFile
        /\ \A k \in 1 .. Len(record.messages) : record.messages[k].status # "streaming" =>
               file.messages[k] = record.messages[k]
        BY DEF DurInv
  <2>3. /\ record \in Record /\ file \in Record /\ Distinct(record) /\ Distinct(file)
        /\ Len(file.messages) = Len(record.messages)
        BY <2>2 DEF IInv, StoreInv, LossInv, Good, Alike
  <2>4. DOMAIN record.messages = 1 .. Len(record.messages)
        /\ DOMAIN file.messages = 1 .. Len(record.messages)
    <3>1. record.messages \in Seq(Message) /\ file.messages \in Seq(Message)
          BY <2>3 DEF Record
    <3>2. QED
          BY <2>3, <3>1
  <2>5. PICK k \in 1 .. Len(record.messages) :
           record.messages[k].status # "streaming" /\ record.messages[k].turn = follows
        BY <2>1, <2>4 DEF Completed
  <2>6. file.messages[k] = record.messages[k]
        BY <2>2, <2>5
  <2>7. Texts(file, follows) = Texts(record, follows)
        BY <2>3, <2>5, <2>6, TextsFound
  <2>8. follows \in Completed(file)
        BY <2>4, <2>5, <2>6 DEF Completed
  <2>9. QED
        BY <2>1, <2>2, <2>7, <2>8
<1>2. QED
      BY Inductive, ReadInductive, DurInductive, <1>1, PTL

\* Every variable keeps its type: the deque its length, the counters their bounds.
THEOREM TypeAlways == Spec => []TypeOK
<1>1. IInv /\ ReadInv /\ RestInv => TypeOK
      BY DEF IInv, StoreInv, ReadInv, FlowInv, RestInv, TypeOK
<1>2. QED
      BY Inductive, ReadInductive, RestInductive, <1>1, PTL
=============================================================================
