--------------------------- MODULE PostgresProofs ---------------------------
(***************************************************************************)
(* At most one transaction has the row lock of a stream, and only one that *)
(* has it draws positions and commits.  So es_streams always has the       *)
(* position of the last event in es_events, each stream grows at its end,  *)
(* and the statements of an append amount to one step of AtomicStore,      *)
(* whatever the number of clients, streams and connections, and wherever   *)
(* calls are dropped.                                                      *)
(***************************************************************************)
EXTENDS PostgresStore, FiniteSetTheorems, SequenceTheorems, TLAPS

Labels == {"idle", "begin", "insert row", "select", "insert events", "update", "commit"}

Shape ==
    /\ rows \in [Streams -> {NoRow, Null} \cup Nat]
    /\ events \subseteq [pos : Nat, s : Streams, by : Clients, call : Nat]
    /\ drawn \in Nat
    /\ pc \in [Clients -> Labels]
    /\ call \in [Clients -> Request]
    /\ tx \in [Clients -> Transaction \cup {NoTx}]
    /\ orphans \subseteq Orphan

\* t draws positions only with the lock, each above all its stream has, the last
\* of them the highest.
Sound(t) ==
    /\ t.locked \/ t.positions = <<>>
    /\ \A i \in 1..Len(t.positions) :
         /\ t.positions[i] <= drawn
         /\ t.positions[i] <= t.positions[Len(t.positions)]
         /\ \A e \in events : e.s = t.of.s => e.pos < t.positions[i]

\* t can commit.
Ready(t) ==
    /\ t.locked
    /\ t.positions # <<>>
    /\ t.last = t.positions[Len(t.positions)]

\* No two transactions have the lock of one row.
Apart(t, u) == t.locked /\ u.locked => t.of.s # u.of.s

Exclusive ==
    /\ \A c, d \in Live : c # d => Apart(tx[c], tx[d])
    /\ \A c \in Live, o \in orphans : Apart(tx[c], o.t)
    /\ \A o, p \in orphans : o # p => Apart(o.t, p.t)

Runs(c) ==
    /\ tx[c] = NoTx <=> pc[c] \in {"idle", "begin"}
    /\ c \in Live => tx[c].of = call[c] /\ Sound(tx[c])
    /\ pc[c] \in {"insert events", "update", "commit"} => tx[c].locked
    /\ pc[c] = "update" => tx[c].positions # <<>>
    /\ pc[c] = "commit" => Ready(tx[c])

Ends(o) == Sound(o.t) /\ (o.left = "commit" => Ready(o.t))

EventsDrawn == \A e \in events : e.pos <= drawn

Inv ==
    /\ Shape
    /\ EventsDrawn
    /\ Exclusive
    /\ \A c \in Clients : Runs(c)
    /\ \A o \in orphans : Ends(o)
    /\ VersionIsLastPosition

-----------------------------------------------------------------------------
\* The tables under COMMIT.

LEMMA ReadyLast ==
    ASSUME NEW t \in Transaction, Ready(t), Sound(t)
    PROVE  /\ Len(t.positions) \in 1..Len(t.positions)
           /\ t.last \in Nat
           /\ t.last = t.positions[Len(t.positions)]
           /\ DOMAIN t.positions = 1..Len(t.positions)
           /\ \A i \in 1..Len(t.positions) : t.positions[i] \in Nat /\ t.positions[i] <= t.last
<1>1. t.positions \in Seq(Nat) /\ t.positions # <<>>
  BY DEF Transaction, Ready
<1>2. Len(t.positions) \in Nat \ {0} /\ DOMAIN t.positions = 1..Len(t.positions)
  BY <1>1, EmptySeq, LenProperties
<1>3. Len(t.positions) \in 1..Len(t.positions)
  BY <1>2
<1>4. \A i \in 1..Len(t.positions) : t.positions[i] \in Nat
  BY <1>1, ElementOfSeq
<1>5. QED
  BY <1>2, <1>3, <1>4 DEF Ready, Sound

\* What COMMIT adds belongs to the transaction's stream and lies above all that
\* the stream had.
LEMMA AppliedEvents ==
    ASSUME Shape, NEW t \in Transaction, Sound(t), Ready(t), Applies(t)
    PROVE  /\ \A e \in events' \ events :
                \E i \in 1..Len(t.positions) :
                   /\ e = [pos |-> t.positions[i], s |-> t.of.s, by |-> t.of.by, call |-> t.of.call]
                   /\ e.s = t.of.s /\ e.pos = t.positions[i]
           /\ events \subseteq events'
           /\ \A e \in events' \ events, f \in events : e.s = f.s => e.pos > f.pos
<1>1. DOMAIN t.positions = 1..Len(t.positions)
  BY ReadyLast
<1>2. ASSUME NEW e \in events' \ events
      PROVE  \E i \in 1..Len(t.positions) :
                /\ e = [pos |-> t.positions[i], s |-> t.of.s, by |-> t.of.by, call |-> t.of.call]
                /\ e.s = t.of.s /\ e.pos = t.positions[i]
  BY <1>1, <1>2 DEF Applies
<1>3. ASSUME NEW e \in events' \ events, NEW f \in events, e.s = f.s PROVE e.pos > f.pos
  <2>1. PICK i \in 1..Len(t.positions) : e.s = t.of.s /\ e.pos = t.positions[i]
    BY <1>2
  <2>2. f.pos < t.positions[i]
    BY <1>3, <2>1 DEF Sound
  <2>3. f.pos \in Nat /\ t.positions[i] \in Nat
    BY ReadyLast DEF Shape
  <2>4. QED
    BY <2>1, <2>2, <2>3
<1>4. QED
  BY <1>2, <1>3 DEF Applies

LEMMA AppliesShape ==
    ASSUME Shape, NEW t \in Transaction, Sound(t), Ready(t), Applies(t)
    PROVE  /\ rows' \in [Streams -> {NoRow, Null} \cup Nat]
           /\ events' \subseteq [pos : Nat, s : Streams, by : Clients, call : Nat]
<1>1. t.of.s \in Streams /\ t.of.by \in Clients /\ t.of.call \in Nat
  BY DEF Transaction, Request
<1>2. t.last \in Nat /\ \A i \in 1..Len(t.positions) : t.positions[i] \in Nat
  BY ReadyLast
<1>3. rows' \in [Streams -> {NoRow, Null} \cup Nat]
  BY <1>2 DEF Applies, Shape
<1>4. events' \subseteq [pos : Nat, s : Streams, by : Clients, call : Nat]
  BY <1>1, <1>2, AppliedEvents DEF Shape
<1>5. QED
  BY <1>3, <1>4

LEMMA AppliesDrawn ==
    ASSUME Shape, EventsDrawn, NEW t \in Transaction, Sound(t), Ready(t), Applies(t),
           UNCHANGED drawn
    PROVE  EventsDrawn'
<1> SUFFICES ASSUME NEW e \in events' PROVE e.pos <= drawn
  BY DEF EventsDrawn
<1>1. CASE e \in events
  BY <1>1 DEF EventsDrawn
<1>2. CASE e \notin events
  <2>1. PICK i \in 1..Len(t.positions) : e.pos = t.positions[i]
    BY <1>2, AppliedEvents
  <2>2. QED
    BY <2>1 DEF Sound
<1>3. QED
  BY <1>1, <1>2

LEMMA AppliesVersion ==
    ASSUME Shape, VersionIsLastPosition, NEW t \in Transaction, Sound(t), Ready(t), Applies(t)
    PROVE  VersionIsLastPosition'
<1>1. ASSUME NEW s \in Streams, s # t.of.s
      PROVE  OfStream(s)' = OfStream(s) /\ rows'[s] = rows[s]
  <2>1. OfStream(s)' = OfStream(s)
    BY <1>1, AppliedEvents DEF OfStream
  <2>2. rows'[s] = rows[s]
    BY <1>1 DEF Applies, Shape
  <2>3. QED
    BY <2>1, <2>2
<1>2. ASSUME NEW s \in Streams, s = t.of.s
      PROVE  /\ OfStream(s)' # {}
             /\ \E e \in OfStream(s)' : e.pos = rows'[s]
             /\ \A e \in OfStream(s)' : e.pos <= rows'[s]
  <2> DEFINE n == Len(t.positions)
             new == [pos |-> t.positions[n], s |-> t.of.s, by |-> t.of.by, call |-> t.of.call]
  <2>1. rows'[s] = t.last
    BY <1>2 DEF Applies, Shape
  <2>2. new \in OfStream(s)' /\ new.pos = t.last
    <3>1. n \in DOMAIN t.positions /\ t.last = t.positions[n]
      BY ReadyLast
    <3>2. new \in events'
      BY <3>1 DEF Applies
    <3>3. QED
      BY <1>2, <3>1, <3>2 DEF OfStream
  <2>3. ASSUME NEW e \in OfStream(s)' PROVE e.pos <= t.last
    <3>1. e \in events' /\ e.s = s
      BY <2>3 DEF OfStream
    <3>2. CASE e \in events
      <4>1. e.pos < t.positions[n]
        BY <1>2, <3>1, <3>2, ReadyLast DEF Sound
      <4>2. e.pos \in Nat /\ t.last \in Nat /\ t.last = t.positions[n]
        BY <3>2, ReadyLast DEF Shape
      <4>3. QED
        BY <4>1, <4>2
    <3>3. CASE e \notin events
      <4>1. PICK i \in 1..n : e.pos = t.positions[i]
        BY <3>1, <3>3, AppliedEvents
      <4>2. QED
        BY <4>1, ReadyLast
    <3>4. QED
      BY <3>2, <3>3
  <2>4. QED
    BY <2>1, <2>2, <2>3
<1>3. QED
  BY <1>1, <1>2 DEF VersionIsLastPosition

\* Another transaction stays sound: it has drawn nothing, or it has another
\* stream's lock.
LEMMA AppliesApart ==
    ASSUME Shape, NEW t \in Transaction, Sound(t), Ready(t), Applies(t), UNCHANGED drawn,
           NEW u \in Transaction, Sound(u), Apart(t, u)
    PROVE  Sound(u)'
<1>1. CASE u.positions = <<>>
  <2>1. Len(u.positions) = 0
    BY <1>1
  <2>2. QED
    BY <1>1, <2>1 DEF Sound
<1>2. CASE u.locked
  <2>1. \A e \in events' \ events : e.s # u.of.s
    BY <1>2, AppliedEvents DEF Apart, Ready
  <2>2. QED
    BY <1>2, <2>1 DEF Sound
<1>3. QED
  BY <1>1, <1>2 DEF Sound

-----------------------------------------------------------------------------
\* What a client's step leaves alone.

LEMMA SoundStays ==
    ASSUME NEW t \in Transaction, Sound(t), UNCHANGED events,
           drawn \in Nat, drawn' \in Nat, drawn <= drawn'
    PROVE  Sound(t)'
<1>1. ASSUME NEW i \in 1..Len(t.positions) PROVE t.positions[i] <= drawn'
  <2>1. t.positions[i] <= drawn
    BY DEF Sound
  <2>2. t.positions[i] \in Nat
    BY ElementOfSeq DEF Transaction
  <2>3. QED
    BY <2>1, <2>2
<1>2. QED
  BY <1>1 DEF Sound

LEMMA LiveTransaction ==
    ASSUME Shape, NEW c \in Live
    PROVE  c \in Clients /\ tx[c] \in Transaction
BY DEF Shape, Live

LEMMA OrphanTransaction ==
    ASSUME Shape, NEW o \in orphans
    PROVE  o.t \in Transaction /\ o = [t |-> o.t, left |-> o.left]
BY DEF Shape, Orphan

LEMMA RunsStays ==
    ASSUME Shape, NEW d \in Clients, Runs(d), UNCHANGED events,
           drawn' \in Nat, drawn <= drawn',
           tx'[d] = tx[d], pc'[d] = pc[d], call'[d] = call[d]
    PROVE  Runs(d)'
<1>1. d \in Live => Sound(tx[d])'
  BY SoundStays, LiveTransaction DEF Runs, Shape
<1>2. (d \in Live)' <=> d \in Live
  BY DEF Live
<1>3. (d \in Live)' => tx'[d].of = call'[d] /\ Sound(tx[d])'
  BY <1>1, <1>2 DEF Runs
<1>4. QED
  BY <1>3 DEF Runs, Ready

\* A step in which c works on its transaction, or opens it.
LEMMA ClientStep ==
    ASSUME Inv, Shape', NEW c \in Clients, UNCHANGED <<rows, events, orphans>>,
           drawn <= drawn',
           \A d \in Clients \ {c} : tx'[d] = tx[d] /\ pc'[d] = pc[d] /\ call'[d] = call[d],
           Runs(c)',
           \A d \in Live \ {c} : Apart(tx'[c], tx[d]),
           \A o \in orphans : Apart(tx'[c], o.t)
    PROVE  Inv'
<1>1. drawn \in Nat /\ drawn' \in Nat
  BY DEF Inv, Shape
<1>2. ASSUME NEW d \in Clients PROVE Runs(d)'
  <2>1. CASE d = c
    BY <2>1
  <2>2. CASE d # c
    BY <1>1, <2>2, RunsStays DEF Inv
  <2>3. QED
    BY <2>1, <2>2
<1>3. ASSUME NEW o \in orphans PROVE Ends(o)'
  <2>1. Sound(o.t)'
    BY <1>1, SoundStays, OrphanTransaction DEF Inv, Ends
  <2>2. QED
    BY <2>1 DEF Inv, Ends, Ready
<1>4. EventsDrawn'
  BY <1>1 DEF EventsDrawn, Inv, Shape
<1>5. Exclusive'
  <2>1. Live' \subseteq Live \cup {c} /\ \A d \in Live' \ {c} : d \in Live /\ tx'[d] = tx[d]
    BY DEF Live
  <2>2. \A d, e \in Live' : d # e => Apart(tx'[d], tx'[e])
    BY <2>1 DEF Inv, Exclusive, Apart
  <2>3. \A d \in Live', o \in orphans : Apart(tx'[d], o.t)
    BY <2>1 DEF Inv, Exclusive, Apart
  <2>4. QED
    BY <2>2, <2>3 DEF Inv, Exclusive, Apart
<1>6. VersionIsLastPosition'
  BY DEF Inv, VersionIsLastPosition, OfStream
<1>7. QED
  BY <1>2, <1>3, <1>4, <1>5, <1>6 DEF Inv

\* What the first two statements make of a transaction.
LEMMA LockedIs ==
    ASSUME NEW t \in Transaction
    PROVE  /\ Locked(t) \in Transaction /\ Locked(t).of = t.of /\ Locked(t).locked
           /\ Locked(t).created = t.created /\ Locked(t).positions = t.positions
           /\ Sound(t) => Sound(Locked(t))
<1>1. /\ Locked(t) \in Transaction /\ Locked(t).of = t.of /\ Locked(t).locked
      /\ Locked(t).created = t.created /\ Locked(t).positions = t.positions
  BY DEF Locked, Transaction
<1>2. QED
  BY <1>1 DEF Sound

LEMMA InsertedIs ==
    ASSUME NEW t \in Transaction
    PROVE  /\ Inserted(t) \in Transaction /\ Inserted(t).of = t.of
           /\ Inserted(t).locked = t.locked /\ Inserted(t).positions = t.positions
           /\ Inserted(t).created <=> rows[t.of.s] = NoRow
           /\ Sound(t) => Sound(Inserted(t))
<1>1. /\ Inserted(t) \in Transaction /\ Inserted(t).of = t.of
      /\ Inserted(t).locked = t.locked /\ Inserted(t).positions = t.positions
      /\ Inserted(t).created <=> rows[t.of.s] = NoRow
  BY DEF Inserted, Transaction
<1>2. QED
  BY <1>1 DEF Sound

\* A step in which c's call returns and leaves its transaction to the database,
\* as it is or with the lock just granted to it.
LEMMA DropStep ==
    ASSUME Inv, Shape', NEW c \in Live, NEW t \in Transaction, NEW what, Drop(c, t, what),
           Goto(c, "idle"), UNCHANGED <<rows, events, drawn, call>>,
           Sound(t), what = "commit" => Ready(t),
           \A d \in Live \ {c} : Apart(t, tx[d]),
           \A o \in orphans : Apart(t, o.t)
    PROVE  Inv'
<1> DEFINE left == [t |-> t, left |-> what]
<1>0. c \in Clients /\ tx[c] \in Transaction /\ Shape /\ drawn \in Nat /\ drawn <= drawn
  BY LiveTransaction DEF Inv, Shape
<1>1. /\ orphans' = orphans \cup {left}
      /\ tx'[c] = NoTx /\ pc'[c] = "idle"
      /\ \A d \in Clients \ {c} : tx'[d] = tx[d] /\ pc'[d] = pc[d]
  BY <1>0 DEF Drop, Goto, Shape
<1>2. Live' = Live \ {c}
  BY <1>0, <1>1 DEF Live
<1>3. ASSUME NEW d \in Clients PROVE Runs(d)'
  <2>1. CASE d = c
    BY <1>1, <1>2, <2>1 DEF Runs
  <2>2. CASE d # c
    BY <1>0, <1>1, <2>2, RunsStays DEF Inv
  <2>3. QED
    BY <2>1, <2>2
<1>4. ASSUME NEW o \in orphans' PROVE Ends(o)'
  <2>1. CASE o \in orphans
    BY <2>1 DEF Inv, Ends, Ready, Sound
  <2>2. CASE o = left
    BY <1>0, <2>2 DEF Ends, Ready, Sound
  <2>3. QED
    BY <1>1, <2>1, <2>2
<1>5. Exclusive'
  <2>1. \A d, e \in Live' : d # e => Apart(tx'[d], tx'[e])
    BY <1>1, <1>2, LiveTransaction DEF Inv, Exclusive, Live
  <2>2. \A d \in Live', o \in orphans' : Apart(tx'[d], o.t)
    <3>1. ASSUME NEW d \in Live' PROVE tx'[d] = tx[d] /\ d \in Live /\ d # c /\ Apart(tx[d], t)
      BY <1>1, <1>2, <3>1 DEF Live, Apart
    <3>2. QED
      BY <1>1, <3>1 DEF Inv, Exclusive
  <2>3. \A o, p \in orphans' : o # p => Apart(o.t, p.t)
    <3>1. \A o \in orphans : Apart(t, o.t) /\ Apart(o.t, t)
      BY DEF Apart
    <3>2. QED
      BY <1>1, <3>1 DEF Inv, Exclusive
  <2>4. QED
    BY <2>1, <2>2, <2>3 DEF Exclusive, Apart
<1>6. EventsDrawn' /\ VersionIsLastPosition'
  BY DEF Inv, EventsDrawn, VersionIsLastPosition, OfStream
<1>7. QED
  BY <1>3, <1>4, <1>5, <1>6 DEF Inv

-----------------------------------------------------------------------------
\* The types after each step.

LEMMA DropShape ==
    ASSUME Shape, NEW c \in Live, NEW t \in Transaction,
           NEW left \in {"insert row", "select", "commit", "rollback"}, Drop(c, t, left)
    PROVE  /\ orphans' \subseteq Orphan
           /\ tx' \in [Clients -> Transaction \cup {NoTx}]
<1>1. [t |-> t, left |-> left] \in Orphan
  BY DEF Orphan
<1>2. QED
  BY <1>1 DEF Drop, Shape

LEMMA ReturnShape ==
    ASSUME Shape, NEW c \in Clients, NEW answer, Return(c, answer)
    PROVE  pc' \in [Clients -> Labels] /\ Goto(c, "idle")
BY DEF Shape, Return, Goto, Labels

-----------------------------------------------------------------------------
\* The actions.

LEMMA AskInv == ASSUME Inv, NEW c \in Clients, Ask(c) PROVE Inv'
<1>1. PICK s \in Streams, n \in 0..MaxBatch,
           v \in {AnyVersion, NewStream} \cup {e.pos : e \in events} :
        call' = [call EXCEPT ![c] = [by |-> c, call |-> call[c].call + 1,
                                     s |-> s, n |-> n, expect |-> v]]
  BY DEF Ask
<1>2. /\ pc[c] = "idle" /\ pc'[c] \in {"idle", "begin"}
      /\ pc' \in [Clients -> Labels]
      /\ \A d \in Clients \ {c} : pc'[d] = pc[d]
  BY DEF Ask, Return, Goto, Inv, Shape, Labels
<1>3. UNCHANGED <<rows, events, drawn, tx, orphans>>
  BY DEF Ask
<1>4. v \in {AnyVersion, NewStream} \cup Nat /\ n \in Nat
  BY PostgresAssumption DEF PostgresAssumption, Inv, Shape
<1>5. call[c].call + 1 \in Nat
  BY DEF Inv, Shape, Request
<1>6. call' \in [Clients -> Request] /\ \A d \in Clients \ {c} : call'[d] = call[d]
  BY <1>1, <1>4, <1>5 DEF Inv, Shape, Request
<1>7. Shape'
  BY <1>2, <1>3, <1>6 DEF Inv, Shape
<1>8. tx[c] = NoTx
  BY <1>2 DEF Inv, Runs
<1>9. Live' = Live
  BY <1>3 DEF Live
<1>10. ASSUME NEW d \in Clients PROVE Runs(d)'
  <2>1. CASE d = c
    BY <1>2, <1>3, <1>8, <2>1 DEF Runs, Live
  <2>2. CASE d # c
    <3>1. drawn <= drawn' /\ drawn' \in Nat
      BY <1>3 DEF Inv, Shape
    <3>2. QED
      BY <1>2, <1>3, <1>6, <2>2, <3>1, RunsStays DEF Inv
  <2>3. QED
    BY <2>1, <2>2
<1>11. (\A o \in orphans : Ends(o))'
  BY <1>3 DEF Inv, Ends, Sound, Ready
<1>12. Exclusive' /\ EventsDrawn' /\ VersionIsLastPosition'
  BY <1>3, <1>9
  DEF Inv, Exclusive, Apart, EventsDrawn, VersionIsLastPosition, OfStream
<1>13. QED
  BY <1>7, <1>10, <1>11, <1>12 DEF Inv

LEMMA BeginInv == ASSUME Inv, NEW c \in Clients, Begin(c) PROVE Inv'
<1> DEFINE opened == [of |-> call[c], created |-> FALSE, locked |-> FALSE,
                      positions |-> <<>>, last |-> Null]
<1>1. opened \in Transaction
  BY DEF Inv, Shape, Transaction
<1>2. /\ tx' = [tx EXCEPT ![c] = opened] /\ Goto(c, "insert row")
      /\ UNCHANGED <<rows, events, drawn, call, orphans>>
  BY DEF Begin
<1>3. /\ tx'[c] = opened /\ pc'[c] = "insert row"
      /\ \A d \in Clients \ {c} : tx'[d] = tx[d] /\ pc'[d] = pc[d]
  BY <1>2 DEF Inv, Shape, Goto
<1>4. Shape'
  BY <1>1, <1>2 DEF Inv, Shape, Goto, Labels
<1>5. tx'[c] # NoTx
  BY <1>1, <1>3, NoTxAssumption
<1>6. /\ tx'[c].of = call[c] /\ tx'[c].positions = <<>> /\ tx'[c].locked = FALSE
  <2>1. opened.of = call[c] /\ opened.positions = <<>> /\ opened.locked = FALSE
    OBVIOUS
  <2> HIDE DEF opened
  <2>2. QED
    BY <1>3, <2>1
<1>7. Runs(c)'
  <2>1. Len(tx'[c].positions) = 0
    BY <1>6
  <2>2. Sound(tx[c])'
    BY <1>6, <2>1 DEF Sound
  <2>3. tx'[c].of = call'[c]
    BY <1>2, <1>6
  <2> HIDE DEF opened
  <2>4. QED
    BY <1>3, <1>5, <2>2, <2>3 DEF Runs
<1>8. drawn \in Nat
  BY DEF Inv, Shape
<1>9. drawn <= drawn'
  <2>1. drawn' = drawn
    BY <1>2
  <2>2. QED
    BY <1>8, <2>1
<1> HIDE DEF opened
<1>10. \A t : Apart(tx'[c], t)
  BY <1>6 DEF Apart
<1>11. QED
  BY <1>2, <1>3, <1>4, <1>7, <1>9, <1>10, ClientStep

LEMMA InsertRowInv == ASSUME Inv, NEW c \in Clients, InsertRow(c) PROVE Inv'
<1>1. /\ tx' = [tx EXCEPT ![c] = Inserted(@)] /\ Goto(c, "select")
      /\ pc[c] = "insert row"
      /\ UNCHANGED <<rows, events, drawn, call, orphans>>
  BY DEF InsertRow
<1>2. c \in Live /\ tx[c] \in Transaction /\ tx[c].of = call[c] /\ Sound(tx[c])
  BY <1>1, LiveTransaction DEF Inv, Runs, Live
<1>3. /\ tx'[c] \in Transaction /\ tx'[c].of = tx[c].of /\ tx'[c].locked = tx[c].locked
      /\ tx'[c].positions = tx[c].positions
  <2>1. tx'[c] = Inserted(tx[c])
    BY <1>1 DEF Inv, Shape
  <2>2. QED
    BY <1>2, <2>1, InsertedIs
<1>4. /\ pc'[c] = "select"
      /\ \A d \in Clients \ {c} : tx'[d] = tx[d] /\ pc'[d] = pc[d]
  BY <1>1 DEF Inv, Shape, Goto
<1>5. Shape'
  BY <1>1, <1>3 DEF Inv, Shape, Goto, Labels
<1>6. tx'[c] # NoTx
  BY <1>3, NoTxAssumption
<1>7. Sound(tx[c])'
  BY <1>1, <1>2, <1>3 DEF Sound
<1>8. Runs(c)'
  BY <1>1, <1>2, <1>3, <1>4, <1>6, <1>7 DEF Runs
<1>9. drawn <= drawn'
  <2>1. drawn \in Nat
    BY DEF Inv, Shape
  <2>2. drawn' = drawn
    BY <1>1
  <2>3. QED
    BY <2>1, <2>2
<1>10. /\ \A d \in Live \ {c} : Apart(tx'[c], tx[d])
       /\ \A o \in orphans : Apart(tx'[c], o.t)
  BY <1>2, <1>3 DEF Inv, Exclusive, Apart
<1>11. QED
  BY <1>1, <1>4, <1>5, <1>8, <1>9, <1>10, ClientStep

LEMMA SelectInv == ASSUME Inv, NEW c \in Clients, SelectForUpdate(c) PROVE Inv'
<1>1. pc[c] = "select" /\ Unlocked(Others(c)) /\ UNCHANGED <<rows, events, drawn, call>>
  BY DEF SelectForUpdate
<1>2. c \in Live /\ tx[c] \in Transaction /\ tx[c].of = call[c] /\ Sound(tx[c]) /\ Shape
  BY <1>1, LiveTransaction DEF Inv, Runs, Live
<1>a. PICK t : t = Locked(tx[c])
  OBVIOUS
<1>b. /\ t \in Transaction /\ t.of = call[c] /\ t.locked /\ t.positions = tx[c].positions
      /\ Sound(t)
  BY <1>2, <1>a, LockedIs
<1>c. /\ \A d \in Live \ {c} : Apart(t, tx[d])
      /\ \A o \in orphans : Apart(t, o.t)
  BY <1>1, <1>b DEF Unlocked, Others, Working, Apart
<1>3. ASSUME NEW answer, Return(c, answer), Drop(c, Locked(tx[c]), "rollback") PROVE Inv'
  <2>1. Goto(c, "idle") /\ pc' \in [Clients -> Labels]
    BY <1>2, <1>3, ReturnShape
  <2>2. Drop(c, t, "rollback")
    BY <1>3, <1>a
  <2>3. Shape'
    BY <1>1, <1>2, <1>b, <2>1, <2>2, DropShape DEF Shape
  <2>4. QED
    BY <1>1, <1>2, <1>b, <1>c, <2>1, <2>2, <2>3, DropStep
<1>4. CASE /\ tx' = [tx EXCEPT ![c] = Locked(@)] /\ Goto(c, "insert events")
           /\ UNCHANGED orphans
  <2>1. tx'[c] = t
    BY <1>2, <1>4, <1>a DEF Shape
  <2>2. /\ pc'[c] = "insert events"
        /\ \A d \in Clients \ {c} : tx'[d] = tx[d] /\ pc'[d] = pc[d]
    BY <1>2, <1>4 DEF Shape, Goto
  <2>3. Shape'
    BY <1>1, <1>2, <1>4, <1>b, <2>1 DEF Shape, Goto, Labels
  <2>4. tx'[c] # NoTx
    BY <1>b, <2>1, NoTxAssumption
  <2>5. Sound(tx[c])'
    BY <1>1, <1>b, <2>1 DEF Sound
  <2>6. Runs(c)'
    BY <1>1, <1>b, <2>1, <2>2, <2>4, <2>5 DEF Runs
  <2>7. drawn <= drawn'
    BY <1>1, <1>2 DEF Shape
  <2>8. QED
    BY <1>1, <1>4, <1>c, <2>1, <2>2, <2>3, <2>6, <2>7, ClientStep
<1>5. QED
  BY <1>3, <1>4 DEF SelectForUpdate

LEMMA InsertEventInv == ASSUME Inv, NEW c \in Clients, InsertEvent(c) PROVE Inv'
<1>1. /\ pc[c] = "insert events" /\ drawn' = drawn + 1
      /\ tx' = [tx EXCEPT ![c].positions = Append(@, drawn + 1)]
      /\ UNCHANGED <<rows, events, call, orphans>>
  BY DEF InsertEvent
<1>2. /\ c \in Live /\ tx[c] \in Transaction /\ tx[c].of = call[c] /\ Sound(tx[c]) /\ Shape
      /\ tx[c].locked /\ drawn \in Nat /\ EventsDrawn
  BY <1>1, LiveTransaction DEF Inv, Runs, Live, Shape
<1>a. /\ drawn' = drawn + 1 /\ drawn \in Nat /\ drawn' \in Nat
      /\ drawn <= drawn' /\ drawn + 1 <= drawn'
  <2>1. drawn' = drawn + 1
    BY <1>1
  <2>2. drawn \in Nat
    BY <1>2
  <2>3. QED
    BY <2>1, <2>2
<1> DEFINE old == tx[c].positions
           new == tx'[c].positions
<1>3. old \in Seq(Nat) /\ Len(old) \in Nat
  BY <1>2, LenProperties DEF Transaction
<1>4. /\ new = Append(old, drawn + 1)
      /\ tx'[c].of = tx[c].of /\ tx'[c].locked = tx[c].locked
      /\ \A d \in Clients \ {c} : tx'[d] = tx[d]
  BY <1>1, <1>2 DEF Shape, Transaction
<1>5. /\ new \in Seq(Nat) /\ Len(new) = Len(old) + 1
      /\ \A i \in 1..Len(old) : new[i] = old[i]
      /\ new[Len(new)] = drawn + 1
  BY <1>2, <1>3, <1>4, AppendProperties
<1>6. tx'[c] \in Transaction
  BY <1>1, <1>2, <1>5 DEF Shape, Transaction
<1>7. /\ pc'[c] \in {"insert events", "update"} /\ pc' \in [Clients -> Labels]
      /\ \A d \in Clients \ {c} : pc'[d] = pc[d]
  BY <1>1, <1>2 DEF InsertEvent, Goto, Shape, Labels
<1>8. Shape'
  <2>1. tx' \in [Clients -> Transaction \cup {NoTx}]
    BY <1>1, <1>2, <1>6 DEF Shape
  <2>2. UNCHANGED <<rows, events, call, orphans>>
    BY <1>1
  <2>3. QED
    BY <1>2, <1>7, <1>a, <2>1, <2>2 DEF Shape
<1>9. tx'[c] # NoTx
  BY <1>6, NoTxAssumption
<1> HIDE DEF old, new
<1>10. ASSUME NEW i \in 1..Len(new)
       PROVE  /\ new[i] <= drawn' /\ new[i] <= new[Len(new)]
              /\ \A e \in events : e.s = tx[c].of.s => e.pos < new[i]
  <2>1. CASE i = Len(new)
    <3>1. \A e \in events : e.pos \in Nat /\ e.pos <= drawn
      BY <1>2 DEF EventsDrawn, Shape
    <3>2. QED
      BY <1>5, <1>a, <2>1, <3>1
  <2>2. CASE i # Len(new)
    <3>1. i \in 1..Len(old) /\ new[i] = old[i]
      BY <1>3, <1>5, <2>2
    <3>2. old[i] \in Nat /\ old[i] <= drawn /\ \A e \in events : e.s = tx[c].of.s => e.pos < old[i]
      BY <1>2, <1>3, <3>1, ElementOfSeq DEF Sound, old
    <3>3. QED
      BY <1>5, <1>a, <3>1, <3>2
  <2>3. QED
    BY <2>1, <2>2
<1>11. Sound(tx[c])'
  BY <1>1, <1>2, <1>4, <1>10 DEF Sound, new
<1>12. tx'[c].positions # <<>>
  <2>1. Len(new) # 0
    BY <1>3, <1>5
  <2>2. QED
    BY <2>1 DEF new
<1>13. Runs(c)'
  <2>1. tx'[c].of = call'[c] /\ tx'[c].locked
    BY <1>1, <1>2, <1>4
  <2>2. QED
    BY <1>7, <1>9, <1>11, <1>12, <2>1 DEF Runs
<1>14. /\ \A d \in Live \ {c} : Apart(tx'[c], tx[d])
       /\ \A o \in orphans : Apart(tx'[c], o.t)
  BY <1>2, <1>4 DEF Inv, Exclusive, Apart
<1>15. QED
  BY <1>1, <1>4, <1>7, <1>8, <1>13, <1>a, <1>14, ClientStep

LEMMA UpdateInv == ASSUME Inv, NEW c \in Clients, Update(c) PROVE Inv'
<1>1. /\ pc[c] = "update" /\ Goto(c, "commit")
      /\ tx' = [tx EXCEPT ![c].last = LastReturned(c)]
      /\ UNCHANGED <<rows, events, drawn, call, orphans>>
  BY DEF Update
<1>2. /\ c \in Live /\ tx[c] \in Transaction /\ tx[c].of = call[c] /\ Sound(tx[c]) /\ Shape
      /\ tx[c].locked /\ drawn \in Nat /\ tx[c].positions # <<>>
  BY <1>1, LiveTransaction DEF Inv, Runs, Live, Shape
<1>3. LastReturned(c) \in Nat
  <2>1. tx[c].positions \in Seq(Nat)
    BY <1>2 DEF Transaction
  <2>2. Len(tx[c].positions) \in 1..Len(tx[c].positions)
    BY <1>2, <2>1, EmptySeq, LenProperties
  <2>3. QED
    BY <2>1, <2>2, ElementOfSeq DEF LastReturned
<1>4. /\ tx'[c] \in Transaction /\ tx'[c].of = tx[c].of /\ tx'[c].locked = tx[c].locked
      /\ tx'[c].positions = tx[c].positions /\ tx'[c].last = LastReturned(c)
      /\ \A d \in Clients \ {c} : tx'[d] = tx[d]
  BY <1>1, <1>2, <1>3 DEF Shape, Transaction
<1>5. /\ pc'[c] = "commit" /\ pc' \in [Clients -> Labels]
      /\ \A d \in Clients \ {c} : pc'[d] = pc[d]
  BY <1>1, <1>2 DEF Goto, Shape, Labels
<1>6. Shape'
  BY <1>1, <1>2, <1>4, <1>5 DEF Shape
<1>7. tx'[c] # NoTx
  BY <1>4, NoTxAssumption
<1>8. Sound(tx[c])'
  BY <1>1, <1>2, <1>4 DEF Sound
<1>9. Ready(tx[c])'
  BY <1>2, <1>4 DEF Ready, LastReturned
<1>10. Runs(c)'
  <2>1. tx'[c].of = call'[c] /\ tx'[c].locked
    BY <1>1, <1>2, <1>4
  <2>2. QED
    BY <1>5, <1>7, <1>8, <1>9, <2>1 DEF Runs
<1>11. drawn <= drawn'
  BY <1>1, <1>2
<1>12. /\ \A d \in Live \ {c} : Apart(tx'[c], tx[d])
       /\ \A o \in orphans : Apart(tx'[c], o.t)
  BY <1>2, <1>4 DEF Inv, Exclusive, Apart
<1>13. QED
  BY <1>1, <1>4, <1>5, <1>6, <1>10, <1>11, <1>12, ClientStep

LEMMA CommitInv == ASSUME Inv, NEW c \in Clients, Commit(c) PROVE Inv'
<1> DEFINE t == tx[c]
<1>1. /\ pc[c] = "commit" /\ Applies(t) /\ tx' = [tx EXCEPT ![c] = NoTx] /\ Return(c, "ok")
      /\ UNCHANGED <<drawn, call, orphans>>
  BY DEF Commit
<1>2. c \in Live /\ t \in Transaction /\ Sound(t) /\ Ready(t) /\ Shape
  BY <1>1, LiveTransaction DEF Inv, Runs, Live
<1>3. pc' \in [Clients -> Labels] /\ Goto(c, "idle")
  BY <1>1, <1>2, ReturnShape
<1>4. /\ tx'[c] = NoTx /\ pc'[c] = "idle"
      /\ \A d \in Clients \ {c} : tx'[d] = tx[d] /\ pc'[d] = pc[d]
  BY <1>1, <1>2, <1>3 DEF Goto, Shape
<1>5. Live' = Live \ {c}
  BY <1>4 DEF Live
<1> HIDE DEF t
<1>6. Shape'
  <2>1. /\ rows' \in [Streams -> {NoRow, Null} \cup Nat]
        /\ events' \subseteq [pos : Nat, s : Streams, by : Clients, call : Nat]
    BY <1>1, <1>2, AppliesShape
  <2>2. QED
    BY <1>1, <1>2, <1>3, <2>1 DEF Shape
<1>7. EventsDrawn' /\ VersionIsLastPosition'
  BY <1>1, <1>2, AppliesDrawn, AppliesVersion DEF Inv
<1>8. ASSUME NEW d \in Clients PROVE Runs(d)'
  <2>1. CASE d = c
    BY <1>4, <1>5, <2>1 DEF Runs
  <2>2. CASE d # c
    <3>1. d \in Live => tx[d] \in Transaction /\ Sound(tx[d]) /\ Apart(t, tx[d])
      BY <1>2, <2>2, LiveTransaction DEF Inv, Runs, Exclusive, t
    <3>2. ASSUME d \in Live PROVE Sound(tx[d])'
      <4> DEFINE u == tx[d]
      <4> HIDE DEF u
      <4>1. u \in Transaction /\ Sound(u) /\ Apart(t, u)
        BY <3>1, <3>2 DEF u
      <4>2. /\ u.locked \/ u.positions = <<>>
            /\ \A i \in 1..Len(u.positions) :
                 /\ u.positions[i] <= drawn' /\ u.positions[i] <= u.positions[Len(u.positions)]
                 /\ \A e \in events' : e.s = u.of.s => e.pos < u.positions[i]
        BY <1>1, <1>2, <4>1, AppliesApart DEF Sound
      <4>3. u = tx'[d]
        BY <1>4, <2>2 DEF u
      <4>4. QED
        BY <4>2, <4>3 DEF Sound
    <3>3. (d \in Live)' => d \in Live
      BY <1>5
    <3>4. (d \in Live)' => tx'[d].of = call'[d] /\ Sound(tx[d])'
      BY <1>1, <1>4, <2>2, <3>2, <3>3 DEF Inv, Runs
    <3>5. QED
      BY <1>4, <2>2, <3>4 DEF Inv, Runs, Ready
  <2>3. QED
    BY <2>1, <2>2
<1>9. ASSUME NEW o \in orphans PROVE Ends(o)'
  <2>1. o.t \in Transaction /\ Sound(o.t) /\ Apart(t, o.t)
    BY <1>2, OrphanTransaction DEF Inv, Ends, Exclusive, t
  <2>2. Sound(o.t)'
    BY <1>1, <1>2, <2>1, AppliesApart
  <2>3. QED
    BY <2>2 DEF Inv, Ends, Ready
<1>10. Exclusive'
  <2>1. \A d \in Live' : d \in Live /\ tx'[d] = tx[d]
    BY <1>4, <1>5 DEF Live
  <2>2. QED
    BY <1>1, <2>1 DEF Inv, Exclusive
<1>11. QED
  BY <1>1, <1>6, <1>7, <1>8, <1>9, <1>10 DEF Inv

LEMMA AbandonInv == ASSUME Inv, NEW c \in Clients, Abandon(c) PROVE Inv'
<1>1. /\ pc[c] # "idle" /\ Return(c, "error") /\ Shape
      /\ UNCHANGED <<rows, events, drawn, call>>
  BY DEF Abandon, Inv
<1>2. pc' \in [Clients -> Labels] /\ Goto(c, "idle")
  BY <1>1, ReturnShape
<1>3. CASE pc[c] = "begin" /\ UNCHANGED <<tx, orphans>>
  <2>1. tx'[c] = NoTx /\ pc'[c] = "idle"
    BY <1>1, <1>2, <1>3 DEF Inv, Runs, Goto, Shape
  <2>2. \A d \in Clients \ {c} : tx'[d] = tx[d] /\ pc'[d] = pc[d] /\ call'[d] = call[d]
    BY <1>1, <1>2, <1>3 DEF Goto, Shape
  <2>3. Shape'
    BY <1>1, <1>2, <1>3 DEF Shape
  <2>4. Live' = Live /\ c \notin Live'
    BY <1>3, <2>1 DEF Live
  <2>5. ASSUME NEW d \in Clients PROVE Runs(d)'
    <3>1. CASE d = c
      BY <2>1, <2>4, <3>1 DEF Runs
    <3>2. CASE d # c
      <4>1. drawn <= drawn' /\ drawn' \in Nat
        <5>1. drawn \in Nat
          BY <1>1 DEF Shape
        <5>2. drawn' = drawn
          BY <1>1
        <5>3. QED
          BY <5>1, <5>2
      <4>2. QED
        BY <1>1, <2>2, <3>2, <4>1, RunsStays DEF Inv
    <3>3. QED
      BY <3>1, <3>2
  <2>6. (\A o \in orphans : Ends(o))'
    BY <1>1, <1>3 DEF Inv, Ends, Sound, Ready
  <2>7. Exclusive' /\ EventsDrawn' /\ VersionIsLastPosition'
    BY <1>1, <1>3, <2>4
    DEF Inv, Exclusive, Apart, EventsDrawn, VersionIsLastPosition, OfStream
  <2>8. QED
    BY <2>3, <2>5, <2>6, <2>7 DEF Inv
<1>4. ASSUME pc[c] # "begin", NEW left \in {"insert row", "select", "commit", "rollback"},
             Drop(c, tx[c], left), left \in {pc[c], "rollback"}
      PROVE  Inv'
  <2>1. c \in Live /\ tx[c] \in Transaction /\ Sound(tx[c]) /\ (left = "commit" => Ready(tx[c]))
    BY <1>1, <1>4, LiveTransaction DEF Inv, Runs, Live
  <2>2. Shape'
    BY <1>1, <1>2, <1>4, <2>1, DropShape DEF Shape
  <2>3. PICK t : t = tx[c]
    OBVIOUS
  <2>4. /\ \A d \in Live \ {c} : Apart(t, tx[d])
        /\ \A o \in orphans : Apart(t, o.t)
    BY <2>1, <2>3 DEF Inv, Exclusive
  <2>5. t \in Transaction /\ Sound(t) /\ (left = "commit" => Ready(t)) /\ Drop(c, t, left)
    BY <1>4, <2>1, <2>3
  <2>6. QED
    BY <1>1, <1>2, <2>1, <2>2, <2>4, <2>5, DropStep
<1>5. QED
  BY <1>3, <1>4 DEF Abandon

\* The database executes a statement for a transaction dropped.
LEMMA ExecuteInv == ASSUME Inv, NEW o \in orphans, Execute(o) PROVE Inv'
<1>1. Shape /\ o.t \in Transaction /\ Sound(o.t) /\ UNCHANGED <<rows, events, drawn, pc, call, tx>>
  BY OrphanTransaction DEF Execute, Inv, Ends
<1>2. PICK t \in Transaction :
        /\ Executed(o, t) /\ Sound(t)
        /\ \A c \in Live : Apart(t, tx[c])
        /\ \A p \in orphans \ {o} : Apart(t, p.t)
  <2>1. CASE Executed(o, Inserted(o.t))
    <3>1. PICK t : t = Inserted(o.t)
      OBVIOUS
    <3>2. /\ t \in Transaction /\ Sound(t) /\ t.of = o.t.of /\ t.locked = o.t.locked
          /\ Executed(o, t)
      BY <1>1, <2>1, <3>1, InsertedIs
    <3>3. /\ \A c \in Live : Apart(t, tx[c])
          /\ \A p \in orphans \ {o} : Apart(t, p.t)
      BY <3>2 DEF Inv, Exclusive, Apart
    <3>4. QED
      BY <3>2, <3>3
  <2>2. CASE Unlocked(Rivals(o)) /\ Executed(o, Locked(o.t))
    <3>1. PICK t : t = Locked(o.t)
      OBVIOUS
    <3>2. t \in Transaction /\ Sound(t) /\ t.of = o.t.of /\ Executed(o, t)
      BY <1>1, <2>2, <3>1, LockedIs
    <3>3. /\ \A c \in Live : Apart(t, tx[c])
          /\ \A p \in orphans \ {o} : Apart(t, p.t)
      BY <2>2, <3>2 DEF Unlocked, Rivals, Working, Apart
    <3>4. QED
      BY <3>2, <3>3
  <2>3. QED
    BY <2>1, <2>2 DEF Execute
<1>3. PICK new : new = [t |-> t, left |-> "rollback"]
  OBVIOUS
<1>4. new \in Orphan /\ new.t = t /\ new.left # "commit" /\ orphans' = (orphans \ {o}) \cup {new}
  BY <1>2, <1>3 DEF Executed, Orphan
<1>5. Shape' /\ Live' = Live
  BY <1>1, <1>4 DEF Shape, Live
<1>6. (\A c \in Clients : Runs(c))'
  BY <1>1, <1>5 DEF Inv, Runs, Sound, Ready
<1>7. (\A p \in orphans : Ends(p))'
  BY <1>1, <1>2, <1>4 DEF Inv, Ends, Sound, Ready
<1>8. Exclusive'
  <2>1. \A c \in Live : Apart(tx[c], t)
    BY <1>2 DEF Apart
  <2>2. \A p \in orphans \ {o} : Apart(t, p.t) /\ Apart(p.t, t)
    BY <1>2 DEF Apart
  <2>3. QED
    BY <1>1, <1>4, <1>5, <2>1, <2>2 DEF Inv, Exclusive
<1>9. EventsDrawn' /\ VersionIsLastPosition'
  BY <1>1 DEF Inv, EventsDrawn, VersionIsLastPosition, OfStream
<1>10. QED
  BY <1>5, <1>6, <1>7, <1>8, <1>9 DEF Inv

LEMMA EndInv == ASSUME Inv, NEW o \in orphans, End(o) PROVE Inv'
<1>1. /\ orphans' = orphans \ {o} /\ UNCHANGED <<drawn, pc, call, tx>> /\ Shape
      /\ Live' = Live
  BY DEF End, Inv, Live
<1>2. o.t \in Transaction /\ Ends(o)
  BY <1>1, OrphanTransaction DEF Inv
<1>3. Exclusive'
  BY <1>1 DEF Inv, Exclusive
<1>4. CASE o.left # "commit"
  <2>1. UNCHANGED <<rows, events>>
    BY <1>4 DEF End
  <2>2. Shape'
    BY <1>1, <2>1 DEF Shape
  <2>3. (\A c \in Clients : Runs(c))'
    BY <1>1, <2>1 DEF Inv, Runs, Sound, Ready, Live
  <2>4. (\A p \in orphans : Ends(p))'
    BY <1>1, <2>1 DEF Inv, Ends, Sound, Ready
  <2>5. EventsDrawn' /\ VersionIsLastPosition'
    BY <1>1, <2>1 DEF Inv, EventsDrawn, VersionIsLastPosition, OfStream
  <2>6. QED
    BY <1>3, <2>2, <2>3, <2>4, <2>5 DEF Inv
<1>5. CASE o.left = "commit"
  <2> DEFINE t == o.t
  <2>1. t \in Transaction /\ Sound(t) /\ Ready(t) /\ Applies(t)
    BY <1>2, <1>5 DEF Ends, End
  <2>2. /\ \A c \in Live : Apart(t, tx[c])
        /\ \A p \in orphans \ {o} : Apart(t, p.t)
    BY DEF Inv, Exclusive, Apart
  <2> HIDE DEF t
  <2>3. Shape'
    <3>1. /\ rows' \in [Streams -> {NoRow, Null} \cup Nat]
          /\ events' \subseteq [pos : Nat, s : Streams, by : Clients, call : Nat]
      BY <1>1, <2>1, AppliesShape
    <3>2. QED
      BY <1>1, <3>1 DEF Shape
  <2>4. EventsDrawn' /\ VersionIsLastPosition'
    BY <1>1, <2>1, AppliesDrawn, AppliesVersion DEF Inv
  <2>5. ASSUME NEW u \in Transaction, Sound(u), Apart(t, u)
        PROVE  /\ u.locked \/ u.positions = <<>>
               /\ \A i \in 1..Len(u.positions) :
                    /\ u.positions[i] <= drawn' /\ u.positions[i] <= u.positions[Len(u.positions)]
                    /\ \A e \in events' : e.s = u.of.s => e.pos < u.positions[i]
    BY <1>1, <2>1, <2>5, AppliesApart DEF Sound
  <2>6. ASSUME NEW c \in Clients PROVE Runs(c)'
    <3>1. ASSUME c \in Live PROVE Sound(tx[c])'
      <4> DEFINE u == tx[c]
      <4> HIDE DEF u
      <4>1. u \in Transaction /\ Sound(u) /\ Apart(t, u)
        BY <1>1, <2>2, <3>1, LiveTransaction DEF u, Inv, Runs
      <4>2. u = tx'[c]
        BY <1>1 DEF u
      <4>3. QED
        BY <2>5, <4>1, <4>2 DEF Sound
    <3>2. (c \in Live)' => tx'[c].of = call'[c] /\ Sound(tx[c])'
      BY <1>1, <3>1 DEF Inv, Runs
    <3>3. QED
      BY <1>1, <3>2 DEF Inv, Runs, Ready
  <2>7. ASSUME NEW p \in orphans \ {o} PROVE Ends(p)'
    <3>1. p.t \in Transaction /\ Sound(p.t) /\ Apart(t, p.t)
      BY <1>1, <2>2, OrphanTransaction DEF Inv, Ends
    <3>2. Sound(p.t)'
      BY <2>5, <3>1 DEF Sound
    <3>3. QED
      BY <3>2 DEF Inv, Ends, Ready
  <2>8. QED
    BY <1>1, <1>3, <2>3, <2>4, <2>6, <2>7 DEF Inv
<1>6. QED
  BY <1>2, <1>4, <1>5

-----------------------------------------------------------------------------
\* The theorems.

LEMMA InitInv == Init => Inv
<1> SUFFICES ASSUME Init PROVE Inv
  OBVIOUS
<1>1. \A c \in Clients : call[c] \in Request
  <2> TAKE c \in Clients
  <2>1. PICK d \in Clients, s \in Streams :
          call[c] = [by |-> d, call |-> 0, s |-> s, n |-> 0, expect |-> AnyVersion]
    BY DEF Init
  <2>2. QED
    BY <2>1 DEF Request
<1>2. call \in [Clients -> Request]
  BY <1>1 DEF Init
<1>3. Shape
  BY <1>2 DEF Init, Shape, Labels
<1>4. \A c \in Clients : tx[c] = NoTx /\ pc[c] = "idle"
  BY DEF Init
<1>5. Live = {}
  BY <1>4 DEF Live
<1>6. orphans = {} /\ events = {} /\ \A s \in Streams : rows[s] = NoRow
  BY DEF Init
<1>7. \A c \in Clients : Runs(c)
  BY <1>4, <1>5 DEF Runs
<1>8. Exclusive /\ EventsDrawn /\ VersionIsLastPosition
  BY <1>5, <1>6 DEF Exclusive, EventsDrawn, VersionIsLastPosition, OfStream
<1>9. QED
  BY <1>3, <1>6, <1>7, <1>8 DEF Inv

LEMMA Inductive == Inv /\ [Next]_vars => Inv'
<1> SUFFICES ASSUME Inv, [Next]_vars PROVE Inv'
  OBVIOUS
<1>1. CASE UNCHANGED vars
  BY <1>1
  DEF vars, Inv, Shape, EventsDrawn, Exclusive, Live, Runs, Ends, Sound, Ready,
      VersionIsLastPosition, OfStream
<1>2. ASSUME NEW c \in Clients, Ask(c) \/ Step(c) \/ Abandon(c) PROVE Inv'
  BY <1>2, AskInv, BeginInv, InsertRowInv, SelectInv, InsertEventInv, UpdateInv, CommitInv,
     AbandonInv DEF Step
<1>3. ASSUME NEW o \in orphans, Execute(o) \/ End(o) PROVE Inv'
  BY <1>3, ExecuteInv, EndInv
<1>4. QED
  BY <1>1, <1>2, <1>3 DEF Next

LEMMA InvHolds == Spec => []Inv
BY InitInv, Inductive, PTL DEF Spec

\* es_streams.last_position is the position of the stream's last event in
\* es_events, and a stream without events has no row, wherever calls are dropped
\* and COMMITs go unanswered, on any number of clients, streams and connections.
THEOREM VersionFaithful == Spec => []VersionIsLastPosition
<1>1. Inv => VersionIsLastPosition
  BY DEF Inv
<1>2. QED
  BY <1>1, InvHolds, PTL

\* Events appear in a stream in the order of their positions.
THEOREM StreamsInOrder == Spec => StreamInPositionOrder
<1>1. Inv /\ [Next]_vars =>
        [\A e \in events' \ events, f \in events : e.s = f.s => e.pos > f.pos]_vars
  <2> SUFFICES ASSUME Inv, Next
               PROVE  \A e \in events' \ events, f \in events : e.s = f.s => e.pos > f.pos
    OBVIOUS
  <2>1. ASSUME NEW t \in Transaction, Sound(t), Ready(t), Applies(t)
        PROVE  \A e \in events' \ events, f \in events : e.s = f.s => e.pos > f.pos
    BY <2>1, AppliedEvents DEF Inv
  <2>2. ASSUME NEW c \in Clients, Commit(c)
        PROVE  tx[c] \in Transaction /\ Sound(tx[c]) /\ Ready(tx[c]) /\ Applies(tx[c])
    BY <2>2, LiveTransaction DEF Inv, Runs, Live, Commit
  <2>3. ASSUME NEW o \in orphans, End(o), o.left = "commit"
        PROVE  o.t \in Transaction /\ Sound(o.t) /\ Ready(o.t) /\ Applies(o.t)
    BY <2>3, OrphanTransaction DEF Inv, Ends, End
  <2>4. \/ events' = events
        \/ \E c \in Clients : Commit(c)
        \/ \E o \in orphans : End(o) /\ o.left = "commit"
    BY DEF Next, Step, Ask, Begin, InsertRow, SelectForUpdate, InsertEvent, Update, Abandon,
           Execute, End
  <2>5. QED
    BY <2>1, <2>2, <2>3, <2>4
<1>2. QED
  BY <1>1, InvHolds, PTL DEF Spec, StreamInPositionOrder

-----------------------------------------------------------------------------
\* Each step is one of an atomic store, or none.

\* The open transactions, dropped ones included.
Dealt == {tx[c] : c \in Live} \cup {o.t : o \in orphans}

\* No two open calls or dropped transactions are of the same request.
Numbered ==
    /\ \A c \in Clients : call[c].by = c /\ (pc[c] # "idle" => call[c].n > 0)
    /\ \A o \in orphans :
         /\ o.t.of.call <= call[o.t.of.by].call
         /\ pc[o.t.of.by] # "idle" => o.t.of.call < call[o.t.of.by].call
    /\ \A o, p \in orphans : o.t.of = p.t.of => o = p

\* t has inserted its stream's row, or found it.
HasRow(t) == t.created <=> rows[t.of.s] = NoRow

\* A row just inserted is nobody else's; positions are drawn in order.
Granted(t) ==
    /\ t.created => rows[t.of.s] = NoRow
    /\ \A i, j \in 1..Len(t.positions) : i < j => t.positions[i] < t.positions[j]

\* t has the lock and has passed the checks: its stream is as its request expects.
Cleared(t) == t.locked /\ HasRow(t) /\ Atomic!Admits(t.of)

\* No two transactions have inserted one row.
Alone(t, u) == t.created /\ u.created => t.of.s # u.of.s

Proceeds(c) ==
    /\ IF pc[c] = "insert row" THEN ~tx[c].created ELSE HasRow(tx[c])
    /\ pc[c] \in {"insert events", "update", "commit"} => Cleared(tx[c])
    /\ pc[c] \in {"insert row", "select", "insert events"} => Len(tx[c].positions) < call[c].n
    /\ pc[c] \in {"update", "commit"} => Len(tx[c].positions) = call[c].n

Serial ==
    /\ Numbered
    /\ \A t \in Dealt : Granted(t)
    /\ \A t, u \in Dealt : t # u => Alone(t, u)
    /\ \A c \in Live : Proceeds(c)
    /\ \A o \in orphans : o.left = "commit" => Cleared(o.t) /\ Len(o.t.positions) = o.t.of.n

LEMMA AdmitsIs ==
    ASSUME NEW q
    PROVE  Atomic!Admits(q) <=>
             \/ q.expect = AnyVersion
             \/ q.expect = NewStream /\ OfStream(q.s) = {}
             \/ \E e \in OfStream(q.s) : e.pos = q.expect /\ \A f \in OfStream(q.s) : f.pos <= e.pos
BY DEF Atomic!Admits, Atomic!OfStream, OfStream

\* An open transaction is told by its request.
LEMMA Distinct ==
    ASSUME Inv, Numbered
    PROVE  /\ Dealt \subseteq Transaction
           /\ \A c, d \in Live : tx[c] = tx[d] => c = d
           /\ \A c \in Live, o \in orphans : tx[c] # o.t
           /\ \A o, p \in orphans : o.t = p.t => o = p
           /\ \A t, u \in Dealt : t # u => Apart(t, u)
<1>1. \A c \in Live : c \in Clients /\ tx[c] \in Transaction /\ tx[c].of = call[c] /\ pc[c] # "idle"
  BY LiveTransaction DEF Inv, Runs, Live
<1>2. \A o \in orphans : o.t \in Transaction
  BY OrphanTransaction DEF Inv
<1>3. \A c, d \in Live : tx[c] = tx[d] => c = d
  BY <1>1 DEF Numbered
<1>4. ASSUME NEW c \in Live, NEW o \in orphans, tx[c] = o.t PROVE FALSE
  <2>1. o.t.of = call[c] /\ o.t.of.by = c /\ pc[c] # "idle"
    BY <1>1, <1>4 DEF Numbered
  <2>2. call[c].call < call[c].call
    BY <2>1 DEF Numbered
  <2>3. call[c].call \in Nat
    BY <1>1 DEF Inv, Shape, Request
  <2>4. QED
    BY <2>2, <2>3
<1>5. \A t, u \in Dealt : t # u => Apart(t, u)
  BY <1>3 DEF Inv, Exclusive, Dealt, Apart
<1>6. QED
  BY <1>1, <1>2, <1>3, <1>4, <1>5 DEF Dealt, Numbered

\* What holds of a transaction stays while the tables do.
LEMMA GrantedStays ==
    ASSUME NEW t, UNCHANGED <<rows, events>>
    PROVE  (Granted(t)' <=> Granted(t)) /\ (HasRow(t)' <=> HasRow(t)) /\ (Cleared(t)' <=> Cleared(t))
BY DEF Granted, HasRow, Cleared, Atomic!Admits, Atomic!OfStream

\* It also stays when another transaction commits.
LEMMA GrantedBeside ==
    ASSUME Shape, VersionIsLastPosition,
           NEW t \in Transaction, Sound(t), Ready(t), Granted(t), Cleared(t), Applies(t),
           NEW u \in Transaction, Granted(u), Apart(t, u), Alone(t, u)
    PROVE  Granted(u)' /\ (HasRow(u) => HasRow(u)') /\ (Cleared(u) => Cleared(u)')
<1>1. t.locked /\ HasRow(t) /\ t.last \in Nat /\ NoRow \notin Nat /\ t.of.s \in Streams
  BY ReadyLast, PostgresAssumption
  DEF Ready, Cleared, PostgresAssumption, Transaction, Request
<1>2. rows' = [rows EXCEPT ![t.of.s] = t.last] /\ rows \in [Streams -> {NoRow, Null} \cup Nat]
  BY DEF Applies, Shape
<1>3. CASE u.of.s # t.of.s
  <2>1. rows'[u.of.s] = rows[u.of.s]
    BY <1>2, <1>3
  <2>2. OfStream(u.of.s)' = OfStream(u.of.s)
    BY <1>3, AppliedEvents DEF OfStream
  <2>3. HasRow(u)' <=> HasRow(u)
    BY <2>1 DEF HasRow
  <2>4. Atomic!Admits(u.of)' <=> Atomic!Admits(u.of)
    BY <2>2 DEF Atomic!Admits, Atomic!OfStream, OfStream
  <2>5. QED
    BY <2>1, <2>3, <2>4 DEF Granted, Cleared
<1>4. CASE u.of.s = t.of.s
  <2>1. ~u.locked
    BY <1>1, <1>4 DEF Apart
  <2>2. rows'[u.of.s] = t.last /\ rows'[u.of.s] # NoRow
    BY <1>1, <1>2, <1>4
  <2>3. ~u.created
    BY <1>1, <1>4 DEF Granted, HasRow, Alone
  <2>4. QED
    BY <2>1, <2>2, <2>3 DEF Granted, HasRow, Cleared
<1>5. QED
  BY <1>3, <1>4

-----------------------------------------------------------------------------
\* Requests stay apart.

LEMMA NumberedKept ==
    ASSUME Shape, Numbered, UNCHANGED call, orphans' \subseteq orphans,
           \A c \in Clients : pc'[c] # "idle" => pc[c] # "idle"
    PROVE  Numbered'
<1>1. \A o \in orphans : o.t.of.by \in Clients
  BY OrphanTransaction DEF Transaction, Request
<1>2. QED
  BY <1>1 DEF Numbered

LEMMA NumberedDropped ==
    ASSUME Inv, Numbered, NEW c \in Live, NEW t, t.of = tx[c].of, NEW what, Drop(c, t, what),
           pc' = [pc EXCEPT ![c] = "idle"], UNCHANGED call
    PROVE  Numbered'
<1>1. /\ c \in Clients /\ tx[c].of = call[c] /\ pc[c] # "idle" /\ call[c].by = c
      /\ call[c].call \in Nat /\ pc'[c] = "idle"
      /\ \A d \in Clients \ {c} : pc'[d] = pc[d]
  BY LiveTransaction DEF Inv, Runs, Live, Shape, Request, Numbered
<1>2. \A o \in orphans : o.t.of.by \in Clients /\ o.t.of.call \in Nat
  BY OrphanTransaction DEF Inv, Transaction, Request
<1> DEFINE left == [t |-> t, left |-> what]
<1>3. orphans' = orphans \cup {left} /\ left.t.of = call[c]
  BY <1>1 DEF Drop
<1>4. \A o \in orphans : o.t.of # call[c]
  BY <1>1, <1>2 DEF Numbered
<1>5. \A d \in Clients : call'[d].by = d /\ (pc'[d] # "idle" => call'[d].n > 0)
  BY <1>1 DEF Numbered
<1>6. ASSUME NEW o \in orphans'
      PROVE  /\ o.t.of.call <= call'[o.t.of.by].call
             /\ pc'[o.t.of.by] # "idle" => o.t.of.call < call'[o.t.of.by].call
  <2>1. CASE o = left
    BY <1>1, <1>3, <2>1
  <2>2. CASE o \in orphans
    BY <1>1, <1>2, <2>2 DEF Numbered
  <2>3. QED
    BY <1>3, <2>1, <2>2
<1>7. ASSUME NEW o \in orphans', NEW p \in orphans', o.t.of = p.t.of PROVE o = p
  BY <1>3, <1>4, <1>7 DEF Numbered
<1>8. QED
  BY <1>5, <1>6, <1>7 DEF Numbered

LEMMA NumberedAsk == ASSUME Inv, Numbered, NEW c \in Clients, Ask(c) PROVE Numbered'
<1>1. PICK s, n, v :
        /\ n \in 0..MaxBatch
        /\ call' = [call EXCEPT ![c] = [by |-> c, call |-> call[c].call + 1,
                                        s |-> s, n |-> n, expect |-> v]]
        /\ IF n = 0 THEN Return(c, "ok") ELSE Goto(c, "begin") /\ UNCHANGED ret
  BY DEF Ask
<1>2. n \in Nat /\ pc[c] = "idle" /\ UNCHANGED orphans
  BY <1>1, PostgresAssumption DEF Ask, PostgresAssumption
<1>3. /\ pc'[c] # "idle" => n # 0
      /\ \A d \in Clients \ {c} : pc'[d] = pc[d] /\ call'[d] = call[d]
  BY <1>1 DEF Return, Goto, Inv, Shape
<1>4. call'[c].by = c /\ call'[c].call = call[c].call + 1 /\ call'[c].n = n /\ call[c].call \in Nat
  BY <1>1 DEF Inv, Shape, Request
<1>5. \A o \in orphans : o.t.of.by \in Clients /\ o.t.of.call \in Nat
  BY OrphanTransaction DEF Inv, Transaction, Request
<1>6. \A d \in Clients : call'[d].by = d /\ (pc'[d] # "idle" => call'[d].n > 0)
  BY <1>2, <1>3, <1>4 DEF Numbered
<1>7. ASSUME NEW o \in orphans
      PROVE  /\ o.t.of.call <= call'[o.t.of.by].call
             /\ pc'[o.t.of.by] # "idle" => o.t.of.call < call'[o.t.of.by].call
  <2>1. CASE o.t.of.by = c
    BY <1>4, <1>5, <2>1 DEF Numbered
  <2>2. CASE o.t.of.by # c
    BY <1>3, <1>5, <2>2 DEF Numbered
  <2>3. QED
    BY <2>1, <2>2
<1>8. QED
  BY <1>2, <1>6, <1>7 DEF Numbered

-----------------------------------------------------------------------------
\* Kinds of steps.

\* A client whose transaction stays proceeds while the tables stay.
LEMMA ProceedsStays ==
    ASSUME NEW c, Proceeds(c), UNCHANGED <<rows, events>>,
           tx'[c] = tx[c], pc'[c] = pc[c], call'[c] = call[c]
    PROVE  Proceeds(c)'
<1>1. PICK t : t = tx[c]
  OBVIOUS
<1>2. t = tx'[c]
  BY <1>1
<1>3. (HasRow(t)' <=> HasRow(t)) /\ (Cleared(t)' <=> Cleared(t))
  BY GrantedStays
<1>4. (HasRow(tx[c])' <=> HasRow(tx[c])) /\ (Cleared(tx[c])' <=> Cleared(tx[c]))
  BY <1>1, <1>2, <1>3 DEF HasRow, Cleared, Atomic!Admits, Atomic!OfStream
<1>5. QED
  BY <1>4 DEF Proceeds

\* A step that deals no transaction and changes no table.
LEMMA SerialIdle ==
    ASSUME Serial, Numbered', UNCHANGED <<rows, events, tx, orphans>>,
           \A c \in Live : pc'[c] = pc[c] /\ call'[c] = call[c]
    PROVE  Serial'
<1>1. Live' = Live
  BY DEF Live
<1>2. Dealt' = Dealt
  BY <1>1 DEF Dealt
<1>3. \A c \in Live : Proceeds(c)'
  BY ProceedsStays DEF Serial
<1>4. \A t \in Dealt : Granted(t)'
  BY GrantedStays DEF Serial
<1>5. \A o \in orphans : o.left = "commit" => Cleared(o.t)'
  BY GrantedStays DEF Serial
<1>6. QED
  BY <1>1, <1>2, <1>3, <1>4, <1>5 DEF Serial, Alone

\* c opens its transaction or works on it, which makes it u.
LEMMA SerialWorks ==
    ASSUME Inv, Serial, NEW c \in Clients, pc[c] # "idle", UNCHANGED <<rows, events, orphans, call>>,
           \A d \in Clients \ {c} : tx'[d] = tx[d] /\ pc'[d] = pc[d],
           NEW u \in Transaction, tx'[c] = u, Granted(u),
           \A t \in Dealt : t # tx[c] => Alone(t, u),
           Proceeds(c)'
    PROVE  Serial'
<1>1. Live' \subseteq Live \cup {c} /\ \A d \in Live' \ {c} : d \in Live /\ tx'[d] = tx[d] /\ pc'[d] = pc[d]
  BY DEF Live
<1>2. Numbered'
  BY NumberedKept DEF Inv, Serial
<1>3. ASSUME NEW t \in Dealt', t # u PROVE t \in Dealt /\ t # tx[c]
  <2>1. CASE \E d \in Live' : t = tx'[d]
    <3>1. PICK d \in Live' : t = tx'[d]
      BY <2>1
    <3>2. d # c /\ d \in Live /\ t = tx[d]
      BY <1>1, <1>3, <3>1
    <3>3. tx[d] # tx[c]
      BY <3>2, Distinct DEF Live, Serial
    <3>4. QED
      BY <3>2, <3>3 DEF Dealt
  <2>2. CASE \E o \in orphans : t = o.t
    <3>1. t \in Dealt
      BY <2>2 DEF Dealt
    <3>2. t # tx[c]
      BY <2>2, <3>1, Distinct, NoTxAssumption DEF Live, Serial
    <3>3. QED
      BY <3>1, <3>2
  <2>3. QED
    BY <2>1, <2>2 DEF Dealt
<1>4. \A t \in Dealt' : Granted(t)'
  BY <1>3, GrantedStays DEF Serial
<1>5. \A t, v \in Dealt' : t # v => Alone(t, v)
  BY <1>3 DEF Serial, Alone
<1>6. ASSUME NEW d \in Live' PROVE Proceeds(d)'
  <2>1. CASE d = c
    BY <2>1
  <2>2. CASE d # c
    <3>1. d \in Live /\ tx'[d] = tx[d] /\ pc'[d] = pc[d] /\ Proceeds(d)
      BY <1>1, <2>2 DEF Serial
    <3>2. QED
      BY <3>1, ProceedsStays
  <2>3. QED
    BY <2>1, <2>2
<1>7. \A o \in orphans : o.left = "commit" => Cleared(o.t)'
  BY GrantedStays DEF Serial
<1>8. QED
  BY <1>2, <1>4, <1>5, <1>6, <1>7 DEF Serial, Alone

\* Two transactions alike for what follows.
Alike(t, u) == t.of = u.of /\ t.created = u.created /\ t.positions = u.positions

\* c drops its transaction, with the lock or without.
LEMMA SerialDrops ==
    ASSUME Inv, Serial, NEW c \in Live, NEW t, Alike(t, tx[c]), NEW what, Drop(c, t, what),
           what = "commit" => t = tx[c] /\ pc[c] = "commit",
           pc' = [pc EXCEPT ![c] = "idle"], UNCHANGED <<rows, events, call>>
    PROVE  Serial'
<1>1. Numbered'
  BY NumberedDropped DEF Serial, Alike
<1>2. c \in Clients /\ \A d \in Live : d \in Clients
  BY DEF Live
<1>3. /\ orphans' = orphans \cup {[t |-> t, left |-> what]}
      /\ tx'[c] = NoTx /\ \A d \in Clients \ {c} : tx'[d] = tx[d] /\ pc'[d] = pc[d]
  BY <1>2 DEF Drop, Inv, Shape
<1>4. Live' = Live \ {c}
  BY <1>3 DEF Live
<1>5. Dealt' \subseteq (Dealt \ {tx[c]}) \cup {t} /\ tx[c] \in Dealt
  <2>1. \A d \in Live' : tx'[d] = tx[d] /\ tx[d] \in Dealt /\ tx[d] # tx[c]
    BY <1>2, <1>3, <1>4, Distinct DEF Dealt, Serial
  <2>2. \A o \in orphans : o.t \in Dealt /\ o.t # tx[c]
    BY Distinct DEF Dealt, Serial
  <2>3. tx[c] \in Dealt
    BY DEF Dealt
  <2>4. QED
    BY <1>3, <2>1, <2>2, <2>3 DEF Dealt
<1>6. \A u \in Dealt' : Granted(u)'
  <2>1. Granted(t)
    BY <1>5 DEF Serial, Granted, Alike
  <2>2. QED
    BY <1>5, <2>1, GrantedStays DEF Serial
<1>7. \A u, v \in Dealt' : u # v => Alone(u, v)
  BY <1>5 DEF Serial, Alone, Alike
<1>8. ASSUME NEW d \in Live' PROVE Proceeds(d)'
  <2>1. d \in Live /\ tx'[d] = tx[d] /\ pc'[d] = pc[d] /\ Proceeds(d)
    BY <1>2, <1>3, <1>4 DEF Serial
  <2>2. QED
    BY <2>1, ProceedsStays
<1>9. ASSUME NEW o \in orphans', o.left = "commit" PROVE Cleared(o.t)' /\ Len(o.t.positions) = o.t.of.n
  <2>1. CASE o \in orphans
    BY <1>9, <2>1, GrantedStays DEF Serial
  <2>2. CASE o = [t |-> t, left |-> what]
    <3>1. t = tx[c] /\ pc[c] = "commit" /\ Proceeds(c) /\ tx[c].of = call[c]
      BY <1>2, <1>9, <2>2 DEF Serial, Inv, Runs
    <3>2. Cleared(t) /\ Len(t.positions) = t.of.n
      BY <3>1 DEF Proceeds
    <3>3. QED
      BY <2>2, <3>2, GrantedStays
  <2>3. QED
    BY <1>3, <2>1, <2>2
<1>10. QED
  BY <1>1, <1>6, <1>7, <1>8, <1>9 DEF Serial, Alone

\* The database commits t, one of the open transactions.
LEMMA SerialApplies ==
    ASSUME Inv, Serial, NEW t \in Dealt, Sound(t), Ready(t), Cleared(t), Applies(t),
           Dealt' \subseteq Dealt \ {t}, Numbered', UNCHANGED call,
           orphans' \subseteq orphans, Live' \subseteq Live,
           \A c \in Live' : tx'[c] = tx[c] /\ pc'[c] = pc[c]
    PROVE  Serial'
<1>1. ASSUME NEW u \in Dealt \ {t}
      PROVE  Granted(u)' /\ (HasRow(u) => HasRow(u)') /\ (Cleared(u) => Cleared(u)')
  <2>1. t \in Transaction /\ u \in Transaction /\ Apart(t, u) /\ Alone(t, u) /\ Granted(t) /\ Granted(u)
    BY Distinct DEF Serial
  <2>2. QED
    BY <2>1, GrantedBeside DEF Inv
<1>2. ASSUME NEW c \in Live' PROVE Proceeds(c)'
  <2>1. PICK u : u = tx[c]
    OBVIOUS
  <2>2. u = tx'[c] /\ pc'[c] = pc[c] /\ c \in Live
    BY <2>1
  <2>3. u \in Dealt'
    BY <2>2 DEF Dealt
  <2>4. (HasRow(u) => HasRow(u)') /\ (Cleared(u) => Cleared(u)')
    BY <1>1, <2>3
  <2>5. (HasRow(tx[c]) => HasRow(tx[c])') /\ (Cleared(tx[c]) => Cleared(tx[c])')
    BY <2>1, <2>2, <2>4 DEF HasRow, Cleared, Atomic!Admits, Atomic!OfStream
  <2>6. QED
    BY <2>2, <2>5 DEF Serial, Proceeds
<1>3. ASSUME NEW o \in orphans', o.left = "commit" PROVE Cleared(o.t)'
  <2>1. o.t \in Dealt' /\ Cleared(o.t)
    BY <1>3 DEF Dealt, Serial
  <2>2. QED
    BY <1>1, <2>1
<1>4. QED
  BY <1>1, <1>2, <1>3 DEF Serial, Alone

-----------------------------------------------------------------------------
\* The actions.

\* What holds while c's statement runs.
LEMMA Running ==
    ASSUME Inv, Serial, NEW c \in Live
    PROVE  /\ c \in Clients /\ tx[c] \in Transaction /\ tx[c] \in Dealt
           /\ tx[c].of = call[c] /\ Sound(tx[c]) /\ Granted(tx[c]) /\ Proceeds(c)
           /\ call[c] \in Request /\ call[c].n \in Nat
           /\ tx[c].positions \in Seq(Nat) /\ Len(tx[c].positions) \in Nat
<1>1. c \in Clients /\ tx[c] \in Transaction /\ tx[c] \in Dealt
  BY LiveTransaction DEF Inv, Dealt
<1>2. tx[c].positions \in Seq(Nat)
  BY <1>1 DEF Transaction
<1>3. Len(tx[c].positions) \in Nat
  BY <1>2, LenProperties
<1>4. call[c] \in Request /\ call[c].n \in Nat
  BY <1>1 DEF Inv, Shape, Request
<1>5. QED
  BY <1>1, <1>2, <1>3, <1>4 DEF Inv, Runs, Serial

LEMMA BeginSerial == ASSUME Inv, Serial, NEW c \in Clients, Begin(c) PROVE Serial'
<1>1. /\ pc[c] = "begin" /\ Goto(c, "insert row")
      /\ tx' = [tx EXCEPT ![c] = [of |-> call[c], created |-> FALSE, locked |-> FALSE,
                                  positions |-> <<>>, last |-> Null]]
      /\ UNCHANGED <<rows, events, drawn, call, orphans, ret>>
  BY DEF Begin
<1>2. /\ pc'[c] = "insert row" /\ \A d \in Clients \ {c} : tx'[d] = tx[d] /\ pc'[d] = pc[d]
      /\ call[c] \in Request /\ call[c].n \in Nat /\ call[c].n > 0
  BY <1>1 DEF Goto, Inv, Shape, Request, Serial, Numbered
<1>3. PICK u : u = [of |-> call[c], created |-> FALSE, locked |-> FALSE,
                    positions |-> <<>>, last |-> Null]
  OBVIOUS
<1>4. u \in Transaction /\ tx'[c] = u
  <2>1. tx'[c] = u
    BY <1>1, <1>3 DEF Inv, Shape
  <2>2. u \in Transaction
    BY <1>2, <1>3, EmptySeq DEF Transaction
  <2>3. QED
    BY <2>1, <2>2
<1>5. /\ ~u.created /\ ~u.locked /\ u.positions = <<>> /\ Len(u.positions) = 0
      /\ u.of = call[c]
  BY <1>3
<1>6. Granted(u)
  BY <1>5 DEF Granted
<1>7. \A t \in Dealt : Alone(t, u)
  BY <1>5 DEF Alone
<1>8. Proceeds(c)'
  BY <1>1, <1>2, <1>4, <1>5 DEF Proceeds
<1>9. QED
  BY <1>1, <1>2, <1>4, <1>6, <1>7, <1>8, SerialWorks

LEMMA InsertRowSerial == ASSUME Inv, Serial, NEW c \in Clients, InsertRow(c) PROVE Serial'
<1>1. /\ pc[c] = "insert row" /\ Goto(c, "select")
      /\ KeyFree(Others(c)) /\ tx' = [tx EXCEPT ![c] = Inserted(tx[c])]
      /\ UNCHANGED <<rows, events, drawn, call, orphans, ret>>
  BY DEF InsertRow
<1>2. c \in Live
  BY <1>1 DEF Inv, Runs, Live
<1>3. /\ pc'[c] = "select" /\ \A d \in Clients \ {c} : tx'[d] = tx[d] /\ pc'[d] = pc[d]
  BY <1>1 DEF Goto, Inv, Shape
<1>4. PICK u : u = Inserted(tx[c])
  OBVIOUS
<1>5. /\ u \in Transaction /\ tx'[c] = u /\ u.of = call[c]
      /\ u.created <=> rows[call[c].s] = NoRow
      /\ u.positions = tx[c].positions
  <2>1. c \in Clients /\ tx[c] \in Transaction /\ tx[c].of = call[c]
    BY <1>2, Running
  <2>2. tx'[c] = u
    BY <1>1, <1>4, <2>1 DEF Inv, Shape
  <2>3. QED
    BY <1>4, <2>1, <2>2, InsertedIs
<1>6. HasRow(u)
  BY <1>5 DEF HasRow
<1>7. Granted(u)
  BY <1>2, <1>5, Running DEF Granted
<1>8. ASSUME NEW t \in Dealt, t # tx[c] PROVE Alone(t, u)
  <2>1. t.of.s = call[c].s => t \in Others(c)
    BY <1>8 DEF Dealt, Others, Working
  <2>2. QED
    BY <1>1, <1>5, <2>1 DEF Alone, KeyFree
<1>9. Proceeds(c)'
  <2>1. HasRow(u)'
    BY <1>1, <1>6, GrantedStays
  <2>2. HasRow(tx[c])'
    BY <1>5, <2>1 DEF HasRow
  <2>3. Len(u.positions) < call[c].n
    BY <1>1, <1>2, <1>5, Running DEF Proceeds
  <2>4. QED
    BY <1>1, <1>3, <1>5, <2>2, <2>3 DEF Proceeds
<1>10. QED
  BY <1>1, <1>3, <1>5, <1>7, <1>8, <1>9, SerialWorks

\* The row holds the position of the stream's last event, so the request that
\* passes the checks is admitted, and the one refused is not.
LEMMA Checks ==
    ASSUME Inv, Serial, NEW c \in Live, pc[c] = "select"
    PROVE  /\ Conflicts(c) => ~Atomic!Admits(call[c])
           /\ ~Conflicts(c) /\ ~NullFails(c) => Atomic!Admits(call[c])
<1> DEFINE s == call[c].s
           v == call[c].expect
<1>1. /\ c \in Clients /\ s \in Streams /\ v \in {AnyVersion, NewStream} \cup Nat
      /\ HasRow(tx[c]) /\ tx[c].of = call[c]
  BY Running DEF Request, Proceeds
<1>2. AnyVersion \notin Nat /\ NewStream \notin Nat /\ NoRow \notin Nat /\ Null \notin Nat
  BY PostgresAssumption DEF PostgresAssumption
<1>3. \A e \in OfStream(s) : e.pos \in Nat
  BY DEF Inv, Shape, OfStream
<1>4. IF OfStream(s) = {} THEN rows[s] = NoRow
      ELSE (\E e \in OfStream(s) : e.pos = rows[s]) /\ \A e \in OfStream(s) : e.pos <= rows[s]
  BY <1>1 DEF Inv, VersionIsLastPosition
<1>5. tx[c].created <=> OfStream(s) = {}
  BY <1>1, <1>2, <1>3, <1>4 DEF HasRow
<1>6. Current(c) = IF OfStream(s) = {} THEN Null ELSE rows[s]
  BY <1>5 DEF Current
<1>7. Atomic!Admits(call[c]) <=>
        \/ v = AnyVersion
        \/ v = NewStream /\ OfStream(s) = {}
        \/ \E e \in OfStream(s) : e.pos = v /\ \A f \in OfStream(s) : f.pos <= e.pos
  BY AdmitsIs
<1>8. CASE v = AnyVersion
  <2>1. ~Conflicts(c)
    BY <1>8, PostgresAssumption DEF Conflicts, PostgresAssumption
  <2>2. QED
    BY <1>7, <1>8, <2>1
<1>9. CASE v = NewStream /\ v # AnyVersion
  <2>1. OfStream(s) # {} => rows[s] \in Nat
    BY <1>3, <1>4
  <2>2. Conflicts(c) <=> OfStream(s) # {}
    BY <1>2, <1>6, <1>9, <2>1 DEF Conflicts
  <2>3. Conflicts(c) \/ NullFails(c)
    BY <1>6, <1>9, <2>2 DEF NullFails
  <2>4. QED
    BY <1>2, <1>3, <1>7, <1>9, <2>2, <2>3
<1>10. CASE v \in Nat
  <2>1. Conflicts(c) <=> Current(c) # v
    BY <1>2, <1>10 DEF Conflicts
  <2>2. CASE OfStream(s) = {}
    BY <1>2, <1>6, <1>7, <1>10, <2>1, <2>2
  <2>3. CASE OfStream(s) # {}
    <3>1. PICK e \in OfStream(s) : e.pos = rows[s] /\ \A f \in OfStream(s) : f.pos <= e.pos
      BY <1>4, <2>3
    <3>2. Current(c) = v => Atomic!Admits(call[c])
      BY <1>6, <1>7, <2>3, <3>1
    <3>3. ASSUME Atomic!Admits(call[c]) PROVE Current(c) = v
      <4>1. PICK f \in OfStream(s) : f.pos = v /\ \A g \in OfStream(s) : g.pos <= f.pos
        BY <1>2, <1>7, <1>10, <3>3
      <4>2. f.pos <= e.pos /\ e.pos <= f.pos /\ f.pos \in Nat /\ e.pos \in Nat
        BY <1>3, <3>1, <4>1
      <4>3. QED
        BY <1>6, <2>3, <3>1, <4>1, <4>2
    <3>4. QED
      BY <2>1, <3>2, <3>3
  <2>4. QED
    BY <2>2, <2>3
<1>11. QED
  BY <1>1, <1>8, <1>9, <1>10

LEMMA SelectSerial == ASSUME Inv, Serial, NEW c \in Clients, SelectForUpdate(c) PROVE Serial'
<1>1. pc[c] = "select" /\ UNCHANGED <<rows, events, drawn, call>>
  BY DEF SelectForUpdate
<1>2. c \in Live
  BY <1>1 DEF Inv, Runs, Live
<1>3. PICK u : u = Locked(tx[c])
  OBVIOUS
<1>4. /\ u \in Transaction /\ u.of = tx[c].of /\ u.created = tx[c].created
      /\ u.positions = tx[c].positions /\ u.locked
  BY <1>2, <1>3, Running, LockedIs
<1>5. ASSUME NEW answer, Return(c, answer), Drop(c, Locked(tx[c]), "rollback") PROVE Serial'
  <2>1. Drop(c, u, "rollback") /\ Alike(u, tx[c])
    BY <1>3, <1>4, <1>5 DEF Alike
  <2>2. QED
    BY <1>1, <1>2, <1>5, <2>1, SerialDrops DEF Return, Goto
<1>6. ASSUME ~Conflicts(c), ~NullFails(c), tx' = [tx EXCEPT ![c] = Locked(tx[c])],
             Goto(c, "insert events"), UNCHANGED <<orphans, ret>>
      PROVE  Serial'
  <2>1. /\ pc'[c] = "insert events" /\ \A d \in Clients \ {c} : tx'[d] = tx[d] /\ pc'[d] = pc[d]
        /\ tx'[c] = u
    BY <1>3, <1>6 DEF Goto, Inv, Shape
  <2>2. HasRow(u) /\ u.of = call[c] /\ Len(u.positions) < call[c].n
    BY <1>1, <1>2, <1>4, Running DEF HasRow, Proceeds
  <2>3. Cleared(u)
    BY <1>1, <1>2, <1>4, <1>6, <2>2, Checks DEF Cleared
  <2>4. Granted(u)
    BY <1>2, <1>4, Running DEF Granted
  <2>5. \A t \in Dealt : t # tx[c] => Alone(t, u)
    BY <1>2, <1>4, Running DEF Serial, Alone
  <2>6. Proceeds(c)'
    <3>1. HasRow(u)' /\ Cleared(u)'
      BY <1>1, <2>2, <2>3, GrantedStays
    <3>2. HasRow(tx[c])' /\ Cleared(tx[c])'
      BY <2>1, <3>1 DEF HasRow, Cleared, Atomic!Admits, Atomic!OfStream
    <3>3. QED
      BY <1>1, <2>1, <2>2, <3>2 DEF Proceeds
  <2>7. QED
    BY <1>1, <1>4, <1>6, <2>1, <2>4, <2>5, <2>6, SerialWorks
<1>7. QED
  BY <1>5, <1>6 DEF SelectForUpdate

LEMMA InsertEventSerial == ASSUME Inv, Serial, NEW c \in Clients, InsertEvent(c) PROVE Serial'
<1>1. /\ pc[c] = "insert events" /\ drawn' = drawn + 1
      /\ tx' = [tx EXCEPT ![c].positions = Append(@, drawn + 1)]
      /\ IF Len(tx[c].positions) + 1 < call[c].n THEN UNCHANGED pc ELSE Goto(c, "update")
      /\ UNCHANGED <<rows, events, call, orphans, ret>>
  BY DEF InsertEvent
<1>2. c \in Live
  BY <1>1 DEF Inv, Runs, Live
<1>3. PICK old, u : old = tx[c] /\ u = [tx[c] EXCEPT !.positions = Append(tx[c].positions, drawn + 1)]
  OBVIOUS
<1>4. /\ old \in Transaction /\ drawn \in Nat /\ old.positions \in Seq(Nat)
      /\ Len(old.positions) \in Nat /\ call[c].n \in Nat /\ Len(old.positions) < call[c].n
      /\ Sound(old) /\ Granted(old) /\ old.of = call[c] /\ old \in Dealt /\ HasRow(old)
      /\ Cleared(old)
  BY <1>1, <1>2, <1>3, Running DEF Inv, Shape, Proceeds
<1>5. /\ u.positions = Append(old.positions, drawn + 1)
      /\ Len(u.positions) = Len(old.positions) + 1
      /\ \A i \in 1..Len(old.positions) : u.positions[i] = old.positions[i]
      /\ u.positions[Len(old.positions) + 1] = drawn + 1
      /\ u.positions \in Seq(Nat)
  <2>1. u.positions = Append(old.positions, drawn + 1) /\ drawn + 1 \in Nat
    BY <1>3, <1>4 DEF Transaction
  <2>2. QED
    BY <1>4, <2>1, AppendProperties
<1>6. /\ u \in Transaction /\ tx'[c] = u
      /\ u.of = old.of /\ u.created = old.created /\ u.locked = old.locked
  BY <1>1, <1>3, <1>4, <1>5 DEF Transaction, Inv, Shape
<1>7. /\ \A d \in Clients \ {c} : tx'[d] = tx[d] /\ pc'[d] = pc[d]
      /\ \/ pc'[c] = "insert events" /\ Len(old.positions) + 1 < call[c].n
         \/ pc'[c] = "update" /\ ~(Len(old.positions) + 1 < call[c].n)
  BY <1>1, <1>3 DEF Goto, Inv, Shape
<1>8. ASSUME NEW i \in 1..Len(u.positions), NEW j \in 1..Len(u.positions), i < j
      PROVE  u.positions[i] < u.positions[j]
  <2>1. i \in 1..Len(old.positions)
    BY <1>4, <1>5, <1>8
  <2>2. CASE j \in 1..Len(old.positions)
    BY <1>4, <1>5, <1>8, <2>1, <2>2 DEF Granted
  <2>3. CASE j = Len(old.positions) + 1
    <3>1. old.positions[i] <= drawn /\ old.positions[i] \in Nat
      BY <1>4, <2>1, ElementOfSeq DEF Sound
    <3>2. QED
      BY <1>4, <1>5, <2>1, <2>3, <3>1
  <2>4. QED
    BY <1>4, <1>5, <2>2, <2>3
<1>9. HasRow(u) /\ Cleared(u)
  BY <1>4, <1>6 DEF HasRow, Cleared
<1>10. Granted(u)
  BY <1>4, <1>6, <1>8, <1>9 DEF Granted
<1>11. \A t \in Dealt : t # tx[c] => Alone(t, u)
  BY <1>3, <1>4, <1>6 DEF Serial, Alone
<1>12. Proceeds(c)'
  <2>1. HasRow(u)' /\ Cleared(u)'
    BY <1>1, <1>9, GrantedStays
  <2>2. HasRow(tx[c])' /\ Cleared(tx[c])'
    BY <1>6, <2>1 DEF HasRow, Cleared, Atomic!Admits, Atomic!OfStream
  <2>3. Len(tx'[c].positions) = Len(old.positions) + 1 /\ call'[c].n = call[c].n
    BY <1>1, <1>5, <1>6
  <2>4. CASE pc'[c] = "insert events" /\ Len(old.positions) + 1 < call[c].n
    BY <2>2, <2>3, <2>4 DEF Proceeds
  <2>5. CASE pc'[c] = "update" /\ ~(Len(old.positions) + 1 < call[c].n)
    <3>1. Len(old.positions) + 1 = call[c].n
      BY <1>4, <2>5
    <3>2. QED
      BY <2>2, <2>3, <2>5, <3>1 DEF Proceeds
  <2>6. QED
    BY <1>7, <2>4, <2>5
<1>13. QED
  BY <1>1, <1>6, <1>7, <1>10, <1>11, <1>12, SerialWorks

LEMMA UpdateSerial == ASSUME Inv, Serial, NEW c \in Clients, Update(c) PROVE Serial'
<1>1. /\ pc[c] = "update" /\ Goto(c, "commit")
      /\ tx' = [tx EXCEPT ![c].last = LastReturned(c)]
      /\ UNCHANGED <<rows, events, drawn, call, orphans, ret>>
  BY DEF Update
<1>2. c \in Live
  BY <1>1 DEF Inv, Runs, Live
<1>3. /\ pc'[c] = "commit" /\ \A d \in Clients \ {c} : tx'[d] = tx[d] /\ pc'[d] = pc[d]
  BY <1>1 DEF Goto, Inv, Shape
<1>4. LastReturned(c) \in Nat
  <2>1. tx[c].positions \in Seq(Nat) /\ tx[c].positions # <<>>
    BY <1>1, <1>2, Running DEF Inv, Runs
  <2>2. Len(tx[c].positions) \in 1..Len(tx[c].positions)
    BY <2>1, EmptySeq, LenProperties
  <2>3. QED
    BY <2>1, <2>2, ElementOfSeq DEF LastReturned
<1>5. PICK u : u = [tx[c] EXCEPT !.last = LastReturned(c)]
  OBVIOUS
<1>6. tx[c] \in Transaction
  BY <1>2, Running
<1>7. /\ u \in Transaction /\ tx'[c] = u /\ u.of = tx[c].of /\ u.created = tx[c].created
      /\ u.locked = tx[c].locked /\ u.positions = tx[c].positions
  BY <1>1, <1>4, <1>5, <1>6 DEF Transaction, Inv, Shape
<1>8. HasRow(u) /\ Cleared(u) /\ Granted(u) /\ Len(u.positions) = call[c].n
  BY <1>1, <1>2, <1>7, Running DEF HasRow, Cleared, Granted, Proceeds
<1>9. \A t \in Dealt : t # tx[c] => Alone(t, u)
  BY <1>2, <1>7, Running DEF Serial, Alone
<1>10. Proceeds(c)'
  <2>1. HasRow(u)' /\ Cleared(u)'
    BY <1>1, <1>8, GrantedStays
  <2>2. HasRow(tx[c])' /\ Cleared(tx[c])'
    BY <1>7, <2>1 DEF HasRow, Cleared, Atomic!Admits, Atomic!OfStream
  <2>3. QED
    BY <1>1, <1>3, <1>7, <1>8, <2>2 DEF Proceeds
<1>11. QED
  BY <1>1, <1>3, <1>7, <1>8, <1>9, <1>10, SerialWorks

LEMMA CommitSerial == ASSUME Inv, Serial, NEW c \in Clients, Commit(c) PROVE Serial'
<1>1. /\ pc[c] = "commit" /\ Applies(tx[c]) /\ tx' = [tx EXCEPT ![c] = NoTx]
      /\ pc' = [pc EXCEPT ![c] = "idle"] /\ UNCHANGED <<drawn, call, orphans>>
  BY DEF Commit, Return, Goto
<1>2. c \in Live /\ tx[c] \in Dealt /\ Sound(tx[c]) /\ Ready(tx[c]) /\ Cleared(tx[c])
  BY <1>1 DEF Inv, Runs, Live, Dealt, Serial, Proceeds
<1>3. /\ tx'[c] = NoTx /\ pc'[c] = "idle"
      /\ \A d \in Clients \ {c} : tx'[d] = tx[d] /\ pc'[d] = pc[d]
  BY <1>1 DEF Inv, Shape
<1>4. Live' = Live \ {c} /\ \A d \in Live' : tx'[d] = tx[d] /\ pc'[d] = pc[d]
  BY <1>3 DEF Live
<1>5. Dealt' \subseteq Dealt \ {tx[c]}
  BY <1>1, <1>2, <1>4, Distinct DEF Dealt, Serial
<1>6. Numbered'
  BY <1>1, <1>3, NumberedKept DEF Inv, Serial
<1>7. PICK t : t = tx[c]
  OBVIOUS
<1>8. t \in Dealt /\ Sound(t) /\ Ready(t) /\ Cleared(t) /\ Applies(t) /\ Dealt' \subseteq Dealt \ {t}
  BY <1>1, <1>2, <1>5, <1>7
<1>9. QED
  BY <1>1, <1>4, <1>6, <1>8, SerialApplies

LEMMA AbandonSerial == ASSUME Inv, Serial, NEW c \in Clients, Abandon(c) PROVE Serial'
<1>1. /\ pc[c] # "idle" /\ pc' = [pc EXCEPT ![c] = "idle"]
      /\ UNCHANGED <<rows, events, drawn, call>>
  BY DEF Abandon, Return, Goto
<1>2. CASE pc[c] = "begin" /\ UNCHANGED <<tx, orphans>>
  <2>1. c \notin Live
    BY <1>2 DEF Inv, Runs, Live
  <2>2. pc'[c] = "idle" /\ \A d \in Clients \ {c} : pc'[d] = pc[d]
    BY <1>1 DEF Inv, Shape
  <2>3. Numbered'
    BY <1>1, <1>2, <2>2, NumberedKept DEF Inv, Serial
  <2>4. \A d \in Live : pc'[d] = pc[d] /\ call'[d] = call[d]
    BY <1>1, <2>1, <2>2 DEF Live
  <2>5. QED
    BY <1>1, <1>2, <2>3, <2>4, SerialIdle
<1>3. ASSUME pc[c] # "begin", NEW left, Drop(c, tx[c], left), left = "commit" => pc[c] = "commit"
      PROVE  Serial'
  <2>1. c \in Live
    BY <1>1, <1>3 DEF Inv, Runs, Live
  <2>2. Alike(tx[c], tx[c])
    BY DEF Alike
  <2>3. QED
    BY <1>1, <1>3, <2>1, <2>2, SerialDrops
<1>4. CASE pc[c] # "begin" /\ Drop(c, tx[c], "rollback")
  BY <1>3, <1>4
<1>5. CASE pc[c] \in {"insert row", "select", "commit"} /\ Drop(c, tx[c], pc[c])
  BY <1>3, <1>5
<1>6. QED
  BY <1>2, <1>4, <1>5 DEF Abandon

\* The database executes a dropped transaction's statement: it may get the lock,
\* or insert the row nobody else has inserted.
LEMMA ExecuteSerial == ASSUME Inv, Serial, NEW o \in orphans, Execute(o) PROVE Serial'
<1>1. PICK t : /\ Executed(o, t) /\ o.left # "commit"
               /\ \/ KeyFree(Rivals(o)) /\ t = Inserted(o.t)
                  \/ t = Locked(o.t)
  BY DEF Execute
<1>2. UNCHANGED <<rows, events, drawn, pc, call, tx, ret>>
  BY DEF Execute
<1>3. o.t \in Transaction /\ o.t \in Dealt
  BY OrphanTransaction DEF Inv, Dealt
<1>4. /\ t.of = o.t.of /\ t.positions = o.t.positions
      /\ t.created => rows[t.of.s] = NoRow
      /\ t.created = o.t.created \/ KeyFree(Rivals(o))
  BY <1>1, <1>3, InsertedIs, LockedIs DEF Serial, Granted
<1>5. PICK left : left = [t |-> t, left |-> "rollback"]
  OBVIOUS
<1>6. left.t = t /\ left.left = "rollback" /\ orphans' = (orphans \ {o}) \cup {left}
  BY <1>1, <1>5 DEF Executed
<1>7. Live' = Live
  BY <1>2 DEF Live
<1>8. Numbered'
  <2>1. /\ left.t.of = o.t.of
        /\ \A c \in Clients : call[c].by = c /\ (pc[c] # "idle" => call[c].n > 0)
    BY <1>4, <1>6 DEF Serial, Numbered
  <2>2. \A p \in orphans' : /\ p.t.of.call <= call[p.t.of.by].call
                            /\ pc[p.t.of.by] # "idle" => p.t.of.call < call[p.t.of.by].call
    BY <1>6, <2>1 DEF Serial, Numbered
  <2>3. \A p, q \in orphans' : p.t.of = q.t.of => p = q
    BY <1>6, <2>1 DEF Serial, Numbered
  <2>4. QED
    BY <1>2, <2>1, <2>2, <2>3 DEF Numbered
<1>9. ASSUME NEW u \in Dealt', u # t PROVE u \in Dealt \ {o.t}
  <2>1. CASE \E c \in Live : u = tx[c]
    BY <2>1, Distinct DEF Dealt, Serial
  <2>2. CASE \E p \in orphans \ {o} : u = p.t
    BY <2>2, Distinct DEF Dealt, Serial
  <2>3. QED
    BY <1>2, <1>6, <1>7, <1>9, <2>1, <2>2 DEF Dealt
<1>10. \A u \in Dealt' : Granted(u)'
  <2>1. Granted(t)
    BY <1>3, <1>4 DEF Serial, Granted
  <2>2. QED
    BY <1>2, <1>9, <2>1, GrantedStays DEF Serial
<1>11. ASSUME NEW u \in Dealt', u # t PROVE Alone(t, u) /\ Alone(u, t)
  <2>1. u \in Dealt /\ u # o.t
    BY <1>9, <1>11
  <2>2. CASE t.created = o.t.created
    BY <1>3, <1>4, <2>1, <2>2 DEF Serial, Alone
  <2>3. CASE KeyFree(Rivals(o))
    <3>1. u.of.s = o.t.of.s => u \in Rivals(o)
      BY <2>1 DEF Dealt, Rivals, Working
    <3>2. QED
      BY <1>4, <2>3, <3>1 DEF KeyFree, Alone
  <2>4. QED
    BY <1>4, <2>2, <2>3
<1>12. \A u, v \in Dealt' : u # v => Alone(u, v)
  BY <1>9, <1>11 DEF Serial
<1>13. \A c \in Live' : Proceeds(c)'
  BY <1>2, <1>7, ProceedsStays DEF Serial
<1>14. \A p \in orphans' : p.left = "commit" => Cleared(p.t)' /\ Len(p.t.positions) = p.t.of.n
  BY <1>2, <1>6, GrantedStays DEF Serial
<1>15. QED
  BY <1>8, <1>10, <1>12, <1>13, <1>14 DEF Serial, Alone

LEMMA EndSerial == ASSUME Inv, Serial, NEW o \in orphans, End(o) PROVE Serial'
<1>1. orphans' = orphans \ {o} /\ UNCHANGED <<drawn, pc, call, tx>>
  BY DEF End
<1>2. Live' = Live /\ o.t \in Dealt
  BY <1>1 DEF Live, Dealt
<1>3. Numbered'
  BY <1>1, NumberedKept DEF Inv, Serial
<1>4. Dealt' \subseteq Dealt \ {o.t}
  BY <1>1, <1>2, Distinct DEF Dealt, Serial
<1>5. CASE o.left = "commit"
  <2>1. Sound(o.t) /\ Ready(o.t) /\ Cleared(o.t) /\ Applies(o.t)
    BY <1>5 DEF Inv, Ends, End, Serial
  <2>2. QED
    BY <1>1, <1>2, <1>3, <1>4, <2>1, SerialApplies
<1>6. CASE o.left # "commit"
  <2>1. UNCHANGED <<rows, events>>
    BY <1>6 DEF End
  <2>2. \A t \in Dealt' : Granted(t)'
    BY <1>4, <2>1, GrantedStays DEF Serial
  <2>3. \A c \in Live' : Proceeds(c)'
    BY <1>1, <1>2, <2>1, ProceedsStays DEF Serial
  <2>4. \A p \in orphans' : p.left = "commit" => Cleared(p.t)'
    BY <1>1, <2>1, GrantedStays DEF Serial
  <2>5. QED
    BY <1>1, <1>3, <1>4, <2>2, <2>3, <2>4 DEF Serial, Alone
<1>7. QED
  BY <1>5, <1>6

LEMMA AskSerial == ASSUME Inv, Serial, NEW c \in Clients, Ask(c) PROVE Serial'
<1>1. pc[c] = "idle" /\ UNCHANGED <<rows, events, drawn, tx, orphans>>
  BY DEF Ask
<1>2. c \notin Live
  BY <1>1 DEF Inv, Runs, Live
<1>3. \A d \in Clients \ {c} : pc'[d] = pc[d] /\ call'[d] = call[d]
  BY DEF Ask, Return, Goto, Inv, Shape
<1>4. \A d \in Live : pc'[d] = pc[d] /\ call'[d] = call[d]
  BY <1>2, <1>3 DEF Live
<1>5. Numbered'
  BY NumberedAsk DEF Serial
<1>6. QED
  BY <1>1, <1>4, <1>5, SerialIdle

LEMMA InitSerial == Init => Serial
<1> SUFFICES ASSUME Init PROVE Serial
  OBVIOUS
<1>1. \A c \in Clients : call[c].by = c /\ pc[c] = "idle" /\ tx[c] = NoTx
  BY DEF Init
<1>2. orphans = {} /\ Live = {}
  BY <1>1 DEF Init, Live
<1>3. Dealt = {}
  BY <1>2 DEF Dealt
<1>4. QED
  BY <1>1, <1>2, <1>3 DEF Serial, Numbered

LEMMA SerialInductive == Inv /\ Serial /\ [Next]_vars => Serial'
<1> SUFFICES ASSUME Inv, Serial, [Next]_vars PROVE Serial'
  OBVIOUS
<1>1. CASE UNCHANGED vars
  <2>1. UNCHANGED <<rows, events, tx, orphans, pc, call>>
    BY <1>1 DEF vars
  <2>2. Numbered'
    BY <2>1 DEF Serial, Numbered
  <2>3. QED
    BY <2>1, <2>2, SerialIdle
<1>2. ASSUME NEW c \in Clients, Ask(c) \/ Step(c) \/ Abandon(c) PROVE Serial'
  BY <1>2, AskSerial, BeginSerial, InsertRowSerial, SelectSerial, InsertEventSerial, UpdateSerial,
     CommitSerial, AbandonSerial DEF Step
<1>3. ASSUME NEW o \in orphans, Execute(o) \/ End(o) PROVE Serial'
  BY <1>3, ExecuteSerial, EndSerial
<1>4. QED
  BY <1>1, <1>2, <1>3 DEF Next

LEMMA SerialHolds == Spec => [](Inv /\ Serial)
<1>1. Init => Inv /\ Serial
  BY InitInv, InitSerial
<1>2. (Inv /\ Serial) /\ [Next]_vars => (Inv /\ Serial)'
  BY Inductive, SerialInductive
<1>3. QED
  BY <1>1, <1>2, PTL DEF Spec

-----------------------------------------------------------------------------
\* Types, and the pool.

Answers == {"ok", "conflict", "error"}

Pooled ==
    /\ ret \in [Clients -> Answers]
    /\ IsFiniteSet(Live) /\ IsFiniteSet(orphans)
    /\ Open <= PoolSize

\* A client's transaction goes to the database, or ends: no connection more is open.
LEMMA PooledLeaves ==
    ASSUME Inv, Pooled, NEW c \in Live, Live' = Live \ {c},
           NEW left, orphans' \subseteq orphans \cup {left}, ret' \in [Clients -> Answers]
    PROVE  Pooled'
<1>1. /\ IsFiniteSet(Live') /\ Cardinality(Live') = Cardinality(Live) - 1
      /\ Cardinality(Live) \in Nat /\ Cardinality(Live') \in Nat
  BY FS_RemoveElement, FS_CardinalityType DEF Pooled
<1>2. /\ IsFiniteSet(orphans \cup {left}) /\ Cardinality(orphans) \in Nat
      /\ Cardinality(orphans \cup {left}) \in Nat
      /\ Cardinality(orphans \cup {left}) <= Cardinality(orphans) + 1
  <2>1. IsFiniteSet(orphans) /\ Cardinality(orphans) \in Nat
    BY FS_CardinalityType DEF Pooled
  <2>2. /\ IsFiniteSet(orphans \cup {left})
        /\ \/ Cardinality(orphans \cup {left}) = Cardinality(orphans)
           \/ Cardinality(orphans \cup {left}) = Cardinality(orphans) + 1
    BY <2>1, FS_AddElement
  <2>3. QED
    BY <2>1, <2>2
<1>3. /\ IsFiniteSet(orphans') /\ Cardinality(orphans') \in Nat
      /\ Cardinality(orphans') <= Cardinality(orphans) + 1
  <2>1. IsFiniteSet(orphans') /\ Cardinality(orphans') <= Cardinality(orphans \cup {left})
    BY <1>2, FS_Subset
  <2>2. Cardinality(orphans') \in Nat
    BY <2>1, FS_CardinalityType
  <2>3. QED
    BY <1>2, <2>1, <2>2
<1>4. Cardinality(Live') + Cardinality(orphans') <= PoolSize
  BY <1>1, <1>2, <1>3, PostgresAssumption DEF Pooled, Open, PostgresAssumption
<1>5. QED
  BY <1>1, <1>3, <1>4 DEF Pooled, Open

LEMMA PooledStays ==
    ASSUME Pooled, Live' = Live, UNCHANGED orphans, ret' \in [Clients -> Answers]
    PROVE  Pooled'
BY DEF Pooled, Open

LEMMA PooledBegins == ASSUME Inv, Pooled, NEW c \in Clients, Begin(c) PROVE Pooled'
<1>1. pc[c] = "begin" /\ Open < PoolSize /\ UNCHANGED <<orphans, ret>>
  BY DEF Begin, ConnectionFree
<1>2. c \notin Live
  BY <1>1 DEF Inv, Runs, Live
<1>3. \A d \in Clients \ {c} : tx'[d] = tx[d]
  BY DEF Begin, Inv, Shape
<1>4. Live' \subseteq Live \cup {c}
  BY <1>3 DEF Live
<1>5. /\ IsFiniteSet(Live \cup {c}) /\ Cardinality(Live \cup {c}) = Cardinality(Live) + 1
      /\ Cardinality(Live) \in Nat /\ Cardinality(orphans) \in Nat
  BY <1>2, FS_AddElement, FS_CardinalityType DEF Pooled
<1>6. IsFiniteSet(Live') /\ Cardinality(Live') <= Cardinality(Live) + 1
  BY <1>4, <1>5, FS_Subset
<1>7. Cardinality(Live') \in Nat
  BY <1>6, FS_CardinalityType
<1>8. QED
  BY <1>1, <1>5, <1>6, <1>7, PostgresAssumption DEF Pooled, Open, PostgresAssumption

LEMMA PooledEnds == ASSUME Pooled, NEW o \in orphans, End(o) PROVE Pooled'
<1>1. orphans' = orphans \ {o} /\ UNCHANGED <<tx, ret>> /\ Live' = Live
  BY DEF End, Live
<1>2. /\ IsFiniteSet(orphans') /\ Cardinality(orphans') = Cardinality(orphans) - 1
      /\ Cardinality(orphans) \in Nat /\ Cardinality(Live) \in Nat
      /\ Cardinality(orphans') \in Nat
  BY <1>1, FS_RemoveElement, FS_CardinalityType DEF Pooled
<1>3. QED
  BY <1>1, <1>2, PostgresAssumption DEF Pooled, Open, PostgresAssumption

\* A dropped transaction gets on: it is still one.
LEMMA PooledExecutes == ASSUME Pooled, NEW o \in orphans, Execute(o) PROVE Pooled'
<1>1. PICK left : orphans' = (orphans \ {o}) \cup {left}
  BY DEF Execute, Executed
<1>2. UNCHANGED <<tx, ret>> /\ Live' = Live
  BY DEF Execute, Live
<1>3. /\ IsFiniteSet(orphans \ {o}) /\ Cardinality(orphans \ {o}) = Cardinality(orphans) - 1
      /\ Cardinality(orphans) \in Nat /\ Cardinality(Live) \in Nat
  BY FS_RemoveElement, FS_CardinalityType DEF Pooled
<1>4. /\ IsFiniteSet(orphans')
      /\ \/ Cardinality(orphans') = Cardinality(orphans) - 1
         \/ Cardinality(orphans') = Cardinality(orphans)
  <2>1. /\ IsFiniteSet(orphans')
        /\ \/ Cardinality(orphans') = Cardinality(orphans \ {o})
           \/ Cardinality(orphans') = Cardinality(orphans \ {o}) + 1
    BY <1>1, <1>3, FS_AddElement
  <2>2. QED
    BY <1>3, <2>1
<1>5. QED
  BY <1>2, <1>3, <1>4, PostgresAssumption DEF Pooled, Open, PostgresAssumption

LEMMA PooledDrops ==
    ASSUME Inv, Pooled, NEW c \in Live, NEW t, NEW what, Drop(c, t, what), NEW answer \in Answers,
           Return(c, answer)
    PROVE  Pooled'
<1>1. tx'[c] = NoTx /\ \A d \in Clients \ {c} : tx'[d] = tx[d]
  BY DEF Drop, Inv, Shape, Live
<1>2. Live' = Live \ {c}
  BY <1>1 DEF Live
<1>3. ret' \in [Clients -> Answers]
  BY DEF Return, Pooled
<1>4. QED
  BY <1>2, <1>3, PooledLeaves DEF Drop

LEMMA PooledInductive == Inv /\ Pooled /\ [Next]_vars => Pooled'
<1> SUFFICES ASSUME Inv, Pooled, [Next]_vars PROVE Pooled'
  OBVIOUS
<1>1. CASE UNCHANGED vars
  BY <1>1 DEF vars, Pooled, Open, Live
<1>2. ASSUME NEW c \in Clients PROVE Ask(c) => Pooled'
  <2> SUFFICES ASSUME Ask(c) PROVE Pooled'
    OBVIOUS
  <2>1. UNCHANGED <<tx, orphans>> /\ ret' \in [Clients -> Answers]
    BY DEF Ask, Return, Pooled, Answers
  <2>2. QED
    BY <2>1, PooledStays DEF Live
<1>3. ASSUME NEW c \in Clients, pc[c] # "begin", pc[c] # "idle" PROVE c \in Live
  BY <1>3 DEF Inv, Runs, Live
<1>4. ASSUME NEW c \in Clients, InsertRow(c) \/ InsertEvent(c) \/ Update(c) PROVE Pooled'
  <2>1. c \in Live /\ UNCHANGED <<orphans, ret>>
    BY <1>3, <1>4 DEF InsertRow, InsertEvent, Update
  <2>2. tx'[c] # NoTx /\ \A d \in Clients \ {c} : tx'[d] = tx[d]
    <3>1. Inv'
      BY <1>4, InsertRowInv, InsertEventInv, UpdateInv
    <3>2. pc'[c] \in {"select", "insert events", "update", "commit"}
      BY <1>4 DEF InsertRow, InsertEvent, Update, Goto, Inv, Shape
    <3>3. \A d \in Clients \ {c} : tx'[d] = tx[d]
      BY <1>4 DEF InsertRow, InsertEvent, Update, Inv, Shape
    <3>4. QED
      BY <3>1, <3>2, <3>3 DEF Inv, Runs
  <2>3. Live' = Live
    BY <2>1, <2>2 DEF Live
  <2>4. QED
    BY <2>1, <2>3, PooledStays DEF Pooled
<1>5. ASSUME NEW c \in Clients, SelectForUpdate(c) PROVE Pooled'
  <2>1. c \in Live
    BY <1>3, <1>5 DEF SelectForUpdate
  <2>2. CASE \E answer \in Answers : Return(c, answer) /\ Drop(c, Locked(tx[c]), "rollback")
    BY <2>1, <2>2, PooledDrops
  <2>3. CASE tx' = [tx EXCEPT ![c] = Locked(tx[c])] /\ Goto(c, "insert events") /\ UNCHANGED <<orphans, ret>>
    <3>1. Inv'
      BY <1>5, SelectInv
    <3>2. pc'[c] = "insert events" /\ \A d \in Clients \ {c} : tx'[d] = tx[d]
      BY <2>3 DEF Goto, Inv, Shape
    <3>3. tx'[c] # NoTx
      BY <3>1, <3>2 DEF Inv, Runs
    <3>4. Live' = Live
      BY <2>1, <3>2, <3>3 DEF Live
    <3>5. QED
      BY <2>3, <3>4, PooledStays DEF Pooled
  <2>4. QED
    BY <1>5, <2>2, <2>3 DEF SelectForUpdate, Answers
<1>6. ASSUME NEW c \in Clients, Commit(c) PROVE Pooled'
  <2>1. c \in Live /\ UNCHANGED orphans /\ tx' = [tx EXCEPT ![c] = NoTx] /\ Return(c, "ok")
    BY <1>3, <1>6 DEF Commit
  <2>2. tx'[c] = NoTx /\ \A d \in Clients \ {c} : tx'[d] = tx[d]
    BY <2>1 DEF Inv, Shape
  <2>3. Live' = Live \ {c}
    BY <2>2 DEF Live
  <2>4. ret' \in [Clients -> Answers]
    BY <2>1 DEF Return, Pooled, Answers
  <2>5. QED
    BY <2>1, <2>3, <2>4, PooledLeaves
<1>7. ASSUME NEW c \in Clients, Abandon(c) PROVE Pooled'
  <2>1. pc[c] # "idle" /\ Return(c, "error") /\ "error" \in Answers
    BY <1>7 DEF Abandon, Answers
  <2>2. CASE pc[c] = "begin" /\ UNCHANGED <<tx, orphans>>
    <3>1. ret' \in [Clients -> Answers]
      BY <2>1 DEF Return, Pooled
    <3>2. QED
      BY <2>2, <3>1, PooledStays DEF Live
  <2>3. CASE pc[c] # "begin" /\ \E what : Drop(c, tx[c], what)
    BY <1>3, <2>1, <2>3, PooledDrops
  <2>4. QED
    BY <1>7, <2>2, <2>3 DEF Abandon
<1>8. QED
  BY <1>1, <1>2, <1>4, <1>5, <1>6, <1>7, PooledBegins, PooledExecutes, PooledEnds
  DEF Next, Step

LEMMA InitPooled == Init => Pooled
<1> SUFFICES ASSUME Init PROVE Pooled
  OBVIOUS
<1>1. Live = {} /\ orphans = {} /\ ret \in [Clients -> Answers]
  BY DEF Init, Live, Answers
<1>2. QED
  BY <1>1, FS_EmptySet, PostgresAssumption DEF Pooled, Open, PostgresAssumption

\* Every variable has its type, and no more connections are used than the pool
\* has, dropped transactions included.
THEOREM StoreTypeCorrect == Spec => []TypeOK
<1>1. Inv /\ Pooled => TypeOK
  BY DEF Inv, Shape, Pooled, TypeOK, Labels, Answers, Event, Orphan
<1>2. Init => Inv /\ Pooled
  BY InitInv, InitPooled
<1>3. (Inv /\ Pooled) /\ [Next]_vars => (Inv /\ Pooled)'
  BY Inductive, PooledInductive
<1>4. QED
  BY <1>1, <1>2, <1>3, PTL DEF Spec

-----------------------------------------------------------------------------
\* The mapping to the atomic store.

LEMMA BatchSize ==
    ASSUME NEW t \in Transaction,
           \A i, j \in 1..Len(t.positions) : i < j => t.positions[i] < t.positions[j]
    PROVE  Cardinality({[pos |-> t.positions[i], s |-> t.of.s, by |-> t.of.by, call |-> t.of.call] :
                           i \in DOMAIN t.positions}) = Len(t.positions)
<1> DEFINE n == Len(t.positions)
           batch == {[pos |-> t.positions[i], s |-> t.of.s, by |-> t.of.by, call |-> t.of.call] :
                        i \in DOMAIN t.positions}
           f == [i \in 1..n |-> [pos |-> t.positions[i], s |-> t.of.s, by |-> t.of.by,
                                 call |-> t.of.call]]
<1>1. /\ n \in Nat /\ DOMAIN t.positions = 1..n
      /\ \A i \in 1..n : t.positions[i] \in Nat
  BY LenProperties, ElementOfSeq DEF Transaction
<1>2. f \in Surjection(1..n, batch)
  BY <1>1 DEF Surjection
<1>3. ASSUME NEW i \in 1..n, NEW j \in 1..n, f[i] = f[j] PROVE i = j
  <2>1. f[i].pos = t.positions[i] /\ f[j].pos = t.positions[j]
    OBVIOUS
  <2>2. t.positions[i] = t.positions[j] /\ t.positions[i] \in Nat /\ t.positions[j] \in Nat
    BY <1>1, <1>3, <2>1
  <2>3. ~(i < j) /\ ~(j < i)
    BY <2>2
  <2>4. QED
    BY <1>1, <2>3
<1>4. f \in Injection(1..n, batch)
  BY <1>2, <1>3 DEF Injection, Surjection, IsInjective
<1>5. ExistsBijection(1..n, batch)
  BY <1>2, <1>4 DEF ExistsBijection, Bijection
<1>6. QED
  BY <1>1, <1>5, FS_CountingElements

LEMMA InitAtomic == Init => Atomic!Init
BY DEF Init, Atomic!Init, Pending, Answer

\* A step that neither returns nor lands anything is none of the atomic store's.
LEMMA Stutters ==
    ASSUME UNCHANGED <<events, call, ret>>,
           {p \in orphans' : p.left = "commit"} = {p \in orphans : p.left = "commit"},
           \A c \in Clients : pc'[c] = "idle" <=> pc[c] = "idle"
    PROVE  UNCHANGED Atomic!vars
<1>1. {d \in Clients : pc'[d] # "idle"} = {d \in Clients : pc[d] # "idle"}
  OBVIOUS
<1>2. Pending' = Pending
  BY <1>1 DEF Pending
<1>3. Answer' = Answer
  BY DEF Answer
<1>4. QED
  BY <1>2, <1>3 DEF Atomic!vars

\* No transaction left behind is of the request of an open call.
LEMMA OpenCall ==
    ASSUME Inv, Numbered, NEW c \in Clients, pc[c] # "idle"
    PROVE  /\ call[c] \in Pending /\ call[c].by = c /\ Answer[c] = "waiting"
           /\ \A o \in orphans : o.t.of # call[c]
           /\ \A d \in Clients : call[d] = call[c] => d = c
<1>1. call[c].call \in Nat
  BY DEF Inv, Shape, Request
<1>2. ASSUME NEW o \in orphans, o.t.of = call[c] PROVE FALSE
  <2>1. call[c].call < call[c].call
    BY <1>2 DEF Numbered
  <2>2. QED
    BY <1>1, <2>1
<1>3. QED
  BY <1>2 DEF Pending, Answer, Numbered

\* The call of c returns an answer.
LEMMA Returns ==
    ASSUME Inv, Numbered, NEW c \in Clients, pc[c] # "idle", NEW answer, Return(c, answer),
           UNCHANGED call, ret \in [Clients -> Answers]
    PROVE  /\ Answer' = [Answer EXCEPT ![c] = answer]
           /\ {p \in orphans' : p.left = "commit"} = {p \in orphans : p.left = "commit"} =>
                Pending' = Pending \ {call[c]}
           /\ \A t, what : Drop(c, t, what) /\ what # "commit" => Pending' = Pending \ {call[c]}
           /\ tx[c].of = call[c] /\ Drop(c, tx[c], "commit") => Pending' = Pending
<1>1. /\ pc'[c] = "idle" /\ ret'[c] = answer
      /\ \A d \in Clients \ {c} : pc'[d] = pc[d] /\ ret'[d] = ret[d]
  BY DEF Return, Goto, Inv, Shape
<1>2. {d \in Clients : pc'[d] # "idle"} = {d \in Clients : pc[d] # "idle"} \ {c}
  BY <1>1
<1>3. {call[d] : d \in {d \in Clients : pc'[d] # "idle"}}
        = {call[d] : d \in {d \in Clients : pc[d] # "idle"}} \ {call[c]}
  BY <1>2, OpenCall
<1>4. ASSUME {p \in orphans' : p.left = "commit"} = {p \in orphans : p.left = "commit"}
      PROVE  Pending' = Pending \ {call[c]}
  <2>1. {o.t.of : o \in {p \in orphans' : p.left = "commit"}} = {o.t.of : o \in {p \in orphans : p.left = "commit"}}
    BY <1>4
  <2>2. call[c] \notin {o.t.of : o \in {p \in orphans : p.left = "commit"}}
    BY OpenCall
  <2>3. PICK opened, left : /\ opened = {call[d] : d \in {d \in Clients : pc[d] # "idle"}}
                            /\ left = {o.t.of : o \in {p \in orphans : p.left = "commit"}}
    OBVIOUS
  <2>4. Pending = opened \cup left /\ call[c] \notin left
    BY <2>2, <2>3 DEF Pending
  <2>5. Pending' = (opened \ {call[c]}) \cup left
    BY <1>3, <2>1, <2>3 DEF Pending
  <2>6. QED
    BY <2>4, <2>5
<1>5. ASSUME NEW t, NEW what, Drop(c, t, what), what # "commit"
      PROVE  {p \in orphans' : p.left = "commit"} = {p \in orphans : p.left = "commit"}
  BY <1>5 DEF Drop
<1>6. ASSUME tx[c].of = call[c], Drop(c, tx[c], "commit") PROVE Pending' = Pending
  <2>1. {o.t.of : o \in {p \in orphans' : p.left = "commit"}}
          = {o.t.of : o \in {p \in orphans : p.left = "commit"}} \cup {call[c]}
    <3>1. PICK dropped : dropped = [t |-> tx[c], left |-> "commit"]
      OBVIOUS
    <3>2. dropped.left = "commit" /\ dropped.t.of = call[c] /\ orphans' = orphans \cup {dropped}
      BY <1>6, <3>1 DEF Drop
    <3>3. {p \in orphans' : p.left = "commit"} = {p \in orphans : p.left = "commit"} \cup {dropped}
      BY <3>2
    <3>4. QED
      BY <3>2, <3>3
  <2>2. call[c] \in {call[d] : d \in {d \in Clients : pc[d] # "idle"}}
    OBVIOUS
  <2>3. QED
    BY <1>3, <2>1, <2>2 DEF Pending
<1>7. Answer' = [Answer EXCEPT ![c] = answer]
  BY <1>1 DEF Answer
<1>8. QED
  BY <1>4, <1>5, <1>6, <1>7

LEMMA SameCardinality == ASSUME NEW S PROVE Atomic!Cardinality(S) = Cardinality(S)
BY DEF Atomic!Cardinality, Cardinality

\* What COMMIT does is a batch landing.
LEMMA Lands ==
    ASSUME Inv, Serial, NEW t \in Dealt, Sound(t), Ready(t), Cleared(t), Applies(t),
           Len(t.positions) = t.of.n,
           t.of \in Pending, Pending' = Pending \ {t.of},
           \/ Answer[t.of.by] = "waiting" /\ Answer' = [Answer EXCEPT ![t.of.by] = "ok"]
           \/ UNCHANGED Answer
    PROVE  Atomic!Land(t.of)
<1>1. t \in Transaction /\ Granted(t)
  BY Distinct DEF Serial
<1>2. Atomic!Admits(t.of)
  BY DEF Cleared
<1>3. PICK batch : batch = {[pos |-> t.positions[i], s |-> t.of.s, by |-> t.of.by,
                             call |-> t.of.call] : i \in DOMAIN t.positions}
  OBVIOUS
<1>4. Cardinality(batch) = t.of.n
  BY <1>1, <1>3, BatchSize DEF Granted
<1>5. events' = events \cup batch
  BY <1>3 DEF Applies
<1>6. DOMAIN t.positions = 1..Len(t.positions) /\ \A i \in 1..Len(t.positions) : t.positions[i] \in Nat
  BY <1>1, ReadyLast
<1>7. ASSUME NEW e \in batch
      PROVE  /\ e.by = t.of.by /\ e.call = t.of.call /\ e.s = t.of.s
             /\ \A f \in Atomic!OfStream(t.of.s) : e.pos > f.pos
  <2>1. PICK i \in 1..Len(t.positions) :
          e = [pos |-> t.positions[i], s |-> t.of.s, by |-> t.of.by, call |-> t.of.call]
    BY <1>3, <1>6
  <2>2. ASSUME NEW f \in Atomic!OfStream(t.of.s) PROVE e.pos > f.pos
    <3>1. f \in events /\ f.s = t.of.s /\ f.pos \in Nat
      BY <2>2 DEF Atomic!OfStream, Inv, Shape
    <3>2. f.pos < t.positions[i] /\ t.positions[i] \in Nat
      BY <1>6, <2>1, <3>1 DEF Sound
    <3>3. QED
      BY <2>1, <3>1, <3>2
  <2>3. QED
    BY <2>1, <2>2
<1>8. batch \in SUBSET {e \in events' : e.by = t.of.by /\ e.call = t.of.call}
  BY <1>5, <1>7
<1>9. \E b \in SUBSET {e \in events' : e.by = t.of.by /\ e.call = t.of.call} :
        /\ events' = events \cup b
        /\ Atomic!Cardinality(b) = t.of.n
        /\ \A e \in b : e.s = t.of.s /\ \A f \in Atomic!OfStream(t.of.s) : e.pos > f.pos
  <2> WITNESS batch \in SUBSET {e \in events' : e.by = t.of.by /\ e.call = t.of.call}
  <2>1. QED
    BY <1>4, <1>5, <1>7, SameCardinality
<1>10. QED
  BY <1>2, <1>9 DEF Atomic!Land

LEMMA AskSteps ==
    ASSUME Inv, Serial, Inv', ret \in [Clients -> Answers], NEW c \in Clients, Ask(c)
    PROVE  Atomic!Ask(c) \/ Atomic!AskNothing(c)
<1>a. PICK s, n, v :
        /\ n \in 0..MaxBatch
        /\ call' = [call EXCEPT ![c] = [by |-> c, call |-> call[c].call + 1,
                                        s |-> s, n |-> n, expect |-> v]]
        /\ IF n = 0 THEN Return(c, "ok") ELSE Goto(c, "begin") /\ UNCHANGED ret
  BY DEF Ask
<1>b. PICK q : q = [by |-> c, call |-> call[c].call + 1, s |-> s, n |-> n, expect |-> v]
  OBVIOUS
<1>1. /\ call' = [call EXCEPT ![c] = q] /\ q.by = c /\ q.call = call[c].call + 1 /\ q.n \in 0..MaxBatch
      /\ IF q.n = 0 THEN Return(c, "ok") ELSE Goto(c, "begin") /\ UNCHANGED ret
  BY <1>a, <1>b
<1>2. pc[c] = "idle" /\ UNCHANGED <<rows, events, drawn, tx, orphans>>
  BY DEF Ask
<1>3. Answer[c] # "waiting"
  BY <1>2 DEF Answer, Answers
<1>4. \A d \in Clients \ {c} : call'[d] = call[d]
  BY <1>1 DEF Inv, Shape
<1>5. call'[c] = q /\ q \in Request /\ call[c].call \in Nat
  BY <1>1 DEF Inv, Shape, Request
<1>6. CASE q.n = 0
  <2>1. /\ pc'[c] = "idle" /\ ret'[c] = "ok"
        /\ \A d \in Clients \ {c} : pc'[d] = pc[d] /\ ret'[d] = ret[d]
    BY <1>1, <1>6 DEF Return, Goto, Inv, Shape
  <2>2. Answer' = [Answer EXCEPT ![c] = "ok"]
    BY <2>1 DEF Answer
  <2>3. /\ {d \in Clients : pc'[d] # "idle"} = {d \in Clients : pc[d] # "idle"}
        /\ \A d \in Clients : pc[d] # "idle" => call'[d] = call[d]
    BY <1>2, <1>4, <2>1
  <2>4. Pending' = Pending
    BY <1>2, <2>3 DEF Pending
  <2>5. QED
    BY <1>2, <1>3, <2>2, <2>4 DEF Atomic!AskNothing
<1>7. CASE q.n # 0
  <2>1. pc'[c] = "begin" /\ UNCHANGED ret /\ \A d \in Clients \ {c} : pc'[d] = pc[d]
    BY <1>1, <1>7 DEF Goto, Inv, Shape
  <2>2. Answer' = [Answer EXCEPT ![c] = "waiting"]
    BY <2>1 DEF Answer
  <2>3. {d \in Clients : pc'[d] # "idle"} = {d \in Clients : pc[d] # "idle"} \cup {c}
    BY <2>1
  <2>4. {call'[d] : d \in {d \in Clients : pc'[d] # "idle"}}
          = {call[d] : d \in {d \in Clients : pc[d] # "idle"}} \cup {q}
    BY <1>2, <1>4, <1>5, <2>3
  <2>5. Pending' = Pending \cup {q}
    BY <1>2, <2>4 DEF Pending
  <2>6. \A d \in Clients \ {c} : call[d] # q
    BY <1>1 DEF Serial, Numbered
  <2>7. ASSUME NEW o \in orphans PROVE o.t.of # q
    <3>1. o.t.of.by = c => o.t.of.call <= call[c].call
      BY DEF Serial, Numbered
    <3>2. QED
      BY <1>1, <1>5, <3>1
  <2>8. q \notin Pending
    BY <1>2, <2>6, <2>7 DEF Pending
  <2>9. q.n > 0
    BY <1>1, <1>7, PostgresAssumption DEF PostgresAssumption
  <2>10. QED
    BY <1>1, <1>2, <1>3, <1>5, <2>2, <2>5, <2>8, <2>9 DEF Atomic!Ask
<1>8. QED
  BY <1>6, <1>7

LEMMA SelectSteps ==
    ASSUME Inv, Serial, Pooled, NEW c \in Clients, SelectForUpdate(c)
    PROVE  [Atomic!Next]_Atomic!vars
<1>1. pc[c] = "select" /\ UNCHANGED <<rows, events, drawn, call>>
  BY DEF SelectForUpdate
<1>2. c \in Live /\ tx[c].of = call[c] /\ Numbered
  BY <1>1 DEF Inv, Runs, Live, Serial
<1>3. call[c] \in Pending /\ call[c].by = c /\ Answer[c] = "waiting"
  BY <1>1, <1>2, OpenCall
<1>4. CASE Conflicts(c) /\ Return(c, "conflict") /\ Drop(c, Locked(tx[c]), "rollback")
  <2>1. Pending' = Pending \ {call[c]} /\ Answer' = [Answer EXCEPT ![c] = "conflict"]
    BY <1>1, <1>2, <1>4, Returns DEF Pooled
  <2>2. ~Atomic!Admits(call[c])
    BY <1>1, <1>2, <1>4, Checks
  <2>3. Atomic!Refuse(call[c])
    BY <1>1, <1>3, <2>1, <2>2 DEF Atomic!Refuse
  <2>4. QED
    BY <1>3, <2>3 DEF Atomic!Next
<1>5. CASE NullFails(c) /\ Return(c, "error") /\ Drop(c, Locked(tx[c]), "rollback")
  <2>1. Pending' = Pending \ {call[c]} /\ Answer' = [Answer EXCEPT ![c] = "error"]
    BY <1>1, <1>2, <1>5, Returns DEF Pooled
  <2>2. Atomic!Fail(call[c])
    BY <1>1, <1>3, <2>1 DEF Atomic!Fail
  <2>3. QED
    BY <1>3, <2>2 DEF Atomic!Next
<1>6. CASE Goto(c, "insert events") /\ UNCHANGED <<orphans, ret>>
  <2>1. \A d \in Clients : pc'[d] = "idle" <=> pc[d] = "idle"
    BY <1>1, <1>6 DEF Goto, Inv, Shape
  <2>2. QED
    BY <1>1, <1>6, <2>1, Stutters
<1>7. QED
  BY <1>4, <1>5, <1>6 DEF SelectForUpdate

LEMMA CommitSteps ==
    ASSUME Inv, Serial, Pooled, NEW c \in Clients, Commit(c)
    PROVE  Atomic!Next
<1>1. /\ pc[c] = "commit" /\ Applies(tx[c]) /\ Return(c, "ok") /\ UNCHANGED <<drawn, call, orphans>>
  BY DEF Commit
<1>2. c \in Live /\ tx[c] \in Dealt /\ Sound(tx[c]) /\ Ready(tx[c]) /\ tx[c].of = call[c]
  BY <1>1 DEF Inv, Runs, Live, Dealt
<1>3. Len(tx[c].positions) = call[c].n /\ Cleared(tx[c])
  BY <1>1, <1>2, Running DEF Proceeds
<1>4. call[c] \in Pending /\ call[c].by = c /\ Answer[c] = "waiting"
  BY <1>1, OpenCall DEF Serial
<1>5. Pending' = Pending \ {call[c]} /\ Answer' = [Answer EXCEPT ![c] = "ok"]
  BY <1>1, Returns DEF Serial, Pooled
<1>6. PICK t : t = tx[c]
  OBVIOUS
<1>7. t \in Dealt /\ Sound(t) /\ Ready(t) /\ Cleared(t) /\ Applies(t)
      /\ Len(t.positions) = t.of.n /\ t.of = call[c]
  BY <1>1, <1>2, <1>3, <1>6
<1>8. Atomic!Land(t.of)
  BY <1>4, <1>5, <1>7, Lands
<1>9. QED
  BY <1>4, <1>7, <1>8 DEF Atomic!Next

LEMMA AbandonSteps ==
    ASSUME Inv, Serial, Pooled, NEW c \in Clients, Abandon(c)
    PROVE  Atomic!Next
<1>1. pc[c] # "idle" /\ Return(c, "error") /\ UNCHANGED <<rows, events, drawn, call>>
  BY DEF Abandon
<1>2. call[c] \in Pending /\ call[c].by = c /\ Answer[c] = "waiting"
  BY <1>1, OpenCall DEF Serial
<1>3. pc[c] # "begin" => c \in Live /\ tx[c].of = call[c]
  BY <1>1 DEF Inv, Runs, Live
<1>4. /\ Answer' = [Answer EXCEPT ![c] = "error"]
      /\ Pending' \in {Pending, Pending \ {call[c]}}
  <2>1. CASE UNCHANGED orphans
    BY <1>1, <2>1, Returns DEF Serial, Pooled
  <2>2. CASE pc[c] # "begin" /\ \E what : Drop(c, tx[c], what)
    <3>1. PICK what : Drop(c, tx[c], what)
      BY <2>2
    <3>2. CASE what # "commit"
      BY <1>1, <3>1, <3>2, Returns DEF Serial, Pooled
    <3>3. CASE what = "commit"
      BY <1>1, <1>3, <2>2, <3>1, <3>3, Returns DEF Serial, Pooled
    <3>4. QED
      BY <3>2, <3>3
  <2>3. QED
    BY <2>1, <2>2 DEF Abandon
<1>5. Atomic!Fail(call[c])
  BY <1>1, <1>2, <1>4 DEF Atomic!Fail
<1>6. QED
  BY <1>2, <1>5 DEF Atomic!Next

LEMMA EndSteps ==
    ASSUME Inv, Serial, NEW o \in orphans, End(o)
    PROVE  [Atomic!Next]_Atomic!vars
<1>1. orphans' = orphans \ {o} /\ UNCHANGED <<drawn, pc, call, tx, ret>>
  BY DEF End
<1>2. CASE o.left # "commit"
  <2>1. {p \in orphans' : p.left = "commit"} = {p \in orphans : p.left = "commit"}
    BY <1>1, <1>2
  <2>2. UNCHANGED events
    BY <1>2 DEF End
  <2>3. QED
    BY <1>1, <2>1, <2>2, Stutters
<1>3. CASE o.left = "commit"
  <2>1. /\ o.t \in Dealt /\ Sound(o.t) /\ Ready(o.t) /\ Cleared(o.t) /\ Applies(o.t)
        /\ Len(o.t.positions) = o.t.of.n
    BY <1>3 DEF Inv, Ends, End, Dealt, Serial
  <2>2. o.t.of \in Pending
    BY <1>3 DEF Pending
  <2>3. o.t.of \notin {call[d] : d \in {d \in Clients : pc[d] # "idle"}}
    BY OpenCall DEF Serial
  <2>4. {p.t.of : p \in {p \in orphans' : p.left = "commit"}}
          = {p.t.of : p \in {p \in orphans : p.left = "commit"}} \ {o.t.of}
    BY <1>1, <1>3 DEF Serial, Numbered
  <2>5. Pending' = Pending \ {o.t.of}
    BY <1>1, <2>3, <2>4 DEF Pending
  <2>6. UNCHANGED Answer
    BY <1>1 DEF Answer
  <2>7. Atomic!Land(o.t.of)
    BY <2>1, <2>2, <2>5, <2>6, Lands
  <2>8. QED
    BY <2>2, <2>7 DEF Atomic!Next
<1>4. QED
  BY <1>2, <1>3

LEMMA ExecuteSteps ==
    ASSUME NEW o \in orphans, Execute(o)
    PROVE  UNCHANGED Atomic!vars
<1>1. PICK left : /\ left.left = "rollback" /\ o.left # "commit"
                  /\ orphans' = (orphans \ {o}) \cup {left}
  <2>1. PICK t : Executed(o, t) /\ o.left # "commit"
    BY DEF Execute
  <2>2. [t |-> t, left |-> "rollback"].left = "rollback"
    OBVIOUS
  <2>3. QED
    BY <2>1, <2>2 DEF Executed
<1>2. {p \in orphans' : p.left = "commit"} = {p \in orphans : p.left = "commit"}
  BY <1>1
<1>3. QED
  BY <1>2, Stutters DEF Execute

LEMMA StepsAtomic ==
    Inv /\ Serial /\ Pooled /\ Inv' /\ [Next]_vars => [Atomic!Next]_Atomic!vars
<1> SUFFICES ASSUME Inv, Serial, Pooled, Inv', [Next]_vars PROVE [Atomic!Next]_Atomic!vars
  OBVIOUS
<1>1. CASE UNCHANGED vars
  BY <1>1, Stutters DEF vars
<1>2. ASSUME NEW c \in Clients, Ask(c) PROVE Atomic!Next
  BY <1>2, AskSteps DEF Atomic!Next, Pooled
<1>3. ASSUME NEW c \in Clients, Begin(c) \/ InsertRow(c) \/ InsertEvent(c) \/ Update(c)
      PROVE  UNCHANGED Atomic!vars
  <2>1. UNCHANGED <<events, call, ret, orphans>>
    BY <1>3 DEF Begin, InsertRow, InsertEvent, Update
  <2>2. \A d \in Clients : pc'[d] = "idle" <=> pc[d] = "idle"
    BY <1>3 DEF Begin, InsertRow, InsertEvent, Update, Goto, Inv, Shape
  <2>3. QED
    BY <2>1, <2>2, Stutters
<1>4. ASSUME NEW o \in orphans, Execute(o) \/ End(o) PROVE [Atomic!Next]_Atomic!vars
  BY <1>4, ExecuteSteps, EndSteps
<1>5. QED
  BY <1>1, <1>2, <1>3, <1>4, SelectSteps, CommitSteps, AbandonSteps DEF Next, Step

\* The statements of both appends, on any number of clients, streams and
\* connections, amount to appends that take effect, whole, at one moment at which
\* the stream has the version expected, or are refused at one at which it has not.
THEOREM StoreAtomic == Spec => ImplementsAtomicStore
<1>1. (Inv /\ Serial /\ Pooled) /\ [Next]_vars => (Inv /\ Serial /\ Pooled)'
  BY Inductive, SerialInductive, PooledInductive
<1>2. Init => Inv /\ Serial /\ Pooled
  BY InitInv, InitSerial, InitPooled
<1>3. QED
  BY <1>1, <1>2, InitAtomic, StepsAtomic, PTL DEF Spec, ImplementsAtomicStore, Atomic!Spec
=============================================================================
