--------------------------- MODULE SnapshotProofs ---------------------------
(***************************************************************************)
(* What an operation's aggregate holds lies in the stream up to a position *)
(* that queries return already, and so do the data of a snapshot: whoever  *)
(* appends meanwhile, no load applies an event twice.  Where each          *)
(* repository has a snapshot store of its own, snapshots advance.          *)
(***************************************************************************)
EXTENDS VersionProofs

\* The events of D are among the first p of stream s, which queries return.
Stored(s, D, p) ==
    /\ p <= visible[s]
    /\ \A e \in D : \E i \in 1..p : log[s][i] = e

WithBatch(r) == work[r].agg \cup EventsOf(work[r].batch)

Behind(r) ==
    /\ pc[r] = "load snapshot" => work[r].agg = {} /\ work[r].version = 0
    /\ pc[r] = "load events" => Stored(call[r].s, work[r].agg, work[r].version)
    /\ pc[r] \in Decided => Stored(call[r].s, work[r].agg, work[r].asOf)
    /\ pc[r] = "stream version" => Stored(call[r].s, WithBatch(r), VisibleTo(r))
    /\ pc[r] = "offer" => Stored(call[r].s, WithBatch(r), work[r].pos)

SnapshotsStored ==
    \A x \in SnapshotStores, s \in Streams : snaps[x][s] # NoSnapshot =>
        Stored(s, snaps[x][s].data, snaps[x][s].pos)

StoredInv == SnapshotsStored /\ \A r \in Repos : Behind(r)

-----------------------------------------------------------------------------
\* Lemmas that the actions share.

\* What is stored up to a position stays so, and up to every later one.
LEMMA StoredStays ==
    ASSUME TypeOK, TypeOK', Grows, NEW s \in Streams, NEW D, NEW p \in Nat, Stored(s, D, p),
           NEW q \in Nat, p <= q, q <= visible'[s]
    PROVE  \A e \in D : \E i \in 1..q : log'[s][i] = e
<1>1. /\ visible[s] \in Nat /\ visible[s] <= Len(log[s]) /\ Len(log[s]) \in Nat
  BY StreamTypes
<1>2. TAKE e \in D
<1>3. PICK i \in 1..p : log[s][i] = e
  BY DEF Stored
<1>4. i \in 1..Len(log[s]) /\ i \in 1..q
  BY <1>1, <1>3 DEF Stored
<1>5. log'[s][i] = e
  BY <1>3, <1>4 DEF Grows
<1>6. QED
  BY <1>4, <1>5

LEMMA VisibleGrows ==
    ASSUME TypeOK, TypeOK', Grows, NEW s \in Streams, NEW D, NEW p, Stored(s, D, p), p \in Nat
    PROVE  p <= visible'[s] /\ visible'[s] \in Nat
<1>1. visible[s] \in Nat /\ visible'[s] \in Nat
  BY DEF TypeOK
<1>2. QED
  BY <1>1 DEF Grows, Stored

LEMMA SnapshotsStoredStays ==
    ASSUME TypeOK, TypeOK', SnapshotsStored, Grows, UNCHANGED snaps
    PROVE  SnapshotsStored'
<1> SUFFICES ASSUME NEW x \in SnapshotStores, NEW s \in Streams, snaps'[x][s] # NoSnapshot
             PROVE  /\ snaps'[x][s].pos <= visible'[s]
                    /\ \A e \in snaps'[x][s].data :
                         \E i \in 1..snaps'[x][s].pos : log'[s][i] = e
  BY DEF SnapshotsStored, Stored, NoSnapshot, NoPosition
<1>1. snaps'[x][s] = snaps[x][s] /\ snaps[x][s].pos \in Nat
  BY StreamTypes
<1>2. Stored(s, snaps[x][s].data, snaps[x][s].pos)
  BY <1>1 DEF SnapshotsStored
<1>3. snaps[x][s].pos <= visible'[s]
  BY <1>1, <1>2, VisibleGrows
<1>4. \A e \in snaps[x][s].data : \E i \in 1..snaps[x][s].pos : log'[s][i] = e
  BY <1>1, <1>2, <1>3, StoredStays
<1>5. QED
  BY <1>1, <1>3, <1>4

LEMMA BehindStays ==
    ASSUME TypeOK, TypeOK', NEW q \in Repos, Behind(q), Grows,
           pc'[q] = pc[q], work'[q] = work[q], call'[q] = call[q]
    PROVE  Behind(q)'
<1> DEFINE s == call[q].s
<1>1. /\ s \in Streams /\ work[q].version \in Nat /\ work[q].asOf \in Nat
      /\ work[q].pos \in Nat /\ visible[s] \in Nat
  BY StreamTypes
<1>2. WithBatch(q)' = WithBatch(q) /\ VisibleTo(q)' = visible'[s] /\ VisibleTo(q) = visible[s]
  BY DEF WithBatch, VisibleTo
<1> HIDE DEF s
<1>3. ASSUME NEW D, NEW p \in Nat, Stored(s, D, p)
      PROVE  /\ p <= visible'[s]
             /\ \A e \in D : \E i \in 1..p : log'[s][i] = e
             /\ \A e \in D : \E i \in 1..visible'[s] : log'[s][i] = e
  <2>1. p <= visible'[s] /\ visible'[s] \in Nat
    BY <1>1, <1>3, VisibleGrows
  <2>2. QED
    BY <1>1, <1>3, <2>1, StoredStays
<1>4. pc[q] = "load snapshot" => work[q].agg = {} /\ work[q].version = 0
  BY DEF Behind
<1>5. pc[q] = "load events" =>
        /\ work[q].version <= visible'[s]
        /\ \A e \in work[q].agg : \E i \in 1..work[q].version : log'[s][i] = e
  BY <1>1, <1>3 DEF Behind, s
<1>6. pc[q] \in Decided =>
        /\ work[q].asOf <= visible'[s]
        /\ \A e \in work[q].agg : \E i \in 1..work[q].asOf : log'[s][i] = e
  BY <1>1, <1>3 DEF Behind, s
<1>7. pc[q] = "stream version" =>
        \A e \in WithBatch(q) : \E i \in 1..visible'[s] : log'[s][i] = e
  BY <1>1, <1>2, <1>3 DEF Behind, s
<1>8. pc[q] = "offer" =>
        /\ work[q].pos <= visible'[s]
        /\ \A e \in WithBatch(q) : \E i \in 1..work[q].pos : log'[s][i] = e
  BY <1>1, <1>3 DEF Behind, s
<1>9. visible'[s] <= visible'[s] /\ call'[q].s = s
  BY <1>1 DEF TypeOK, s
<1>10. /\ pc'[q] = "load snapshot" => work'[q].agg = {} /\ work'[q].version = 0
       /\ pc'[q] = "load events" => Stored(call[q].s, work[q].agg, work[q].version)'
       /\ pc'[q] \in Decided => Stored(call[q].s, work[q].agg, work[q].asOf)'
  BY <1>4, <1>5, <1>6, <1>9 DEF Stored
<1>11. /\ pc'[q] = "stream version" => Stored(call[q].s, WithBatch(q), VisibleTo(q))'
       /\ pc'[q] = "offer" => Stored(call[q].s, WithBatch(q), work[q].pos)'
  BY <1>2, <1>7, <1>8, <1>9 DEF Stored
<1>12. QED
  BY <1>10, <1>11 DEF Behind, Decided

\* A step of r alone: the others' operations keep what they know.
LEMMA StoredStep ==
    ASSUME TypeOK, TypeOK', StoredInv, NEW r \in Repos, Grows,
           \A q \in Repos \ {r} : pc'[q] = pc[q] /\ work'[q] = work[q] /\ call'[q] = call[q],
           Behind(r)', UNCHANGED snaps \/ SnapshotsStored'
    PROVE  StoredInv'
<1>1. ASSUME NEW q \in Repos PROVE Behind(q)'
  <2>1. CASE q = r
    BY <2>1
  <2>2. CASE q # r
    BY <2>2, BehindStays DEF StoredInv
  <2>3. QED
    BY <2>1, <2>2
<1>2. SnapshotsStored'
  BY SnapshotsStoredStays DEF StoredInv
<1>3. QED
  BY <1>1, <1>2 DEF StoredInv

LEMMA ReturnStored ==
    ASSUME TypeOK, TypeOK', StoredInv, NEW r \in Repos, NEW kind, Return(r, kind), Grows,
           UNCHANGED call, UNCHANGED snaps \/ SnapshotsStored'
    PROVE  StoredInv'
<1>1. /\ pc'[r] = "idle"
      /\ \A q \in Repos \ {r} : pc'[q] = pc[q] /\ work'[q] = work[q]
  BY DEF Return, Goto, TypeOK
<1>2. Behind(r)'
  BY <1>1 DEF Behind, Decided
<1>3. QED
  BY <1>1, <1>2, StoredStep

\* Starting, or starting again: the aggregate is empty.
LEMMA FreshStored ==
    ASSUME TypeOK, TypeOK', NEW r \in Repos, Goto(r, FirstAwait(r)),
           work' = [work EXCEPT ![r] = NoWork]
    PROVE  /\ Behind(r)'
           /\ \A q \in Repos \ {r} : pc'[q] = pc[q] /\ work'[q] = work[q]
<1>1. /\ pc'[r] \in {"load snapshot", "load events"}
      /\ work'[r].version = 0 /\ work'[r].agg = {}
      /\ \A q \in Repos \ {r} : pc'[q] = pc[q] /\ work'[q] = work[q]
  BY DEF Goto, FirstAwait, TypeOK, NoWork, NoPosition
<1>2. 0 <= visible'[call'[r].s]
  BY DEF TypeOK, Operation
<1>3. QED
  BY <1>1, <1>2 DEF Behind, Stored, Decided

-----------------------------------------------------------------------------
\* The actions.

LEMMA BeginStored ==
    ASSUME TypeOK, TypeOK', StoredInv, NEW r \in Repos, Begin(r)
    PROVE  StoredInv'
<1>1. /\ Goto(r, FirstAwait(r))
      /\ work' = [work EXCEPT ![r] = NoWork]
      /\ UNCHANGED <<log, visible, snaps>>
      /\ \A q \in Repos \ {r} : call'[q] = call[q]
  BY DEF Begin, TypeOK
<1>2. QED
  BY <1>1, FreshStored, GrowsUnchanged, StoredStep

LEMMA LoadSnapshotStored ==
    ASSUME TypeOK, TypeOK', StoredInv, NEW r \in Repos, LoadSnapshot(r)
    PROVE  StoredInv'
<1>1. UNCHANGED <<log, visible, snaps, call>> /\ Grows /\ pc[r] = "load snapshot"
  BY GrowsUnchanged DEF LoadSnapshot
<1>2. call[r].s \in Streams /\ 0 <= visible[call[r].s]
  BY StreamTypes DEF TypeOK
<1>3. ASSUME pc'[r] = "load events", \A q \in Repos \ {r} : pc'[q] = pc[q] /\ work'[q] = work[q],
             Stored(call[r].s, work'[r].agg, work'[r].version)
      PROVE  StoredInv'
  <2>1. Behind(r)'
    BY <1>1, <1>3 DEF Behind, Decided, Stored
  <2>2. QED
    BY <1>1, <1>3, <2>1, StoredStep
<1>4. CASE RestoreSnapshot(r)
  <2>1. /\ pc'[r] = "load events"
        /\ \A q \in Repos \ {r} : pc'[q] = pc[q] /\ work'[q] = work[q]
    BY <1>4 DEF RestoreSnapshot, Goto, TypeOK
  <2>2. CASE SnapshotOf(r) = NoSnapshot
    <3>1. work'[r].agg = {} /\ work'[r].version = 0
      BY <1>4, <2>2 DEF RestoreSnapshot, TypeOK, NoWork, NoPosition
    <3>2. Stored(call[r].s, work'[r].agg, work'[r].version)
      BY <1>2, <3>1 DEF Stored
    <3>3. QED
      BY <1>3, <2>1, <3>2
  <2>3. CASE SnapshotOf(r) # NoSnapshot
    <3>1. work'[r].agg = SnapshotOf(r).data /\ work'[r].version = SnapshotOf(r).pos
      BY <1>4, <2>3 DEF RestoreSnapshot, TypeOK, NoWork
    <3>2. StoreOf[r] \in SnapshotStores
      BY ConfigAssumption DEF ConfigAssumption
    <3>3. Stored(call[r].s, SnapshotOf(r).data, SnapshotOf(r).pos)
      BY <1>2, <2>3, <3>2 DEF StoredInv, SnapshotsStored, SnapshotOf
    <3>4. QED
      BY <1>3, <2>1, <3>1, <3>3
  <2>4. QED
    BY <2>2, <2>3
<1>5. CASE FallBackToReplay(r)
  <2>1. /\ pc'[r] = "load events" /\ work' = work
        /\ \A q \in Repos \ {r} : pc'[q] = pc[q]
    BY <1>5 DEF FallBackToReplay, Goto, TypeOK
  <2>2. work[r].version = 0 /\ work[r].agg = {}
    BY <1>1 DEF StoredInv, Behind
  <2>3. Stored(call[r].s, work'[r].agg, work'[r].version)
    BY <1>2, <2>1, <2>2 DEF Stored
  <2>4. QED
    BY <1>3, <2>1, <2>3
<1>6. CASE Return(r, "projection")
  BY <1>1, <1>6, ReturnStored
<1>7. QED
  BY <1>4, <1>5, <1>6 DEF LoadSnapshot, Fails

\* Reading on from a position up to which everything is stored.
LEMMA StoredReplay ==
    ASSUME TypeOK, NEW s \in Streams, NEW D, NEW from \in Nat, Stored(s, D, from),
           NEW K
    PROVE  Stored(s, D \cup Replay(log[s], K, from, visible[s]), visible[s])
<1>1. visible[s] \in Nat /\ from <= visible[s]
  BY DEF TypeOK, Stored
<1>2. ASSUME NEW e \in D \cup Replay(log[s], K, from, visible[s])
      PROVE  \E i \in 1..visible[s] : log[s][i] = e
  <2>1. CASE e \in D
    <3>1. PICK i \in 1..from : log[s][i] = e
      BY <2>1 DEF Stored
    <3>2. i \in 1..visible[s]
      BY <1>1, <3>1
    <3>3. QED
      BY <3>1, <3>2
  <2>2. CASE e \in Replay(log[s], K, from, visible[s])
    <3>1. PICK i \in (from + 1)..visible[s] : log[s][i] = e
      BY <2>2 DEF Replay, Matching
    <3>2. i \in 1..visible[s]
      BY <1>1, <3>1
    <3>3. QED
      BY <3>1, <3>2
  <2>3. QED
    BY <1>2, <2>1, <2>2
<1>3. QED
  BY <1>1, <1>2 DEF Stored

LEMMA LoadEventsStored ==
    ASSUME TypeOK, TypeOK', StoredInv, NEW r \in Repos, LoadEvents(r)
    PROVE  StoredInv'
<1>1. UNCHANGED <<log, visible, snaps, call>> /\ Grows /\ pc[r] = "load events"
  BY GrowsUnchanged DEF LoadEvents
<1>2. CASE EventsLoaded(r)
  <2>1. /\ work'[r].agg = work[r].agg \cup
             Replay(StreamOf(r), EventKinds[r], work[r].version, VisibleTo(r))
        /\ work'[r].asOf = VisibleTo(r)
        /\ \A q \in Repos \ {r} : work'[q] = work[q]
    BY <1>2 DEF EventsLoaded, ApplyEvents, TypeOK
  <2>2. /\ pc'[r] \in {"idle", "handle"}
        /\ \A q \in Repos \ {r} : pc'[q] = pc[q]
    BY <1>2 DEF EventsLoaded, Goto, TypeOK
  <2>3. Stored(call[r].s, work'[r].agg, work'[r].asOf)
    <3>1. /\ call[r].s \in Streams /\ work[r].version \in Nat
          /\ Stored(call[r].s, work[r].agg, work[r].version)
      BY <1>1, StreamTypes DEF StoredInv, Behind
    <3>2. Stored(call[r].s,
                 work[r].agg \cup Replay(log[call[r].s], EventKinds[r], work[r].version,
                                         visible[call[r].s]),
                 visible[call[r].s])
      BY <3>1, StoredReplay
    <3>3. QED
      BY <2>1, <3>2 DEF StreamOf, VisibleTo
  <2>4. Behind(r)'
    BY <1>1, <2>2, <2>3 DEF Behind, Decided, Stored
  <2>5. QED
    BY <1>1, <2>1, <2>2, <2>4, StoredStep
<1>3. CASE Return(r, "projection")
  BY <1>1, <1>3, ReturnStored
<1>4. QED
  BY <1>2, <1>3 DEF LoadEvents, Fails

LEMMA HandleStored ==
    ASSUME TypeOK, TypeOK', StoredInv, NEW r \in Repos, Handle(r)
    PROVE  StoredInv'
<1>1. UNCHANGED <<log, visible, snaps, call>> /\ Grows /\ pc[r] = "handle"
  BY GrowsUnchanged DEF Handle
<1>2. ASSUME NEW kinds,
             work' = [work EXCEPT ![r].batch = Stamp(r, calls[r], kinds)],
             Goto(r, "commit")
      PROVE  StoredInv'
  <2>1. /\ work'[r].agg = work[r].agg /\ work'[r].asOf = work[r].asOf
        /\ \A q \in Repos \ {r} : work'[q] = work[q]
    BY <1>2 DEF TypeOK, Locals
  <2>2. pc'[r] = "commit" /\ \A q \in Repos \ {r} : pc'[q] = pc[q]
    BY <1>2 DEF Goto, TypeOK
  <2>3. Stored(call[r].s, work[r].agg, work[r].asOf)
    BY <1>1 DEF StoredInv, Behind, Decided
  <2>4. Behind(r)'
    BY <1>1, <2>1, <2>2, <2>3 DEF Behind, Decided, Stored
  <2>5. QED
    BY <1>1, <2>1, <2>2, <2>4, StoredStep
<1>3. CASE Return(r, "codec") \/ Return(r, "ok") \/ Return(r, "aggregate")
  BY <1>1, <1>3, ReturnStored
<1>4. QED
  BY <1>2, <1>3 DEF Handle, Emit, Fails

\* What is appended is stored at once where the commit is answered.
LEMMA StoredAppend ==
    ASSUME TypeOK, TypeOK', NEW s \in Streams, NEW batch \in Seq(Event), AppendTo(s, batch),
           NEW D, NEW p \in Nat, Stored(s, D, p)
    PROVE  \A e \in D \cup EventsOf(batch) : \E i \in 1..visible'[s] : log'[s][i] = e
<1>1. Grows /\ Extend(s, batch) /\ Len(log'[s]) = Len(log[s]) + Len(batch)
  BY GrowsAppend
<1>2. /\ visible'[s] = Len(log[s]) + Len(batch)
      /\ Len(log[s]) \in Nat /\ Len(batch) \in Nat
  BY StreamTypes, LenProperties DEF AppendTo, TypeOK
<1>3. ASSUME NEW e \in D PROVE \E i \in 1..visible'[s] : log'[s][i] = e
  BY <1>1, VisibleGrows, StoredStays
<1>4. ASSUME NEW e \in EventsOf(batch) PROVE \E i \in 1..visible'[s] : log'[s][i] = e
  <2>1. PICK j \in 1..Len(batch) : batch[j] = e
    BY LenProperties DEF EventsOf
  <2>2. Len(log[s]) + j \in 1..visible'[s] /\ Len(log[s]) + j > Len(log[s])
    BY <1>2, <2>1
  <2>3. log'[s][Len(log[s]) + j] = batch[(Len(log[s]) + j) - Len(log[s])]
    <3>1. \A i \in 1..Len(log'[s]) : i > Len(log[s]) => log'[s][i] = batch[i - Len(log[s])]
      BY <1>1, AppendedStream
    <3>2. Len(log'[s]) = visible'[s]
      BY <1>1, <1>2
    <3>3. QED
      BY <2>2, <3>1, <3>2
  <2>4. (Len(log[s]) + j) - Len(log[s]) = j
    BY <1>2, <2>1
  <2>5. QED
    BY <2>1, <2>2, <2>3, <2>4
<1>5. QED
  BY <1>3, <1>4

LEMMA CommitStored ==
    ASSUME TypeOK, TypeOK', StoredInv, NEW r \in Repos, Commit(r)
    PROVE  StoredInv'
<1>1. UNCHANGED snaps /\ pc[r] = "commit"
  BY DEF Commit
<1>2. CASE Appended(r)
  <2>1. /\ \/ AppendTo(call[r].s, work[r].batch)
           \/ AppendLater(call[r].s, work[r].batch)
        /\ UNCHANGED call
        /\ work[r].batch \in Seq(Event) /\ call[r].s \in Streams
    BY <1>2, StreamTypes DEF Appended
  <2>2. Grows
    BY <2>1, GrowsAppend
  <2>3. CASE AppendTo(call[r].s, work[r].batch) /\ Goto(r, "stream version") /\ UNCHANGED work
    <3>1. pc'[r] = "stream version" /\ \A q \in Repos \ {r} : pc'[q] = pc[q]
      BY <2>3 DEF Goto, TypeOK
    <3>2. Stored(call[r].s, work[r].agg, work[r].asOf) /\ work[r].asOf \in Nat
      BY <1>1, StreamTypes DEF StoredInv, Behind, Decided
    <3> DEFINE s == call[r].s
               D == work[r].agg
               batch == work[r].batch
               p == work[r].asOf
    <3> HIDE DEF s, D, batch, p
    <3>3. /\ s \in Streams /\ batch \in Seq(Event) /\ p \in Nat
          /\ AppendTo(s, batch) /\ Stored(s, D, p)
      BY <2>1, <2>3, <3>2 DEF s, D, batch, p
    <3>4. \A e \in D \cup EventsOf(batch) : \E i \in 1..visible'[s] : log'[s][i] = e
      BY <3>3, StoredAppend
    <3>5. visible'[s] <= visible'[s]
      BY <3>3 DEF TypeOK
    <3>6. Stored(call[r].s, WithBatch(r), VisibleTo(r))'
      BY <2>1, <2>3, <3>4, <3>5 DEF Stored, WithBatch, VisibleTo, s, D, batch
    <3>7. Behind(r)'
      BY <3>1, <3>6 DEF Behind, Decided
    <3>8. QED
      BY <1>1, <2>1, <2>2, <2>3, <3>1, <3>7, StoredStep
  <2>4. CASE Return(r, "ok") \/ Return(r, "store") \/ Return(r, "cancelled")
    BY <1>1, <2>1, <2>2, <2>4, ReturnStored
  <2>5. QED
    BY <1>2, <2>3, <2>4 DEF Appended, AfterCommit, Fails
<1>3. CASE Conflicted(r)
  <2>1. Grows
    BY <1>3, GrowsUnchanged DEF Conflicted
  <2>2. CASE Return(r, "concurrency") /\ UNCHANGED call
    BY <1>1, <2>1, <2>2, ReturnStored
  <2>3. CASE /\ call' = [call EXCEPT ![r].attempt = @ + 1]
             /\ work' = [work EXCEPT ![r] = NoWork]
             /\ Goto(r, FirstAwait(r))
    <3>1. \A q \in Repos \ {r} : call'[q] = call[q]
      BY <2>3 DEF TypeOK
    <3>2. QED
      BY <1>1, <2>1, <2>3, <3>1, FreshStored, StoredStep
  <2>4. QED
    BY <1>3, <2>2, <2>3 DEF Conflicted
<1>4. CASE NotAppended(r)
  <2>1. UNCHANGED call /\ Grows
    BY <1>4, GrowsUnchanged DEF NotAppended
  <2>2. Return(r, "store")
    BY <1>4 DEF NotAppended, Fails
  <2>3. QED
    BY <1>1, <2>1, <2>2, ReturnStored
<1>5. QED
  BY <1>2, <1>3, <1>4 DEF Commit

LEMMA ReadVersionStored ==
    ASSUME TypeOK, TypeOK', StoredInv, NEW r \in Repos, ReadVersion(r)
    PROVE  StoredInv'
<1>1. UNCHANGED <<log, visible, snaps, call>> /\ Grows /\ pc[r] = "stream version"
  BY GrowsUnchanged DEF ReadVersion
<1>2. CASE /\ work' = [work EXCEPT ![r].pos = VisibleTo(r)]
           /\ Goto(r, IF VisibleTo(r) = 0 THEN "panic" ELSE "offer")
  <2>1. pc'[r] \in {"panic", "offer"} /\ \A q \in Repos \ {r} : pc'[q] = pc[q]
    BY <1>2 DEF Goto, TypeOK
  <2>2. /\ work'[r].pos = VisibleTo(r) /\ work'[r].agg = work[r].agg
        /\ work'[r].batch = work[r].batch
        /\ \A q \in Repos \ {r} : work'[q] = work[q]
    BY <1>2 DEF TypeOK, Locals
  <2>3. Stored(call[r].s, WithBatch(r), VisibleTo(r))
    BY <1>1 DEF StoredInv, Behind
  <2>4. Stored(call[r].s, WithBatch(r), work[r].pos)'
    BY <1>1, <2>2, <2>3 DEF Stored, WithBatch
  <2>5. Behind(r)'
    BY <2>1, <2>4 DEF Behind, Decided
  <2>6. QED
    BY <1>1, <2>1, <2>2, <2>5, StoredStep
<1>3. CASE Return(r, "store")
  BY <1>1, <1>3, ReturnStored
<1>4. QED
  BY <1>2, <1>3 DEF ReadVersion, Fails

LEMMA OfferStored ==
    ASSUME TypeOK, TypeOK', StoredInv, NEW r \in Repos, Offer(r)
    PROVE  StoredInv'
<1>1. UNCHANGED <<log, visible, call>> /\ Grows /\ pc[r] = "offer"
  BY GrowsUnchanged DEF Offer
<1>2. Return(r, "ok") \/ Return(r, "codec") \/ Return(r, "snapshot")
  BY DEF Offer, Fails
<1>3. CASE Store(r)
  <2>1. ASSUME NEW x \in SnapshotStores, NEW s \in Streams, snaps'[x][s] # NoSnapshot
        PROVE  Stored(s, snaps'[x][s].data, snaps'[x][s].pos)
    <3>1. \/ snaps'[x][s] = snaps[x][s]
          \/ /\ s = call[r].s
             /\ snaps'[x][s].pos = work[r].pos /\ snaps'[x][s].data = WithBatch(r)
      BY <1>3 DEF Store, SnapshotAt, TypeOK, WithBatch
    <3>2. Stored(call[r].s, WithBatch(r), work[r].pos)
      BY <1>1 DEF StoredInv, Behind
    <3>3. CASE snaps'[x][s] = snaps[x][s]
      BY <2>1, <3>3 DEF StoredInv, SnapshotsStored
    <3>4. QED
      BY <3>1, <3>2, <3>3
  <2>2. SnapshotsStored'
    BY <1>1, <2>1 DEF SnapshotsStored, Stored, NoSnapshot, NoPosition
  <2>3. QED
    BY <1>1, <1>2, <2>2, ReturnStored
<1>4. CASE UNCHANGED snaps
  BY <1>1, <1>2, <1>4, ReturnStored
<1>5. QED
  BY <1>3, <1>4 DEF Offer

LEMMA CallerStored ==
    ASSUME TypeOK, TypeOK', StoredInv, NEW r \in Repos,
           Cancel(r) \/ Restart(r) \/ Inject(r)
    PROVE  StoredInv'
<1>1. CASE Cancel(r)
  BY <1>1, GrowsUnchanged, ReturnStored DEF Cancel, Fails
<1>2. CASE Restart(r)
  <2>1. UNCHANGED <<log, visible, call>> /\ Grows /\ Return(r, "cancelled")
    BY <1>2, GrowsUnchanged DEF Restart, Fails
  <2>2. ASSUME NEW x \in SnapshotStores, NEW s \in Streams
        PROVE  snaps'[x][s] = snaps[x][s] \/ snaps'[x][s] = NoSnapshot
    BY <1>2 DEF Restart, TypeOK
  <2>3. ASSUME NEW x \in SnapshotStores, NEW s \in Streams, snaps'[x][s] # NoSnapshot
        PROVE  Stored(s, snaps'[x][s].data, snaps'[x][s].pos)
    BY <2>2, <2>3 DEF StoredInv, SnapshotsStored
  <2>4. SnapshotsStored'
    BY <2>1, <2>3 DEF SnapshotsStored, Stored, NoSnapshot, NoPosition
  <2>5. QED
    BY <2>1, <2>4, ReturnStored
<1>3. CASE Inject(r)
  <2>1. UNCHANGED <<snaps, pc, call, work>>
    BY <1>3 DEF Inject
  <2>2. Grows
    BY <1>3, InjectGrows
  <2>3. ASSUME NEW q \in Repos PROVE Behind(q)'
    BY <2>1, <2>2, BehindStays DEF StoredInv
  <2>4. QED
    BY <2>1, <2>2, <2>3, SnapshotsStoredStays DEF StoredInv
<1>4. QED
  BY <1>1, <1>2, <1>3

LEMMA LandStored ==
    ASSUME TypeOK, TypeOK', StoredInv, NEW s \in Streams, Land(s)
    PROVE  StoredInv'
<1>1. UNCHANGED <<snaps, pc, call, work>> /\ Grows
  BY GrowsLand DEF Land
<1>2. ASSUME NEW q \in Repos PROVE Behind(q)'
  BY <1>1, BehindStays DEF StoredInv
<1>3. QED
  BY <1>1, <1>2, SnapshotsStoredStays DEF StoredInv

-----------------------------------------------------------------------------
\* The theorems.

LEMMA StoredInductive == TypeOK /\ TypeOK' /\ StoredInv /\ [Next]_vars => StoredInv'
<1> SUFFICES ASSUME TypeOK, TypeOK', StoredInv, [Next]_vars PROVE StoredInv'
  OBVIOUS
<1>1. CASE UNCHANGED vars
  <2>1. UNCHANGED <<log, visible, snaps, pc, call, work>>
    BY <1>1 DEF vars
  <2>2. Grows
    BY <2>1, GrowsUnchanged
  <2>3. ASSUME NEW q \in Repos PROVE Behind(q)'
    BY <2>1, <2>2, BehindStays DEF StoredInv
  <2>4. QED
    BY <2>1, <2>2, <2>3, SnapshotsStoredStays DEF StoredInv
<1>2. ASSUME NEW r \in Repos, Begin(r) PROVE StoredInv'
  BY <1>2, BeginStored
<1>3. ASSUME NEW r \in Repos, Step(r) PROVE StoredInv'
  BY <1>3, LoadSnapshotStored, LoadEventsStored, HandleStored, CommitStored,
     ReadVersionStored, OfferStored DEF Step
<1>4. ASSUME NEW r \in Repos, Cancel(r) \/ Restart(r) \/ Inject(r) PROVE StoredInv'
  BY <1>4, CallerStored
<1>5. ASSUME NEW s \in Streams, Land(s) PROVE StoredInv'
  BY <1>5, LandStored
<1>6. QED
  BY <1>1, <1>2, <1>3, <1>4, <1>5 DEF Next

LEMMA StoredHolds == Spec => []StoredInv
<1>1. Init => StoredInv
  <2> SUFFICES ASSUME Init PROVE StoredInv
    OBVIOUS
  <2>1. \A r \in Repos : pc[r] = "idle"
    BY DEF Init
  <2>2. SnapshotsStored
    BY DEF Init, SnapshotsStored
  <2>3. QED
    BY <2>1, <2>2 DEF StoredInv, Behind, Decided
<1>2. QED
  BY <1>1, StoredInductive, TypeCorrect, PTL DEF Spec

\* No snapshot holds an event that lies after its position, whoever appends while
\* it is taken, on either store: no load that starts from it applies one twice.
THEOREM SnapshotsNotAhead == Spec => []SnapshotNotAhead
<1>1. TypeOK /\ StoredInv => SnapshotNotAhead
  <2> SUFFICES ASSUME TypeOK, StoredInv, NEW x \in SnapshotStores, NEW s \in Streams,
                      snaps[x][s] # NoSnapshot, NEW e \in snaps[x][s].data
               PROVE  e \in Replay(log[s], Kinds, 0, snaps[x][s].pos)
    BY DEF SnapshotNotAhead
  <2>1. PICK i \in 1..snaps[x][s].pos : log[s][i] = e
    BY DEF StoredInv, SnapshotsStored, Stored
  <2>2. /\ snaps[x][s].pos \in Nat /\ snaps[x][s].pos <= visible[s]
        /\ visible[s] \in Nat /\ visible[s] <= Len(log[s]) /\ Len(log[s]) \in Nat
        /\ log[s] \in Seq(Event)
    BY StreamTypes DEF StoredInv, SnapshotsStored, Stored
  <2>3. i \in 1..Len(log[s])
    BY <2>1, <2>2
  <2>4. log[s][i] \in Event
    BY <2>2, <2>3, ElementOfSeq
  <2>5. log[s][i].kind \in Kinds
    BY <2>4 DEF Event
  <2>6. i \in (0 + 1)..snaps[x][s].pos
    BY <2>1, <2>2
  <2>7. QED
    BY <2>1, <2>5, <2>6 DEF Replay, Matching
<1>2. QED
  BY <1>1, StoredHolds, TypeCorrect, PTL

-----------------------------------------------------------------------------
\* Where no two repositories share a snapshot store.

OwnStores == \A q, r \in Repos : StoreOf[q] = StoreOf[r] => q = r

\* A version read after the commit is not below the snapshot it will replace.
Ahead(r) == pc[r] = "offer" => SnapshotOf(r).pos <= work[r].pos

LEMMA AheadInductive ==
    ASSUME OwnStores, TypeOK, TypeOK', StoredInv, [Next]_vars, NEW r \in Repos, Ahead(r)
    PROVE  Ahead(r)'
<1> SUFFICES ASSUME pc'[r] = "offer" PROVE SnapshotOf(r)'.pos <= work'[r].pos
  BY DEF Ahead
<1>1. /\ StoreOf \in [Repos -> SnapshotStores] /\ call[r].s \in Streams
      /\ call'[r].s \in Streams
      /\ SnapshotOf(r).pos \in Nat /\ VisibleTo(r) \in Nat
      /\ work'[r].pos \in Nat
  BY StreamTypes, ConfigAssumption DEF ConfigAssumption, TypeOK, Operation, SnapshotOf, Locals
<1>2. CASE ReadVersion(r)
  <2>1. UNCHANGED <<snaps, call>> /\ work'[r].pos = VisibleTo(r)
    BY <1>2 DEF ReadVersion, Fails, Return, Goto, TypeOK, Locals
  <2>2. SnapshotOf(r).pos <= VisibleTo(r)
    <3>1. CASE SnapshotOf(r) = NoSnapshot
      BY <1>1, <3>1 DEF NoSnapshot, NoPosition
    <3>2. CASE SnapshotOf(r) # NoSnapshot
      BY <1>1, <3>2 DEF StoredInv, SnapshotsStored, Stored, SnapshotOf, VisibleTo
    <3>3. QED
      BY <3>1, <3>2
  <2>3. QED
    BY <2>1, <2>2 DEF SnapshotOf
<1>3. CASE /\ pc'[r] = pc[r] /\ work'[r] = work[r] /\ call'[r] = call[r]
           /\ SnapshotOf(r)' = SnapshotOf(r) \/ SnapshotOf(r)' = NoSnapshot
  BY <1>1, <1>3 DEF Ahead, NoSnapshot, NoPosition
<1>4. ASSUME NEW q \in Repos, q # r, Begin(q) \/ Step(q) \/ Cancel(q) \/ Restart(q) \/ Inject(q)
      PROVE  /\ pc'[r] = pc[r] /\ work'[r] = work[r] /\ call'[r] = call[r]
             /\ SnapshotOf(r)' = SnapshotOf(r) \/ SnapshotOf(r)' = NoSnapshot
  <2>1. StoreOf[q] # StoreOf[r]
    BY <1>4 DEF OwnStores
  <2>2. /\ pc'[r] = pc[r] /\ work'[r] = work[r] /\ call'[r] = call[r]
    BY <1>4
    DEF Begin, Step, LoadSnapshot, LoadEvents, Handle, Commit, ReadVersion, Offer, Cancel,
        Restart, Inject, RestoreSnapshot, FallBackToReplay, EventsLoaded, ApplyEvents, Emit,
        Appended, Conflicted, NotAppended, AfterCommit, Fails, Return, Goto, TypeOK
  <2>3. snaps'[StoreOf[r]] = snaps[StoreOf[r]]
    BY <1>1, <1>4, <2>1
    DEF Begin, Step, LoadSnapshot, LoadEvents, Handle, Commit, ReadVersion, Offer, Store,
        Cancel, Restart, Inject, TypeOK
  <2>4. QED
    BY <2>2, <2>3 DEF SnapshotOf
<1>5. ASSUME Begin(r) \/ LoadSnapshot(r) \/ LoadEvents(r) \/ Handle(r) \/ Commit(r)
             \/ Offer(r) \/ Cancel(r) \/ Restart(r)
      PROVE  pc'[r] # "offer"
  BY <1>5
  DEF Begin, LoadSnapshot, LoadEvents, Handle, Commit, Offer, Cancel, Restart,
      RestoreSnapshot, FallBackToReplay, EventsLoaded, Emit, Appended, Conflicted,
      NotAppended, AfterCommit, Fails, Return, Goto, FirstAwait, TypeOK
<1>6. ASSUME Inject(r) PROVE pc'[r] # "offer"
  BY <1>6 DEF Inject
<1>7. ASSUME (\E s \in Streams : Land(s)) \/ UNCHANGED vars
      PROVE  /\ pc'[r] = pc[r] /\ work'[r] = work[r] /\ call'[r] = call[r]
             /\ SnapshotOf(r)' = SnapshotOf(r)
  BY <1>7 DEF Land, vars, SnapshotOf
<1>8. QED
  BY <1>2, <1>3, <1>4, <1>5, <1>6, <1>7 DEF Next, Step

LEMMA AheadHolds == ASSUME OwnStores PROVE Spec => [](\A r \in Repos : Ahead(r))
<1>1. Init => \A r \in Repos : Ahead(r)
  BY DEF Init, Ahead
<1>2. /\ TypeOK /\ TypeOK' /\ StoredInv /\ (\A r \in Repos : Ahead(r)) /\ [Next]_vars
      => (\A r \in Repos : Ahead(r))'
  BY AheadInductive
<1>3. QED
  BY <1>1, <1>2, StoredHolds, TypeCorrect, PTL DEF Spec

\* Where no two repositories share a snapshot store, a snapshot is replaced by one
\* of its own or a later position only, until the process that holds it ends.
THEOREM SnapshotsOnlyAdvance == ASSUME OwnStores PROVE Spec => SnapshotsAdvance
<1> DEFINE Advance ==
      \A x \in SnapshotStores, s \in Streams :
        \/ snaps'[x][s].pos >= snaps[x][s].pos
        \/ \A t \in Streams : snaps'[x][t] = NoSnapshot
<1>1. TypeOK /\ TypeOK' /\ (\A r \in Repos : Ahead(r)) /\ [Next]_vars => [Advance]_vars
  <2> SUFFICES ASSUME TypeOK, TypeOK', \A r \in Repos : Ahead(r), Next,
                      NEW x \in SnapshotStores, NEW s \in Streams
               PROVE  \/ snaps'[x][s].pos >= snaps[x][s].pos
                      \/ \A t \in Streams : snaps'[x][t] = NoSnapshot
    OBVIOUS
  <2>1. snaps[x][s].pos \in Nat
    BY StreamTypes
  <2>2. CASE snaps' = snaps
    BY <2>1, <2>2
  <2>3. ASSUME NEW r \in Repos, Offer(r), Store(r)
        PROVE  snaps'[x][s].pos >= snaps[x][s].pos
    <3>1. CASE x = StoreOf[r] /\ s = call[r].s
      <4>1. snaps'[x][s].pos = work[r].pos
        BY <2>3, <3>1 DEF Store, SnapshotAt, TypeOK
      <4>2. snaps[x][s].pos <= work[r].pos /\ work[r].pos \in Nat
        BY <2>3, <3>1, StreamTypes DEF Ahead, Offer, SnapshotOf
      <4>3. QED
        BY <2>1, <4>1, <4>2
    <3>2. CASE ~(x = StoreOf[r] /\ s = call[r].s)
      <4>1. snaps'[x][s] = snaps[x][s]
        BY <2>3, <3>2 DEF Store, TypeOK
      <4>2. QED
        BY <2>1, <4>1
    <3>3. QED
      BY <3>1, <3>2
  <2>4. ASSUME NEW r \in Repos, Restart(r)
        PROVE  \/ snaps'[x][s].pos >= snaps[x][s].pos
               \/ \A t \in Streams : snaps'[x][t] = NoSnapshot
    <3>1. CASE x = StoreOf[r]
      BY <2>4, <3>1 DEF Restart, TypeOK
    <3>2. CASE x # StoreOf[r]
      <4>1. snaps'[x] = snaps[x]
        BY <2>4, <3>2 DEF Restart, TypeOK
      <4>2. QED
        BY <2>1, <4>1
    <3>3. QED
      BY <3>1, <3>2
  <2>5. \/ snaps' = snaps
        \/ \E r \in Repos : Offer(r) /\ Store(r)
        \/ \E r \in Repos : Restart(r)
    BY DEF Next, Begin, Step, LoadSnapshot, LoadEvents, Handle, Commit, ReadVersion, Offer,
           Cancel, Inject, Land
  <2>6. QED
    BY <2>2, <2>3, <2>4, <2>5
<1>2. QED
  BY <1>1, AheadHolds, TypeCorrect, PTL DEF Spec, SnapshotsAdvance
=============================================================================
