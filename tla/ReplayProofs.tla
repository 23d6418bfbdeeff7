---------------------------- MODULE ReplayProofs ----------------------------
(***************************************************************************)
(* Loads and commits where nothing can come between a snapshot's aggregate *)
(* and its position: no repository takes snapshots, or the event store is  *)
(* the in-memory one, which one repository has to itself.                  *)
(***************************************************************************)
EXTENDS VersionProofs, OutcomeProofs

InMemory == StoreKind = "inmemory"

Undisturbed == Snapshotting = {} \/ InMemory

\* The aggregate that the first n events of r's stream give.
Upto(r, n) == Replay(StreamOf(r), EventKinds[r], 0, n)

Loaded(r) == pc[r] \in Decided \/ (pc[r] = "idle" /\ ret[r].kind = "loaded")

\* What r's operation holds, at each await, is what its stream gives.
Whole(r) ==
    /\ pc[r] \in {"load snapshot", "stream version", "offer"} => r \in Snapshotting
    /\ pc[r] = "load snapshot" => work[r].agg = {}
    /\ pc[r] = "load events" => work[r].agg = Upto(r, work[r].version)
    /\ Loaded(r) => work[r].asOf <= Len(StreamOf(r)) /\ work[r].agg = Upto(r, work[r].asOf)
    /\ pc[r] \in Decided /\ InMemory => work[r].asOf = Len(StreamOf(r))
    /\ pc[r] = "commit" =>
         \A i \in 1..Len(work[r].batch) : work[r].batch[i].kind \in EventKinds[r]
    /\ pc[r] \in {"stream version", "offer"} =>
         work[r].agg \cup EventsOf(work[r].batch) = Upto(r, Len(StreamOf(r)))
    /\ pc[r] = "offer" => work[r].pos = Len(StreamOf(r)) /\ work[r].pos > 0

AllSettled == \A s \in Streams : Settled(s)

ReplayInv ==
    /\ SnapshotFaithful
    /\ InMemory => AllSettled
    /\ \A r \in Repos : Whole(r)

\* The store only grows, and an in-memory one is never behind with a COMMIT.
Keeps == Grows /\ (InMemory /\ AllSettled => AllSettled')

LEMMA OneRepository == InMemory => \A q, r \in Repos : q = r
BY StoreAssumption DEF StoreAssumption, InMemory

-----------------------------------------------------------------------------
\* Replaying.

LEMMA ReplayPrefix ==
    ASSUME NEW s, NEW t, NEW K, NEW from \in Nat, NEW to \in Nat,
           \A i \in 1..to : s[i] = t[i]
    PROVE  Replay(s, K, from, to) = Replay(t, K, from, to)
<1>1. \A i \in (from + 1)..to : s[i] = t[i]
  OBVIOUS
<1>2. Matching(s, K, from, to) = Matching(t, K, from, to)
  BY <1>1 DEF Matching
<1>3. \A i \in Matching(t, K, from, to) : s[i] = t[i]
  BY <1>1 DEF Matching
<1>4. QED
  BY <1>2, <1>3 DEF Replay

LEMMA ReplaySplit ==
    ASSUME NEW s, NEW K, NEW mid \in Nat, NEW to \in Nat, mid <= to
    PROVE  Replay(s, K, 0, mid) \cup Replay(s, K, mid, to) = Replay(s, K, 0, to)
<1>1. \A i : i \in (0 + 1)..to <=> (i \in (0 + 1)..mid \/ i \in (mid + 1)..to)
  OBVIOUS
<1>2. Matching(s, K, 0, to) = Matching(s, K, 0, mid) \cup Matching(s, K, mid, to)
  BY <1>1 DEF Matching
<1>3. QED
  BY <1>2 DEF Replay

LEMMA ReplayNothing == ASSUME NEW s, NEW K PROVE Replay(s, K, 0, 0) = {}
BY DEF Replay, Matching

\* Replaying the events of a batch that has just been appended.
LEMMA ReplayBatch ==
    ASSUME NEW s, NEW K, NEW n \in Nat, NEW batch \in Seq(Event),
           \A i \in 1..Len(batch) : batch[i].kind \in K,
           \A i \in 1..(n + Len(batch)) : i > n => s[i] = batch[i - n]
    PROVE  Replay(s, K, n, n + Len(batch)) = EventsOf(batch)
<1>1. Len(batch) \in Nat /\ DOMAIN batch = 1..Len(batch)
  BY LenProperties
<1>2. PICK m \in Nat : m = Len(batch)
  BY <1>1
<1>3. ASSUME NEW i \in (n + 1)..(n + m)
      PROVE  i - n \in 1..m /\ s[i] = batch[i - n] /\ s[i].kind \in K
  <2>1. i \in 1..(n + m) /\ i > n /\ i - n \in 1..m
    OBVIOUS
  <2>2. QED
    BY <1>2, <2>1
<1>4. Matching(s, K, n, n + m) = (n + 1)..(n + m)
  BY <1>3 DEF Matching
<1>5. ASSUME NEW j \in 1..m
      PROVE  j + n \in (n + 1)..(n + m) /\ s[j + n] = batch[j]
  <2>1. j + n \in (n + 1)..(n + m) /\ (j + n) - n = j
    OBVIOUS
  <2>2. QED
    BY <1>3, <2>1
<1>6. Replay(s, K, n, n + m) \subseteq EventsOf(batch)
  BY <1>1, <1>2, <1>3, <1>4 DEF Replay, EventsOf
<1>7. EventsOf(batch) \subseteq Replay(s, K, n, n + m)
  BY <1>1, <1>2, <1>4, <1>5 DEF Replay, EventsOf
<1>8. QED
  BY <1>2, <1>6, <1>7

-----------------------------------------------------------------------------
\* Steps that only let streams grow.

LEMMA UptoStays ==
    ASSUME TypeOK, NEW q \in Repos, Grows, call'[q] = call[q],
           NEW n \in Nat, n <= Len(StreamOf(q))
    PROVE  Upto(q, n)' = Upto(q, n)
<1>1. /\ StreamOf(q)' = log'[call[q].s]
      /\ StreamOf(q) = log[call[q].s]
      /\ call[q].s \in Streams
      /\ Len(StreamOf(q)) \in Nat
  BY StreamTypes DEF StreamOf
<1>2. \A i \in 1..Len(StreamOf(q)) : StreamOf(q)'[i] = StreamOf(q)[i]
  BY <1>1 DEF Grows
<1>3. \A i \in 1..n : StreamOf(q)'[i] = StreamOf(q)[i]
  BY <1>1, <1>2
<1>4. Replay(StreamOf(q)', EventKinds[q], 0, n) = Replay(StreamOf(q), EventKinds[q], 0, n)
  BY <1>3, ReplayPrefix
<1>5. QED
  BY <1>4 DEF Upto

LEMMA KeepsUnchanged == ASSUME TypeOK, UNCHANGED <<log, visible>> PROVE Keeps
BY GrowsUnchanged DEF Keeps, AllSettled, Settled

LEMMA KeepsAppend ==
    ASSUME TypeOK, NEW s \in Streams, NEW batch \in Seq(Event),
           AppendTo(s, batch) \/ (AppendLater(s, batch) /\ ~InMemory)
    PROVE  Keeps
<1>1. Grows
  BY GrowsAppend
<1>2. CASE ~InMemory
  BY <1>1, <1>2 DEF Keeps
<1>3. CASE AppendTo(s, batch)
  <2>1. ASSUME NEW t \in Streams, Settled(t) PROVE Settled(t)'
    <3>1. CASE t = s
      BY <1>3, <3>1, GrowsAppend DEF AppendTo, Settled, TypeOK
    <3>2. CASE t # s
      BY <1>3, <2>1, <3>2 DEF AppendTo, Extend, Settled, TypeOK
    <3>3. QED
      BY <3>1, <3>2
  <2>2. QED
    BY <1>1, <2>1 DEF Keeps, AllSettled
<1>4. QED
  BY <1>2, <1>3

LEMMA FaithfulStays ==
    ASSUME TypeOK, TypeOK', SnapshotFaithful, Grows, UNCHANGED snaps
    PROVE  SnapshotFaithful'
<1>1. ASSUME NEW x \in SnapshotStores, NEW s \in Streams, snaps[x][s] # NoSnapshot
      PROVE  /\ snaps[x][s].pos \in 1..Len(log'[s])
             /\ snaps[x][s].data =
                  Replay(log'[s], EventKinds[snaps[x][s].by], 0, snaps[x][s].pos)
  <2>1. /\ snaps[x][s].pos \in 1..Len(log[s])
        /\ snaps[x][s].data = Replay(log[s], EventKinds[snaps[x][s].by], 0, snaps[x][s].pos)
    BY <1>1 DEF SnapshotFaithful
  <2>2. Len(log[s]) \in Nat /\ Len(log'[s]) \in Nat
    BY StreamTypes, LenProperties DEF TypeOK
  <2>3. /\ Len(log[s]) <= Len(log'[s])
        /\ \A i \in 1..Len(log[s]) : log'[s][i] = log[s][i]
    BY DEF Grows
  <2>4. /\ snaps[x][s].pos \in Nat /\ snaps[x][s].pos \in 1..Len(log'[s])
        /\ \A i \in 1..snaps[x][s].pos : log'[s][i] = log[s][i]
    BY <2>1, <2>2, <2>3
  <2>5. QED
    BY <2>1, <2>4, ReplayPrefix
<1>2. QED
  BY <1>1 DEF SnapshotFaithful

\* Another repository's step, where snapshots are not taken or nobody else is.
LEMMA WholeStays ==
    ASSUME TypeOK, TypeOK', Undisturbed, VersionInv, NEW q \in Repos, Whole(q), Grows,
           pc'[q] = pc[q], work'[q] = work[q], call'[q] = call[q], ret'[q] = ret[q],
           UNCHANGED log \/ ~InMemory
    PROVE  Whole(q)'
<1>1. CASE UNCHANGED log
  <2>1. /\ StreamOf(q)' = StreamOf(q)
        /\ Upto(q, work[q].version)' = Upto(q, work[q].version)
        /\ Upto(q, work[q].asOf)' = Upto(q, work[q].asOf)
        /\ Upto(q, Len(StreamOf(q)))' = Upto(q, Len(StreamOf(q)))
    BY <1>1 DEF StreamOf, Upto
  <2>2. Loaded(q)' <=> Loaded(q)
    BY DEF Loaded
  <2>3. QED
    BY <2>1, <2>2 DEF Whole
<1>2. CASE ~InMemory
  <2>1. q \notin Snapshotting
    BY <1>2 DEF Undisturbed
  <2>2. pc[q] \notin {"load snapshot", "stream version", "offer"}
    BY <2>1 DEF Whole
  <2>3. /\ Len(StreamOf(q)) \in Nat /\ work[q].version \in Nat /\ work[q].asOf \in Nat
        /\ Len(StreamOf(q)') \in Nat
    BY StreamTypes, LenProperties DEF TypeOK, StreamOf, Operation
  <2>4. Len(StreamOf(q)) <= Len(StreamOf(q)')
    BY StreamTypes DEF StreamOf, Grows
  <2>5. pc[q] = "load events" => work[q].agg = Upto(q, work[q].version)'
    <3>1. SUFFICES ASSUME pc[q] = "load events"
                   PROVE  work[q].agg = Upto(q, work[q].version)'
      OBVIOUS
    <3>2. work[q].version <= Len(StreamOf(q))
      BY <3>1 DEF VersionInv, Versioned
    <3>3. Upto(q, work[q].version)' = Upto(q, work[q].version)
      BY <2>3, <3>2, UptoStays DEF Upto
    <3>4. QED
      BY <3>1, <3>3 DEF Whole
  <2>6. Loaded(q) =>
          work[q].asOf <= Len(StreamOf(q)') /\ work[q].agg = Upto(q, work[q].asOf)'
    <3>1. SUFFICES ASSUME Loaded(q)
                   PROVE  work[q].asOf <= Len(StreamOf(q)') /\ work[q].agg = Upto(q, work[q].asOf)'
      OBVIOUS
    <3>2. work[q].asOf <= Len(StreamOf(q)) /\ work[q].agg = Upto(q, work[q].asOf)
      BY <3>1 DEF Whole
    <3>3. Upto(q, work[q].asOf)' = Upto(q, work[q].asOf)
      BY <2>3, <3>2, UptoStays DEF Upto
    <3>4. work[q].asOf <= Len(StreamOf(q)')
      BY <2>3, <2>4, <3>2
    <3>5. QED
      BY <3>2, <3>3, <3>4
  <2>7. Loaded(q)' <=> Loaded(q)
    BY DEF Loaded
  <2>8. QED
    BY <1>2, <2>2, <2>5, <2>6, <2>7 DEF Whole
<1>3. QED
  BY <1>1, <1>2

\* A step of r: it is enough to look at r and at the snapshots.
LEMMA ReplayStep ==
    ASSUME TypeOK, TypeOK', Undisturbed, VersionInv, ReplayInv, NEW r \in Repos, Keeps,
           \A q \in Repos \ {r} : /\ pc'[q] = pc[q] /\ work'[q] = work[q]
                                  /\ call'[q] = call[q] /\ ret'[q] = ret[q],
           Whole(r)', UNCHANGED snaps \/ SnapshotFaithful'
    PROVE  ReplayInv'
<1>1. ASSUME NEW q \in Repos PROVE Whole(q)'
  <2>1. CASE q = r
    BY <2>1
  <2>2. CASE q # r
    <3>1. ~InMemory
      BY <2>2, OneRepository
    <3>2. QED
      BY <2>2, <3>1, WholeStays DEF ReplayInv, Keeps
  <2>3. QED
    BY <2>1, <2>2
<1>2. SnapshotFaithful'
  BY FaithfulStays DEF ReplayInv, Keeps
<1>3. InMemory => AllSettled'
  BY DEF ReplayInv, Keeps
<1>4. QED
  BY <1>1, <1>2, <1>3 DEF ReplayInv, InMemory

LEMMA ReturnReplay ==
    ASSUME TypeOK, TypeOK', Undisturbed, VersionInv, ReplayInv, NEW r \in Repos,
           NEW kind \in Results \ {"loaded"}, Return(r, kind), Keeps,
           UNCHANGED call, UNCHANGED snaps \/ SnapshotFaithful'
    PROVE  ReplayInv'
<1>1. /\ pc'[r] = "idle" /\ ret'[r].kind # "loaded"
      /\ \A q \in Repos \ {r} : pc'[q] = pc[q] /\ work'[q] = work[q] /\ ret'[q] = ret[q]
  BY DEF Return, Goto, TypeOK
<1>2. Whole(r)'
  BY <1>1 DEF Whole, Loaded, Decided
<1>3. QED
  BY <1>1, <1>2, ReplayStep

LEMMA FreshWhole ==
    ASSUME TypeOK, NEW r \in Repos, Goto(r, FirstAwait(r)),
           work' = [work EXCEPT ![r] = NoWork]
    PROVE  /\ Whole(r)'
           /\ \A q \in Repos \ {r} : pc'[q] = pc[q] /\ work'[q] = work[q]
<1>1. /\ pc'[r] = "load events" \/ (pc'[r] = "load snapshot" /\ r \in Snapshotting)
      /\ work'[r].version = 0 /\ work'[r].agg = {}
      /\ \A q \in Repos \ {r} : pc'[q] = pc[q] /\ work'[q] = work[q]
  BY DEF Goto, FirstAwait, TypeOK, NoWork, NoPosition
<1>2. Upto(r, 0)' = {}
  BY ReplayNothing DEF Upto
<1>3. Upto(r, work[r].version)' = {}
  BY <1>1, ReplayNothing DEF Upto
<1>4. QED
  BY <1>1, <1>3 DEF Whole, Loaded, Decided

-----------------------------------------------------------------------------
\* The actions.

LEMMA BeginReplay ==
    ASSUME TypeOK, TypeOK', Undisturbed, VersionInv, ReplayInv, NEW r \in Repos, Begin(r)
    PROVE  ReplayInv'
<1>1. /\ Goto(r, FirstAwait(r))
      /\ work' = [work EXCEPT ![r] = NoWork]
      /\ UNCHANGED <<log, visible, snaps, ret>>
      /\ \A q \in Repos \ {r} : call'[q] = call[q]
  BY DEF Begin, TypeOK
<1>2. QED
  BY <1>1, FreshWhole, KeepsUnchanged, ReplayStep

LEMMA LoadSnapshotReplay ==
    ASSUME TypeOK, TypeOK', Undisturbed, VersionInv, ReplayInv, NEW r \in Repos,
           LoadSnapshot(r)
    PROVE  ReplayInv'
<1>1. UNCHANGED <<log, snaps, call>> /\ Keeps /\ pc[r] = "load snapshot"
  BY KeepsUnchanged DEF LoadSnapshot
<1>2. CASE RestoreSnapshot(r)
  <2>1. /\ pc'[r] = "load events" /\ UNCHANGED ret
        /\ \A q \in Repos \ {r} : pc'[q] = pc[q] /\ work'[q] = work[q]
    BY <1>2 DEF RestoreSnapshot, Goto, TypeOK
  <2>2. work'[r].agg = Upto(r, work[r].version)'
    <3>1. CASE SnapshotOf(r) = NoSnapshot
      <4>1. work'[r].version = 0 /\ work'[r].agg = {}
        BY <1>2, <3>1 DEF RestoreSnapshot, TypeOK, NoWork, NoPosition
      <4>2. QED
        BY <4>1, ReplayNothing DEF Upto
    <3>2. CASE SnapshotOf(r) # NoSnapshot
      <4> DEFINE x == StoreOf[r]
                 s == call[r].s
      <4>1. x \in SnapshotStores /\ s \in Streams /\ SnapshotOf(r) = snaps[x][s]
        BY ConfigAssumption, StreamTypes DEF ConfigAssumption, SnapshotOf
      <4>2. snaps[x][s].data = Replay(log[s], EventKinds[snaps[x][s].by], 0, snaps[x][s].pos)
        BY <3>2, <4>1 DEF ReplayInv, SnapshotFaithful
      <4>3. snaps[x][s].by = r
        <5>1. r \in Snapshotting
          BY <1>1 DEF ReplayInv, Whole
        <5>2. InMemory
          BY <5>1 DEF Undisturbed
        <5>3. snaps[x][s].by \in Repos
          BY <3>2, <4>1 DEF TypeOK, Snapshot
        <5>4. QED
          BY <5>2, <5>3, OneRepository
      <4>4. work'[r].agg = snaps[x][s].data /\ work'[r].version = snaps[x][s].pos
        BY <1>2, <3>2, <4>1 DEF RestoreSnapshot, TypeOK, NoWork
      <4>5. StreamOf(r)' = log[s]
        BY <1>1 DEF StreamOf
      <4>6. QED
        BY <4>2, <4>3, <4>4, <4>5 DEF Upto
    <3>3. QED
      BY <3>1, <3>2
  <2>3. Whole(r)'
    BY <2>1, <2>2 DEF Whole, Loaded, Decided
  <2>4. QED
    BY <1>1, <2>1, <2>3, ReplayStep
<1>3. CASE FallBackToReplay(r)
  <2>1. /\ pc'[r] = "load events" /\ work' = work /\ ret' = ret
        /\ \A q \in Repos \ {r} : pc'[q] = pc[q]
    BY <1>3 DEF FallBackToReplay, Goto, TypeOK
  <2>2. work[r].version = 0 /\ work[r].agg = {}
    BY <1>1 DEF VersionInv, Versioned, NoPosition, ReplayInv, Whole
  <2>3. Upto(r, work[r].version)' = {}
    BY <2>1, <2>2, ReplayNothing DEF Upto
  <2>4. Whole(r)'
    BY <2>1, <2>2, <2>3 DEF Whole, Loaded, Decided
  <2>5. QED
    BY <1>1, <2>1, <2>4, ReplayStep
<1>4. CASE Return(r, "projection")
  BY <1>1, <1>4, ReturnReplay DEF Results
<1>5. QED
  BY <1>2, <1>3, <1>4 DEF LoadSnapshot, Fails

LEMMA LoadEventsReplay ==
    ASSUME TypeOK, TypeOK', Undisturbed, VersionInv, ReplayInv, NEW r \in Repos,
           LoadEvents(r)
    PROVE  ReplayInv'
<1>1. UNCHANGED <<log, snaps, call>> /\ Keeps /\ pc[r] = "load events"
  BY KeepsUnchanged DEF LoadEvents
<1>2. CASE EventsLoaded(r)
  <2> DEFINE stream == StreamOf(r)
             after  == work[r].version
             len    == VisibleTo(r)
             K      == EventKinds[r]
  <2>1. /\ Len(stream) \in Nat /\ after \in Nat /\ len \in Nat /\ len <= Len(stream)
        /\ InMemory => len = Len(stream)
    BY StreamTypes DEF ReplayInv, AllSettled, Settled, StreamOf, VisibleTo
  <2>2. /\ after <= len
        /\ work'[r].agg = work[r].agg \cup Replay(stream, K, after, len)
        /\ work'[r].asOf = len
        /\ \A q \in Repos \ {r} : work'[q] = work[q]
    BY <1>2, <2>1 DEF EventsLoaded, ApplyEvents, TypeOK
  <2>3. work[r].agg = Replay(stream, K, 0, after)
    BY <1>1 DEF ReplayInv, Whole, Upto
  <2>4. work'[r].agg = Replay(stream, K, 0, len)
    BY <2>1, <2>2, <2>3, ReplaySplit
  <2>5. /\ pc'[r] \in {"idle", "handle"}
        /\ \A q \in Repos \ {r} : pc'[q] = pc[q] /\ ret'[q] = ret[q]
    BY <1>2 DEF EventsLoaded, Goto, TypeOK
  <2>6. StreamOf(r)' = stream
    BY <1>1 DEF StreamOf
  <2>7. work'[r].agg = Upto(r, work[r].asOf)'
    BY <2>2, <2>4, <2>6 DEF Upto
  <2>8. /\ work'[r].asOf <= Len(StreamOf(r)')
        /\ InMemory => work'[r].asOf = Len(StreamOf(r)')
    BY <2>1, <2>2, <2>6
  <2>9. Whole(r)'
    BY <2>5, <2>7, <2>8 DEF Whole, Decided, InMemory
  <2>10. QED
    BY <1>1, <2>2, <2>5, <2>9, ReplayStep
<1>3. CASE Return(r, "projection")
  BY <1>1, <1>3, ReturnReplay DEF Results
<1>4. QED
  BY <1>2, <1>3 DEF LoadEvents, Fails

LEMMA HandleReplay ==
    ASSUME TypeOK, TypeOK', Undisturbed, VersionInv, ReplayInv, NEW r \in Repos, Handle(r)
    PROVE  ReplayInv'
<1>1. UNCHANGED <<log, snaps, call>> /\ Keeps /\ pc[r] = "handle"
  BY KeepsUnchanged DEF Handle
<1>2. ASSUME NEW kinds \in Batches(EventKinds[r], MaxBatch),
             work' = [work EXCEPT ![r].batch = Stamp(r, calls[r], kinds)],
             Goto(r, "commit"), UNCHANGED ret
      PROVE  ReplayInv'
  <2>1. /\ work'[r].batch = Stamp(r, calls[r], kinds)
        /\ work'[r].agg = work[r].agg /\ work'[r].asOf = work[r].asOf
        /\ \A q \in Repos \ {r} : work'[q] = work[q]
    BY <1>2 DEF TypeOK, Locals
  <2>2. pc'[r] = "commit" /\ \A q \in Repos \ {r} : pc'[q] = pc[q]
    BY <1>2 DEF Goto, TypeOK
  <2>3. \A i \in 1..Len(Stamp(r, calls[r], kinds)) :
          Stamp(r, calls[r], kinds)[i].kind \in EventKinds[r]
    <3>1. kinds \in Batches(Kinds, MaxBatch)
      BY BatchesMonotone, ConfigAssumption DEF ConfigAssumption
    <3>2. Stamp(r, calls[r], kinds) \in Seq(Event)
      BY <3>1, StampType DEF TypeOK
    <3>3. DOMAIN Stamp(r, calls[r], kinds) = 1..Len(Stamp(r, calls[r], kinds))
      BY <3>2, LenProperties
    <3>4. DOMAIN Stamp(r, calls[r], kinds) = DOMAIN kinds
      BY DEF Stamp
    <3>5. \A i \in DOMAIN kinds : kinds[i] \in EventKinds[r]
      BY DEF Batches
    <3>6. QED
      BY <3>3, <3>4, <3>5 DEF Stamp
  <2>4. StreamOf(r)' = StreamOf(r) /\ Upto(r, work[r].asOf)' = Upto(r, work[r].asOf)
    BY <1>1, <2>1 DEF StreamOf, Upto
  <2>5. /\ work[r].asOf <= Len(StreamOf(r)) /\ work[r].agg = Upto(r, work[r].asOf)
        /\ InMemory => work[r].asOf = Len(StreamOf(r))
    BY <1>1 DEF ReplayInv, Whole, Loaded, Decided
  <2>6. Whole(r)'
    BY <2>1, <2>2, <2>3, <2>4, <2>5 DEF Whole, Loaded, Decided, InMemory
  <2>7. QED
    BY <1>1, <1>2, <2>1, <2>2, <2>6, ReplayStep
<1>3. CASE Return(r, "codec") \/ Return(r, "ok") \/ Return(r, "aggregate")
  BY <1>1, <1>3, ReturnReplay DEF Results
<1>4. QED
  BY <1>2, <1>3 DEF Handle, Emit, Fails

\* What the stream of r gives after r has appended its batch, nobody between.
LEMMA AppendedWhole ==
    ASSUME TypeOK, ReplayInv, NEW r \in Repos, pc[r] = "commit", InMemory,
           Extend(call[r].s, work[r].batch), call' = call
    PROVE  work[r].agg \cup EventsOf(work[r].batch) = Upto(r, Len(StreamOf(r)))'
<1> DEFINE n == Len(StreamOf(r))
           batch == work[r].batch
           K == EventKinds[r]
<1>1. n \in Nat /\ batch \in Seq(Event) /\ call[r].s \in Streams /\ Len(batch) \in Nat
  BY StreamTypes, LenProperties
<1>2. /\ work[r].agg = Replay(StreamOf(r), K, 0, n)
      /\ \A i \in 1..Len(batch) : batch[i].kind \in K
  BY DEF ReplayInv, Whole, Loaded, Decided, Upto
<1>3. /\ StreamOf(r)' = log'[call[r].s]
      /\ StreamOf(r) = log[call[r].s]
  BY DEF StreamOf
<1>4. /\ Len(StreamOf(r)') = n + Len(batch)
      /\ \A i \in 1..n : StreamOf(r)'[i] = StreamOf(r)[i]
      /\ \A i \in 1..Len(StreamOf(r)') : i > n => StreamOf(r)'[i] = batch[i - n]
  <2>1. /\ Len(log'[call[r].s]) = Len(log[call[r].s]) + Len(batch)
        /\ \A i \in 1..Len(log[call[r].s]) : log'[call[r].s][i] = log[call[r].s][i]
        /\ \A i \in 1..Len(log'[call[r].s]) :
             i > Len(log[call[r].s]) => log'[call[r].s][i] = batch[i - Len(log[call[r].s])]
    BY <1>1, AppendedStream
  <2>2. QED
    BY <2>1, <1>3
<1> HIDE DEF n, batch, K
<1>5. Replay(StreamOf(r)', K, 0, n) = Replay(StreamOf(r), K, 0, n)
  BY <1>1, <1>4, ReplayPrefix
<1>6. Replay(StreamOf(r)', K, n, n + Len(batch)) = EventsOf(batch)
  BY <1>1, <1>2, <1>4, ReplayBatch
<1>7. n + Len(batch) \in Nat /\ n <= n + Len(batch)
  BY <1>1
<1>8. Replay(StreamOf(r)', K, 0, n + Len(batch)) =
        Replay(StreamOf(r)', K, 0, n) \cup Replay(StreamOf(r)', K, n, n + Len(batch))
  BY <1>1, <1>7, ReplaySplit
<1>9. Upto(r, Len(StreamOf(r)))' = Replay(StreamOf(r)', K, 0, n + Len(batch))
  BY <1>4 DEF Upto, K
<1>10. QED
  BY <1>2, <1>5, <1>6, <1>8, <1>9 DEF batch

LEMMA CommitReplay ==
    ASSUME TypeOK, TypeOK', Undisturbed, VersionInv, ReplayInv, NEW r \in Repos, Commit(r)
    PROVE  ReplayInv'
<1>1. UNCHANGED snaps /\ pc[r] = "commit"
  BY DEF Commit
<1>2. CASE Appended(r)
  <2>1. /\ \/ AppendTo(call[r].s, work[r].batch)
           \/ AppendLater(call[r].s, work[r].batch) /\ ~InMemory
        /\ UNCHANGED call
        /\ work[r].batch \in Seq(Event) /\ call[r].s \in Streams
    BY <1>2, StreamTypes, StoreAssumption DEF Appended, Fails, StoreAssumption, InMemory
  <2>2. Keeps /\ Extend(call[r].s, work[r].batch)
    BY <2>1, KeepsAppend, GrowsAppend
  <2>3. CASE r \in Snapshotting /\ Goto(r, "stream version") /\ UNCHANGED <<work, ret>>
    <3>1. pc'[r] = "stream version" /\ \A q \in Repos \ {r} : pc'[q] = pc[q]
      BY <2>3 DEF Goto, TypeOK
    <3>2. work[r].agg \cup EventsOf(work[r].batch) = Upto(r, Len(StreamOf(r)))'
      BY <1>1, <2>1, <2>2, <2>3, AppendedWhole DEF Undisturbed
    <3>3. Whole(r)'
      BY <2>3, <3>1, <3>2 DEF Whole, Loaded, Decided
    <3>4. QED
      BY <1>1, <2>1, <2>2, <2>3, <3>1, <3>3, ReplayStep
  <2>4. CASE Return(r, "ok") \/ Return(r, "store") \/ Return(r, "cancelled")
    BY <1>1, <2>1, <2>2, <2>4, ReturnReplay DEF Results
  <2>5. QED
    BY <1>2, <2>3, <2>4 DEF Appended, AfterCommit, Fails
<1>3. CASE Conflicted(r)
  <2>1. UNCHANGED log /\ Keeps
    BY <1>3, KeepsUnchanged DEF Conflicted
  <2>2. CASE Return(r, "concurrency") /\ UNCHANGED call
    BY <1>1, <2>1, <2>2, ReturnReplay DEF Results
  <2>3. CASE /\ call' = [call EXCEPT ![r].attempt = @ + 1]
             /\ work' = [work EXCEPT ![r] = NoWork]
             /\ Goto(r, FirstAwait(r))
             /\ UNCHANGED ret
    <3>1. \A q \in Repos \ {r} : call'[q] = call[q]
      BY <2>3 DEF TypeOK
    <3>2. QED
      BY <1>1, <2>1, <2>3, <3>1, FreshWhole, ReplayStep
  <2>4. QED
    BY <1>3, <2>2, <2>3 DEF Conflicted
<1>4. CASE NotAppended(r)
  <2>1. UNCHANGED <<log, call>> /\ Keeps
    BY <1>4, KeepsUnchanged DEF NotAppended
  <2>2. Return(r, "store")
    BY <1>4 DEF NotAppended, Fails
  <2>3. QED
    BY <1>1, <2>1, <2>2, ReturnReplay DEF Results
<1>5. QED
  BY <1>2, <1>3, <1>4 DEF Commit

LEMMA ReadVersionReplay ==
    ASSUME TypeOK, TypeOK', Undisturbed, VersionInv, ReplayInv, NEW r \in Repos,
           ReadVersion(r)
    PROVE  ReplayInv'
<1>1. UNCHANGED <<log, snaps, call>> /\ Keeps /\ pc[r] = "stream version"
  BY KeepsUnchanged DEF ReadVersion
<1>2. CASE /\ work' = [work EXCEPT ![r].pos = VisibleTo(r)]
           /\ Goto(r, IF VisibleTo(r) = 0 THEN "panic" ELSE "offer")
           /\ UNCHANGED ret
  <2>1. /\ Len(StreamOf(r)) > 0 /\ Len(StreamOf(r)) \in Nat
        /\ VisibleTo(r) = Len(StreamOf(r))
    <3>1. InMemory
      BY <1>1 DEF ReplayInv, Whole, Undisturbed
    <3>2. VisibleTo(r) = Len(StreamOf(r))
      BY <3>1, StreamTypes DEF ReplayInv, AllSettled, Settled, StreamOf, VisibleTo
    <3>3. QED
      BY <1>1, <3>2, StreamTypes DEF VersionInv, Versioned
  <2>2. pc'[r] = "offer" /\ \A q \in Repos \ {r} : pc'[q] = pc[q]
    BY <1>2, <2>1 DEF Goto, TypeOK
  <2>3. /\ work'[r].pos = Len(StreamOf(r))
        /\ work'[r].agg = work[r].agg /\ work'[r].batch = work[r].batch
        /\ \A q \in Repos \ {r} : work'[q] = work[q]
    BY <1>2, <2>1 DEF TypeOK, Locals
  <2>4. /\ r \in Snapshotting
        /\ work[r].agg \cup EventsOf(work[r].batch) = Upto(r, Len(StreamOf(r)))
    BY <1>1 DEF ReplayInv, Whole
  <2>5. /\ StreamOf(r)' = StreamOf(r)
        /\ Upto(r, Len(StreamOf(r)))' = Upto(r, Len(StreamOf(r)))
    BY <1>1 DEF StreamOf, Upto
  <2>6. Whole(r)'
    BY <2>1, <2>2, <2>3, <2>4, <2>5 DEF Whole, Loaded, Decided
  <2>7. QED
    BY <1>1, <1>2, <2>2, <2>3, <2>6, ReplayStep
<1>3. CASE Return(r, "store")
  BY <1>1, <1>3, ReturnReplay DEF Results
<1>4. QED
  BY <1>2, <1>3 DEF ReadVersion, Fails

LEMMA OfferReplay ==
    ASSUME TypeOK, TypeOK', Undisturbed, VersionInv, ReplayInv, NEW r \in Repos, Offer(r)
    PROVE  ReplayInv'
<1>1. UNCHANGED <<log, call>> /\ Keeps /\ pc[r] = "offer"
  BY KeepsUnchanged DEF Offer
<1>2. Return(r, "ok") \/ Return(r, "codec") \/ Return(r, "snapshot")
  BY DEF Offer, Fails
<1>3. CASE Store(r)
  <2>1. /\ work[r].pos \in 1..Len(log[call[r].s])
        /\ work[r].agg \cup EventsOf(work[r].batch) =
             Replay(log[call[r].s], EventKinds[r], 0, work[r].pos)
    <3>1. /\ work[r].pos = Len(StreamOf(r)) /\ work[r].pos > 0
          /\ work[r].agg \cup EventsOf(work[r].batch) = Upto(r, Len(StreamOf(r)))
      BY <1>1 DEF ReplayInv, Whole
    <3>2. Len(StreamOf(r)) \in Nat
      BY StreamTypes
    <3>3. QED
      BY <3>1, <3>2 DEF Upto, StreamOf
  <2>2. ASSUME NEW x \in SnapshotStores, NEW s \in Streams, snaps'[x][s] # NoSnapshot
        PROVE  /\ snaps'[x][s].pos \in 1..Len(log'[s])
               /\ snaps'[x][s].data =
                    Replay(log'[s], EventKinds[snaps'[x][s].by], 0, snaps'[x][s].pos)
    <3>1. CASE snaps'[x][s] = snaps[x][s]
      BY <1>1, <2>2, <3>1 DEF ReplayInv, SnapshotFaithful
    <3>2. CASE snaps'[x][s] # snaps[x][s]
      <4>1. /\ s = call[r].s
            /\ snaps'[x][s] =
                 SnapshotAt(work[r].pos, work[r].agg \cup EventsOf(work[r].batch), r)
        BY <1>3, <3>2 DEF Store, TypeOK
      <4>2. QED
        BY <1>1, <2>1, <4>1 DEF SnapshotAt
    <3>3. QED
      BY <3>1, <3>2
  <2>3. SnapshotFaithful'
    BY <2>2 DEF SnapshotFaithful
  <2>4. QED
    BY <1>1, <1>2, <2>3, ReturnReplay DEF Results
<1>4. CASE UNCHANGED snaps
  BY <1>1, <1>2, <1>4, ReturnReplay DEF Results
<1>5. QED
  BY <1>3, <1>4 DEF Offer

LEMMA InjectKeeps == ASSUME TypeOK, NEW r \in Repos, Inject(r) PROVE Keeps
<1>1. CASE UNCHANGED <<log, visible>>
  BY <1>1, KeepsUnchanged
<1>2. ASSUME NEW s \in Streams,
             NEW kinds \in Batches(EventKinds[r], MaxBatch) \cup {<<k>> : k \in Kinds},
             \/ AppendTo(s, Stamp(r, calls[r] + 1, kinds))
             \/ AppendLater(s, Stamp(r, calls[r] + 1, kinds)) /\ ~InMemory
      PROVE  Keeps
  BY <1>2, InjectedBatch, KeepsAppend
<1>3. "late append" \in Faults => ~InMemory
  BY StoreAssumption DEF StoreAssumption, InMemory
<1>4. QED
  BY <1>1, <1>2, <1>3 DEF Inject

LEMMA CallerReplay ==
    ASSUME TypeOK, TypeOK', Undisturbed, VersionInv, ReplayInv, NEW r \in Repos,
           Cancel(r) \/ Restart(r) \/ Inject(r)
    PROVE  ReplayInv'
<1>1. CASE Cancel(r)
  <2>1. UNCHANGED <<log, snaps, call>> /\ Keeps /\ Return(r, "cancelled")
    BY <1>1, KeepsUnchanged DEF Cancel, Fails
  <2>2. QED
    BY <2>1, ReturnReplay DEF Results
<1>2. CASE Restart(r)
  <2>1. UNCHANGED <<log, call>> /\ Keeps /\ Return(r, "cancelled")
    BY <1>2, KeepsUnchanged DEF Restart, Fails
  <2>2. \A x \in SnapshotStores, s \in Streams :
          snaps'[x][s] = snaps[x][s] \/ snaps'[x][s] = NoSnapshot
    BY <1>2 DEF Restart, TypeOK
  <2>3. SnapshotFaithful'
    BY <2>1, <2>2 DEF ReplayInv, SnapshotFaithful
  <2>4. QED
    BY <2>1, <2>3, ReturnReplay DEF Results
<1>3. CASE Inject(r)
  <2>1. UNCHANGED <<snaps, pc, call, work>> /\ pc[r] = "idle" /\ Keeps
    BY <1>3, InjectKeeps DEF Inject
  <2>2. PICK kind \in {"injected", "store", "codec"} : Reports(r, kind)
    BY <1>3 DEF Inject
  <2>3. ret'[r].kind # "loaded" /\ \A q \in Repos \ {r} : ret'[q] = ret[q]
    BY <2>2 DEF Reports, TypeOK
  <2>4. Whole(r)'
    BY <2>1, <2>3 DEF Whole, Loaded, Decided
  <2>5. QED
    BY <2>1, <2>3, <2>4, ReplayStep
<1>4. QED
  BY <1>1, <1>2, <1>3

LEMMA LandReplay ==
    ASSUME TypeOK, TypeOK', Undisturbed, VersionInv, ReplayInv, NEW s \in Streams, Land(s)
    PROVE  ReplayInv'
<1>1. UNCHANGED <<log, snaps, pc, call, work, ret>> /\ Grows
  BY GrowsLand DEF Land
<1>2. ~InMemory
  BY DEF ReplayInv, AllSettled, Land
<1>3. ASSUME NEW q \in Repos PROVE Whole(q)'
  BY <1>1, <1>2, WholeStays DEF ReplayInv
<1>4. QED
  BY <1>1, <1>2, <1>3, FaithfulStays DEF ReplayInv, InMemory

-----------------------------------------------------------------------------
\* The theorems.

LEMMA ReplayInductive ==
    ASSUME Undisturbed
    PROVE  TypeOK /\ TypeOK' /\ VersionInv /\ ReplayInv /\ [Next]_vars => ReplayInv'
<1> SUFFICES ASSUME TypeOK, TypeOK', VersionInv, ReplayInv, [Next]_vars PROVE ReplayInv'
  OBVIOUS
<1>1. CASE UNCHANGED vars
  BY <1>1 DEF vars, ReplayInv, SnapshotFaithful, Whole, Loaded, Upto, StreamOf,
               InMemory, AllSettled, Settled
<1>2. ASSUME NEW r \in Repos, Begin(r) PROVE ReplayInv'
  BY <1>2, BeginReplay
<1>3. ASSUME NEW r \in Repos, Step(r) PROVE ReplayInv'
  BY <1>3, LoadSnapshotReplay, LoadEventsReplay, HandleReplay, CommitReplay,
     ReadVersionReplay, OfferReplay DEF Step
<1>4. ASSUME NEW r \in Repos, Cancel(r) \/ Restart(r) \/ Inject(r) PROVE ReplayInv'
  BY <1>4, CallerReplay
<1>5. ASSUME NEW s \in Streams, Land(s) PROVE ReplayInv'
  BY <1>5, LandReplay
<1>6. QED
  BY <1>1, <1>2, <1>3, <1>4, <1>5 DEF Next

LEMMA ReplayHolds == ASSUME Undisturbed PROVE Spec => []ReplayInv
<1>1. Init => ReplayInv
  <2> SUFFICES ASSUME Init PROVE ReplayInv
    OBVIOUS
  <2>1. \A r \in Repos : pc[r] = "idle" /\ ret[r].kind = "none"
    BY DEF Init
  <2>2. SnapshotFaithful
    BY DEF Init, SnapshotFaithful
  <2>3. AllSettled
    BY DEF Init, AllSettled, Settled
  <2>4. QED
    BY <2>1, <2>2, <2>3 DEF ReplayInv, Whole, Loaded, Decided
<1>2. TypeOK /\ TypeOK' /\ VersionInv /\ ReplayInv /\ [Next]_vars => ReplayInv'
  BY ReplayInductive
<1>3. QED
  BY <1>1, <1>2, VersionHolds, TypeCorrect, PTL DEF Spec

\* Undisturbed, a load gives what replaying the whole stream gives.
THEOREM LoadsReplay == ASSUME Undisturbed PROVE Spec => []LoadIsReplay
<1>1. ReplayInv => LoadIsReplay
  BY DEF ReplayInv, Whole, Loaded, Decided, Upto, LoadIsReplay
<1>2. QED
  BY <1>1, ReplayHolds, PTL

\* Undisturbed, a snapshot holds exactly the events up to its position.
THEOREM SnapshotsFaithful == ASSUME Undisturbed PROVE Spec => []SnapshotFaithful
<1>1. ReplayInv => SnapshotFaithful
  BY DEF ReplayInv
<1>2. QED
  BY <1>1, ReplayHolds, PTL

\* r leaves its commit with the stream changed only by appending its batch.
LEMMA OnlyCommitsAppend ==
    ASSUME TypeOK, Next, NEW r \in Repos, Commits(r)
    PROVE  Appended(r)
<1>1. PICK q \in Repos : Begin(q) \/ Step(q) \/ Cancel(q) \/ Restart(q) \/ Inject(q)
  BY DEF Next, Land, Commits
<1>2. log' # log /\ pc' # pc /\ pc[r] = "commit" /\ pc'[r] # "commit"
  BY DEF Commits
<1>3. Commit(q)
  BY <1>1, <1>2
  DEF Begin, Step, LoadSnapshot, LoadEvents, Handle, ReadVersion, Offer, Cancel, Restart,
      Inject
<1>4. Appended(q)
  BY <1>2, <1>3 DEF Commit, Conflicted, NotAppended
<1>5. q = r
  <2>1. \A p \in Repos \ {q} : pc'[p] = pc[p]
    BY <1>4 DEF Appended, AfterCommit, Fails, Return, Goto, TypeOK
  <2>2. QED
    BY <1>2, <2>1
<1>6. QED
  BY <1>4, <1>5

\* A command whose version is accepted was decided on all the stream holds.
LEMMA DecidedWhole ==
    ASSUME TypeOK, VersionInv, ReplayInv, NEW r \in Repos, pc[r] = "commit",
           Strategy[r] = "optimistic", VersionAccepted(r)
    PROVE  work[r].agg = Replay(StreamOf(r), EventKinds[r], 0, Len(StreamOf(r)))
<1>1. Len(StreamOf(r)) \in Nat /\ work[r].version \in Nat /\ work[r].asOf \in Nat
  BY StreamTypes
<1>2. work[r].version <= work[r].asOf /\ work[r].asOf <= Len(StreamOf(r))
  BY DEF VersionInv, Versioned, Decided
<1>3. Len(StreamOf(r)) = work[r].version
  BY <1>1 DEF VersionAccepted, NoPosition
<1>4. work[r].asOf = Len(StreamOf(r))
  BY <1>1, <1>2, <1>3
<1>5. work[r].agg = Upto(r, work[r].asOf)
  BY DEF ReplayInv, Whole, Loaded, Decided
<1>6. QED
  BY <1>4, <1>5 DEF Upto

\* Undisturbed, an optimistic command is committed on the very events it was
\* decided on.
THEOREM CommandsSerialise == ASSUME Undisturbed PROVE Spec => DecidedOnCurrentState
<1>1. ASSUME TypeOK, VersionInv, ReplayInv, Next, NEW r \in Repos,
             Strategy[r] = "optimistic", Commits(r)
      PROVE  work[r].agg = Replay(StreamOf(r), EventKinds[r], 0, Len(StreamOf(r)))
  BY <1>1, OnlyCommitsAppend, DecidedWhole DEF Appended, Commits
<1>2. TypeOK /\ VersionInv /\ ReplayInv /\ [Next]_vars =>
        [\A r \in Repos : Strategy[r] = "optimistic" /\ Commits(r) =>
           work[r].agg = Replay(StreamOf(r), EventKinds[r], 0, Len(StreamOf(r)))]_vars
  BY <1>1
<1>3. QED
  BY <1>2, ReplayHolds, VersionHolds, TypeCorrect, PTL DEF Spec, DecidedOnCurrentState

-----------------------------------------------------------------------------
\* The refinement of CommandLog.

\* An operation has a call number of its own, and what it is about to append is
\* a batch that its aggregate permits.
Decision(r) ==
    \E kinds \in Batches(EventKinds[r], MaxBatch) :
        /\ Permits(work[r].agg, kinds)
        /\ work[r].batch = Stamp(r, calls[r], kinds)

Decides(r) ==
    /\ calls[r] <= MaxCalls[r]
    /\ pc[r] # "idle" => calls[r] > 0
    /\ pc[r] = "commit" => Decision(r)

DecisionInv == \A r \in Repos : Decides(r)

\* A step of r that keeps the number of its call and does not enter the commit.
LEMMA NoDecision ==
    ASSUME TypeOK, DecisionInv, NEW r \in Repos, calls'[r] = calls[r],
           pc'[r] # "commit", pc[r] # "idle" \/ pc'[r] = "idle"
    PROVE  Decides(r)'
BY DEF DecisionInv, Decides

LEMMA DecisionStep ==
    ASSUME TypeOK, DecisionInv, NEW r \in Repos, Decides(r)',
           \A q \in Repos \ {r} :
               pc'[q] = pc[q] /\ work'[q] = work[q] /\ calls'[q] = calls[q]
    PROVE  DecisionInv'
<1>1. ASSUME NEW q \in Repos PROVE Decides(q)'
  <2>1. CASE q = r
    BY <2>1
  <2>2. CASE q # r
    <3>1. Decides(q)
      BY DEF DecisionInv
    <3>2. Decision(q) => Decision(q)'
      BY <2>2 DEF Decision
    <3>3. QED
      BY <2>2, <3>1, <3>2 DEF Decides
  <2>3. QED
    BY <2>1, <2>2
<1>2. QED
  BY <1>1 DEF DecisionInv

LEMMA ReturnDecision ==
    ASSUME TypeOK, DecisionInv, NEW r \in Repos, NEW kind, Return(r, kind), UNCHANGED calls
    PROVE  DecisionInv'
<1>1. /\ pc'[r] = "idle" /\ calls'[r] = calls[r]
      /\ \A q \in Repos \ {r} :
           pc'[q] = pc[q] /\ work'[q] = work[q] /\ calls'[q] = calls[q]
  BY DEF Return, Goto, TypeOK
<1>2. QED
  BY <1>1, NoDecision, DecisionStep

LEMMA AwaitDecision ==
    ASSUME TypeOK, DecisionInv, NEW r \in Repos, NEW label \in Labels \ {"commit"},
           Goto(r, label), pc[r] # "idle", UNCHANGED calls,
           \A q \in Repos \ {r} : work'[q] = work[q]
    PROVE  DecisionInv'
<1>1. /\ pc'[r] = label /\ calls'[r] = calls[r]
      /\ \A q \in Repos \ {r} : pc'[q] = pc[q] /\ calls'[q] = calls[q]
  BY DEF Goto, TypeOK
<1>2. QED
  BY <1>1, NoDecision, DecisionStep

\* The number a call gets is within the calls that may be made.
LEMMA NextCall ==
    ASSUME TypeOK, NEW r \in Repos, calls[r] < MaxCalls[r]
    PROVE  calls[r] + 1 \in 1..MaxCalls[r]
<1>1. calls[r] \in Nat /\ MaxCalls[r] \in Nat
  BY ConfigAssumption DEF TypeOK, ConfigAssumption
<1>2. QED
  BY <1>1

LEMMA CountedDecision ==
    ASSUME TypeOK, DecisionInv, NEW r \in Repos, Begin(r) \/ Inject(r)
    PROVE  DecisionInv'
<1>1. calls[r] < MaxCalls[r] /\ calls' = [calls EXCEPT ![r] = @ + 1]
  BY DEF Begin, Inject
<1>2. calls'[r] <= MaxCalls[r] /\ calls'[r] > 0
  <2>1. calls[r] + 1 \in 1..MaxCalls[r] /\ MaxCalls[r] \in Nat
    BY <1>1, NextCall, ConfigAssumption DEF ConfigAssumption
  <2>2. calls'[r] = calls[r] + 1
    BY <1>1 DEF TypeOK
  <2>3. QED
    BY <2>1, <2>2
<1>3. pc'[r] # "commit"
  BY DEF Begin, Inject, Goto, FirstAwait, TypeOK
<1>4. \A q \in Repos \ {r} : pc'[q] = pc[q] /\ work'[q] = work[q] /\ calls'[q] = calls[q]
  BY <1>1 DEF Begin, Inject, Goto, TypeOK
<1>5. QED
  BY <1>2, <1>3, <1>4, DecisionStep DEF Decides

LEMMA LoadDecision ==
    ASSUME TypeOK, DecisionInv, NEW r \in Repos, LoadSnapshot(r) \/ LoadEvents(r)
    PROVE  DecisionInv'
<1>1. UNCHANGED calls /\ pc[r] # "idle"
  BY DEF LoadSnapshot, LoadEvents
<1>2. CASE Return(r, "projection")
  BY <1>1, <1>2, ReturnDecision
<1>3. ASSUME NEW label \in {"load events", "idle", "handle"}, Goto(r, label),
             \A q \in Repos \ {r} : work'[q] = work[q]
      PROVE  DecisionInv'
  BY <1>1, <1>3, AwaitDecision DEF Labels
<1>4. CASE RestoreSnapshot(r) \/ FallBackToReplay(r) \/ EventsLoaded(r)
  BY <1>3, <1>4 DEF RestoreSnapshot, FallBackToReplay, EventsLoaded, ApplyEvents, TypeOK
<1>5. QED
  BY <1>2, <1>4 DEF LoadSnapshot, LoadEvents, Fails

LEMMA HandleDecision ==
    ASSUME TypeOK, DecisionInv, NEW r \in Repos, Handle(r)
    PROVE  DecisionInv'
<1>1. UNCHANGED calls /\ pc[r] = "handle"
  BY DEF Handle
<1>2. CASE Return(r, "codec") \/ Return(r, "ok") \/ Return(r, "aggregate")
  BY <1>1, <1>2, ReturnDecision
<1>3. ASSUME NEW kinds \in Batches(EventKinds[r], MaxBatch), Permits(work[r].agg, kinds),
             work' = [work EXCEPT ![r].batch = Stamp(r, calls[r], kinds)],
             Goto(r, "commit")
      PROVE  DecisionInv'
  <2>1. PICK w : w = [work[r] EXCEPT !.batch = Stamp(r, calls[r], kinds)]
    OBVIOUS
  <2>2. w.batch = Stamp(r, calls[r], kinds) /\ w.agg = work[r].agg
    BY <2>1 DEF TypeOK, Locals
  <2>3. work'[r] = w /\ \A q \in Repos \ {r} : work'[q] = work[q]
    BY <1>3, <2>1 DEF TypeOK
  <2>4. pc'[r] = "commit" /\ \A q \in Repos \ {r} : pc'[q] = pc[q]
    BY <1>3 DEF Goto, TypeOK
  <2>5. Decision(r)'
    BY <1>1, <1>3, <2>2, <2>3 DEF Decision
  <2>6. Decides(r)'
    BY <1>1, <2>5 DEF DecisionInv, Decides
  <2>7. QED
    BY <1>1, <2>3, <2>4, <2>6, DecisionStep
<1>4. QED
  BY <1>2, <1>3 DEF Handle, Emit, Fails

LEMMA CommitDecision ==
    ASSUME TypeOK, DecisionInv, NEW r \in Repos, Commit(r)
    PROVE  DecisionInv'
<1>1. UNCHANGED calls /\ pc[r] = "commit"
  BY DEF Commit
<1>2. ASSUME NEW kind, Return(r, kind) PROVE DecisionInv'
  BY <1>1, <1>2, ReturnDecision
<1>3. ASSUME NEW label \in Undone \ {"commit"}, Goto(r, label),
             \A q \in Repos \ {r} : work'[q] = work[q]
      PROVE  DecisionInv'
  BY <1>1, <1>3, AwaitDecision DEF Labels, Undone
<1>4. CASE Appended(r)
  <2>1. CASE Goto(r, "stream version") /\ UNCHANGED work
    BY <1>1, <2>1, AwaitDecision DEF Labels
  <2>2. QED
    BY <1>2, <1>4, <2>1 DEF Appended, AfterCommit, Fails
<1>5. CASE Conflicted(r)
  <2>1. CASE work' = [work EXCEPT ![r] = NoWork] /\ Goto(r, FirstAwait(r))
    BY <1>3, <2>1, FirstAwaitUndone DEF TypeOK
  <2>2. QED
    BY <1>2, <1>5, <2>1 DEF Conflicted
<1>6. CASE NotAppended(r)
  BY <1>2, <1>6 DEF NotAppended, Fails
<1>7. QED
  BY <1>4, <1>5, <1>6 DEF Commit

LEMMA AfterDecision ==
    ASSUME TypeOK, DecisionInv, NEW r \in Repos,
           ReadVersion(r) \/ Offer(r) \/ Cancel(r) \/ Restart(r)
    PROVE  DecisionInv'
<1>1. UNCHANGED calls
  BY DEF ReadVersion, Offer, Cancel, Restart
<1>2. ASSUME NEW kind, Return(r, kind) PROVE DecisionInv'
  BY <1>1, <1>2, ReturnDecision
<1>3. CASE ReadVersion(r)
  <2>1. ASSUME NEW label \in {"panic", "offer"}, Goto(r, label),
               work' = [work EXCEPT ![r].pos = VisibleTo(r)]
        PROVE  DecisionInv'
    <3>1. pc[r] # "idle" /\ \A q \in Repos \ {r} : work'[q] = work[q]
      BY <1>3, <2>1 DEF ReadVersion, TypeOK
    <3>2. QED
      BY <1>1, <2>1, <3>1, AwaitDecision DEF Labels
  <2>2. QED
    BY <1>2, <1>3, <2>1 DEF ReadVersion, Fails
<1>4. CASE Offer(r) \/ Cancel(r) \/ Restart(r)
  BY <1>2, <1>4 DEF Offer, Cancel, Restart, Fails
<1>5. QED
  BY <1>3, <1>4

LEMMA DecisionHolds == Spec => []DecisionInv
<1>1. Init => DecisionInv
  BY ConfigAssumption DEF Init, DecisionInv, Decides, ConfigAssumption
<1>2. TypeOK /\ DecisionInv /\ [Next]_vars => DecisionInv'
  <2> SUFFICES ASSUME TypeOK, DecisionInv, [Next]_vars PROVE DecisionInv'
    OBVIOUS
  <2>1. CASE UNCHANGED vars
    BY <2>1 DEF vars, DecisionInv, Decides, Decision
  <2>2. ASSUME NEW r \in Repos, Begin(r) \/ Step(r) \/ Cancel(r) \/ Restart(r) \/ Inject(r)
        PROVE  DecisionInv'
    BY <2>2, CountedDecision, LoadDecision, HandleDecision, CommitDecision, AfterDecision
    DEF Step
  <2>3. ASSUME NEW s \in Streams, Land(s) PROVE DecisionInv'
    BY <2>3 DEF Land, DecisionInv, Decides, Decision
  <2>4. QED
    BY <2>1, <2>2, <2>3 DEF Next
<1>3. QED
  BY <1>1, <1>2, TypeCorrect, PTL DEF Spec

\* Nothing of a call is stored, as the abstract log says it.
LEMMA UnusedUnwritten ==
    ASSUME NEW r, NEW c, Unused(r, c)
    PROVE  Serialised!Unwritten(r, c)
BY DEF Unused, Stored, Serialised!Unwritten, Serialised!EventsOf, EventsOf

\* Appending a batch that was stamped for a call without events is a Write.
LEMMA StampedWrite ==
    ASSUME TypeOK, NEW r \in Repos, NEW s \in Streams, NEW c, NEW kinds,
           Extend(s, Stamp(r, c, kinds)), Unused(r, c)
    PROVE  Serialised!Write(r, s, c, kinds)
<1>1. Stamp(r, c, kinds) = Serialised!Stamp(r, c, kinds)
  BY DEF Stamp, Serialised!Stamp
<1>2. QED
  BY <1>1, UnusedUnwritten DEF Serialised!Write, Extend

LEMMA BatchesSerialised ==
    ASSUME NEW K, NEW max PROVE Serialised!Batches(K, max) = Batches(K, max)
BY DEF Serialised!Batches, Batches

LEMMA ReplaySerialised ==
    ASSUME NEW s, NEW K, NEW from, NEW to
    PROVE  Serialised!Replay(s, K, from, to) = Replay(s, K, from, to)
BY DEF Serialised!Replay, Serialised!Matching, Replay, Matching

Guarded == {r \in Repos : Strategy[r] = "optimistic"} \ Fixtures

LEMMA ForcedWrite ==
    ASSUME NEW r \in Repos, r \notin Guarded, NEW s \in Streams, NEW c \in 1..MaxCalls[r],
           NEW kinds \in Batches(Kinds, MaxBatch), Serialised!Write(r, s, c, kinds)
    PROVE  Serialised!Next
<1>1. kinds \in Serialised!Batches(Kinds, MaxBatch)
  BY BatchesSerialised
<1>2. Serialised!Force(r)
  BY <1>1 DEF Serialised!Force
<1>3. r \in Repos \ ({q \in Repos : Strategy[q] = "optimistic"} \ Fixtures)
  BY DEF Guarded
<1>4. QED
  BY <1>2, <1>3 DEF Serialised!Next

\* A commit that appends is one step of the abstract log.
LEMMA CommitSerialised ==
    ASSUME TypeOK, VersionInv, ReplayInv, OnceInv, DecisionInv, Undisturbed,
           NEW r \in Repos, Commit(r), Appended(r)
    PROVE  Serialised!Next
<1>1. PICK kinds \in Batches(EventKinds[r], MaxBatch) :
        Permits(work[r].agg, kinds) /\ work[r].batch = Stamp(r, calls[r], kinds)
  BY DEF Commit, DecisionInv, Decides, Decision
<1>2. PICK s, c : s = call[r].s /\ c = calls[r]
  OBVIOUS
<1>3. s \in Streams /\ c \in 1..MaxCalls[r]
  <2>1. s \in Streams
    BY <1>2, StreamTypes
  <2>2. calls[r] \in Nat /\ calls[r] <= MaxCalls[r] /\ calls[r] > 0 /\ MaxCalls[r] \in Nat
    BY ConfigAssumption DEF TypeOK, DecisionInv, Decides, Commit, ConfigAssumption
  <2>3. QED
    BY <1>2, <2>1, <2>2
<1>4. Serialised!Write(r, s, c, kinds)
  <2>1. Unused(r, c)
    BY <1>2 DEF OnceInv, OwnCall, Unused, StoredBy, Stored, Commit, Undone
  <2>2. Extend(s, Stamp(r, c, kinds))
    BY <1>1, <1>2 DEF Appended, AppendTo, AppendLater
  <2>3. QED
    BY <1>3, <2>1, <2>2, StampedWrite
<1>5. CASE r \in Guarded
  <2>1. work[r].agg = Replay(StreamOf(r), EventKinds[r], 0, Len(StreamOf(r)))
    BY <1>5, DecidedWhole DEF Guarded, Commit, Appended
  <2>2. work[r].agg = Serialised!Replay(log[s], EventKinds[r], 0, Len(log[s]))
    BY <1>2, <2>1, ReplaySerialised DEF StreamOf
  <2>3. kinds \in Serialised!Batches(EventKinds[r], MaxBatch)
    BY BatchesSerialised
  <2>4. Serialised!Decide(r)
    BY <1>1, <1>3, <1>4, <2>2, <2>3 DEF Serialised!Decide
  <2>5. QED
    BY <1>5, <2>4 DEF Guarded, Serialised!Next
<1>6. CASE r \notin Guarded
  <2>1. kinds \in Batches(Kinds, MaxBatch)
    BY BatchesMonotone, ConfigAssumption DEF ConfigAssumption
  <2>2. QED
    BY <1>3, <1>4, <1>6, <2>1, ForcedWrite
<1>7. QED
  BY <1>5, <1>6

\* So is a fixture that appends.
LEMMA InjectSerialised ==
    ASSUME TypeOK, OnceInv, NEW r \in Repos, Inject(r), log' # log
    PROVE  Serialised!Next
<1>1. PICK s \in Streams, kinds \in Batches(EventKinds[r], MaxBatch) \cup {<<k>> : k \in Kinds} :
        Extend(s, Stamp(r, calls[r] + 1, kinds))
  BY DEF Inject, AppendTo, AppendLater
<1>2. PICK c : c = calls[r] + 1
  OBVIOUS
<1>3. c \in 1..MaxCalls[r] /\ r \notin Guarded
  BY <1>2, NextCall DEF Inject, Guarded
<1>4. kinds \in Batches(Kinds, MaxBatch)
  <2>1. CASE kinds \in Batches(EventKinds[r], MaxBatch)
    BY <2>1, BatchesMonotone, ConfigAssumption DEF ConfigAssumption
  <2>2. CASE kinds \in {<<k>> : k \in Kinds}
    <3>1. PICK k \in Kinds : kinds = <<k>>
      BY <2>2
    <3>2. kinds \in [1..1 -> Kinds]
      BY <3>1
    <3>3. 1 \in 1..MaxBatch
      BY ConfigAssumption DEF ConfigAssumption
    <3>4. QED
      BY <3>2, <3>3 DEF Batches
  <2>3. QED
    BY <2>1, <2>2
<1>5. Unused(r, c)
  <2>1. \A e \in Stored : e.by \in Repos /\ e.call \in Nat /\ e.call <= calls[e.by]
    BY StoredType DEF OnceInv, Event
  <2>2. calls[r] \in Nat
    BY DEF TypeOK
  <2>3. QED
    BY <1>2, <2>1, <2>2 DEF Unused
<1>6. Serialised!Write(r, s, c, kinds)
  BY <1>1, <1>2, <1>5, StampedWrite
<1>7. QED
  BY <1>3, <1>4, <1>6, ForcedWrite

\* Undisturbed, whatever the repositories do is a run of the abstract log, in
\* which each command is decided and written in one step.
THEOREM CommandsRefine == ASSUME Undisturbed PROVE Spec => ImplementsCommandLog
<1>1. Init => Serialised!Init
  BY DEF Init, Serialised!Init
<1>2. TypeOK /\ VersionInv /\ ReplayInv /\ OnceInv /\ DecisionInv /\ [Next]_vars =>
        [Serialised!Next]_log
  <2> SUFFICES ASSUME TypeOK, VersionInv, ReplayInv, OnceInv, DecisionInv, [Next]_vars,
                      log' # log
               PROVE  Serialised!Next
    OBVIOUS
  <2>1. PICK r \in Repos : Begin(r) \/ Step(r) \/ Cancel(r) \/ Restart(r) \/ Inject(r)
    BY DEF Next, Land, vars
  <2>2. Commit(r) \/ Inject(r)
    BY <2>1
    DEF Begin, Step, LoadSnapshot, LoadEvents, Handle, ReadVersion, Offer, Cancel, Restart
  <2>3. CASE Commit(r)
    <3>1. Appended(r)
      BY <2>3 DEF Commit, Conflicted, NotAppended
    <3>2. QED
      BY <2>3, <3>1, CommitSerialised
  <2>4. QED
    BY <2>2, <2>3, InjectSerialised
<1>3. QED
  BY <1>1, <1>2, TypeCorrect, VersionHolds, ReplayHolds, OnceHolds, DecisionHolds, PTL
  DEF Spec, ImplementsCommandLog, Serialised!Spec

-----------------------------------------------------------------------------
\* The events behind a snapshot, under EveryNEvents.

LEMMA MatchingFinite ==
    ASSUME NEW s, NEW K, NEW from \in Nat, NEW to \in Nat
    PROVE  /\ IsFiniteSet(Matching(s, K, from, to))
           /\ Cardinality(Matching(s, K, from, to)) \in Nat
<1>1. IsFiniteSet((from + 1)..to)
  BY FS_Interval
<1>2. Matching(s, K, from, to) \subseteq (from + 1)..to
  BY DEF Matching
<1>3. QED
  BY <1>1, <1>2, FS_Subset, FS_CardinalityType

\* Fewer events match after a later position.
LEMMA MatchingShrinks ==
    ASSUME NEW s, NEW K, NEW from \in Nat, NEW later \in Nat, NEW to \in Nat, from <= later
    PROVE  Cardinality(Matching(s, K, later, to)) <= Cardinality(Matching(s, K, from, to))
<1>1. \A i \in (later + 1)..to : i \in (from + 1)..to
  OBVIOUS
<1>2. Matching(s, K, later, to) \subseteq Matching(s, K, from, to)
  BY <1>1 DEF Matching
<1>3. QED
  BY <1>2, MatchingFinite, FS_Subset

\* A batch of m adds at most m matching events.
LEMMA MatchingExtends ==
    ASSUME NEW s, NEW t, NEW K, NEW from \in Nat, NEW n \in Nat, NEW m \in Nat,
           \A i \in 1..n : t[i] = s[i]
    PROVE  Cardinality(Matching(t, K, from, n + m)) <=
             Cardinality(Matching(s, K, from, n)) + m
<1>1. PICK A, B : A = Matching(s, K, from, n) /\ B = (n + 1)..(n + m)
  OBVIOUS
<1>2. IsFiniteSet(A) /\ Cardinality(A) \in Nat
  BY <1>1, MatchingFinite
<1>3. IsFiniteSet(B) /\ Cardinality(B) = m
  <2>1. n + 1 \in Int /\ n + m \in Int
    OBVIOUS
  <2>2. Cardinality(B) = IF n + 1 > n + m THEN 0 ELSE (n + m) - (n + 1) + 1
    BY <1>1, <2>1, FS_Interval
  <2>3. QED
    BY <1>1, <2>1, <2>2, FS_Interval
<1>4. Matching(t, K, from, n + m) \subseteq A \cup B
  <2>1. \A i \in (from + 1)..(n + m) :
          i \in (n + 1)..(n + m) \/ (i \in (from + 1)..n /\ i \in 1..n)
    OBVIOUS
  <2>2. QED
    BY <1>1, <2>1 DEF Matching
<1>5. /\ IsFiniteSet(A \cup B)
      /\ Cardinality(A \cup B) = Cardinality(A) + Cardinality(B) - Cardinality(A \cap B)
  BY <1>2, <1>3, FS_Union
<1>6. Cardinality(A \cap B) \in Nat
  BY <1>2, FS_Intersection, FS_CardinalityType
<1>7. Cardinality(Matching(t, K, from, n + m)) <= Cardinality(A \cup B)
  BY <1>4, <1>5, FS_Subset
<1>8. Cardinality(Matching(t, K, from, n + m)) \in Nat
  BY MatchingFinite
<1>9. QED
  BY <1>1, <1>2, <1>3, <1>5, <1>6, <1>7, <1>8

\* The events of r's stream that lie behind its snapshot.
Unsaved(r) ==
    Cardinality(Matching(StreamOf(r), EventKinds[r], SnapshotOf(r).pos, Len(StreamOf(r))))

\* They are among those the operation has counted: the ones it replayed and, once
\* they are stored, the ones it emitted.
Counted(r) ==
    /\ pc[r] = "load events" => work[r].version <= SnapshotOf(r).pos
    /\ pc[r] \in Decided => Unsaved(r) <= work[r].since
    /\ pc[r] \in Done => Unsaved(r) <= work[r].since + Len(work[r].batch)

CountedInv == \A r \in Repos : Counted(r)

LEMMA PositionOf ==
    ASSUME NEW snap \in Snapshot \cup {NoSnapshot}
    PROVE  0 <= snap.pos
BY DEF Snapshot, NoSnapshot, NoPosition

LEMMA SnapshotPosition ==
    ASSUME TypeOK, NEW r \in Repos
    PROVE  /\ SnapshotOf(r).pos \in Nat
           /\ SnapshotOf(r) = NoSnapshot => SnapshotOf(r).pos = 0
<1>1. StoreOf[r] \in SnapshotStores /\ call[r].s \in Streams
  BY ConfigAssumption, StreamTypes DEF ConfigAssumption
<1>2. QED
  BY <1>1, StreamTypes DEF SnapshotOf, NoSnapshot, NoPosition

\* Nothing is counted yet at the first await, nor when the operation has returned.
LEMMA FirstCounted ==
    ASSUME TypeOK, TypeOK', NEW r \in Repos,
           \/ pc'[r] \in {"idle", "panic", "load snapshot"}
           \/ pc'[r] = "load events" /\ work'[r].version = 0
    PROVE  Counted(r)'
<1>1. PICK x, s : x = StoreOf[r] /\ s = call'[r].s
  OBVIOUS
<1>2. x \in SnapshotStores /\ s \in Streams
  BY <1>1, ConfigAssumption DEF ConfigAssumption, TypeOK, Operation
<1>3. snaps'[x][s] \in Snapshot \cup {NoSnapshot}
  BY <1>2 DEF TypeOK
<1>4. PICK snap : snap = snaps'[x][s]
  OBVIOUS
<1>5. 0 <= snap.pos
  BY <1>3, <1>4, PositionOf
<1>6. pc'[r] \notin Decided /\ pc'[r] \notin Done
  BY DEF Decided, Done
<1>7. QED
  BY <1>1, <1>4, <1>5, <1>6 DEF Counted, SnapshotOf

LEMMA ReturnCounted ==
    ASSUME TypeOK, TypeOK', NEW r \in Repos, NEW kind, Return(r, kind)
    PROVE  Counted(r)'
BY FirstCounted DEF Return, Goto, TypeOK

LEMMA RestartCounted ==
    ASSUME TypeOK, TypeOK', NEW r \in Repos, Goto(r, FirstAwait(r)),
           work' = [work EXCEPT ![r] = NoWork]
    PROVE  Counted(r)'
<1>1. pc'[r] \in {"load snapshot", "load events"}
  BY DEF Goto, FirstAwait, TypeOK
<1>2. work'[r].version = 0
  BY DEF TypeOK, NoWork, NoPosition
<1>3. QED
  BY <1>1, <1>2, FirstCounted

LEMMA LoadSnapshotCounted ==
    ASSUME TypeOK, TypeOK', VersionInv, NEW r \in Repos, LoadSnapshot(r)
    PROVE  Counted(r)'
<1>1. pc[r] = "load snapshot" /\ UNCHANGED <<snaps, call>>
  BY DEF LoadSnapshot
<1>2. CASE RestoreSnapshot(r)
  <2>1. pc'[r] = "load events" /\ SnapshotOf(r)' = SnapshotOf(r)
    BY <1>1, <1>2 DEF RestoreSnapshot, Goto, TypeOK, SnapshotOf
  <2>2. CASE SnapshotOf(r) = NoSnapshot
    <3>1. work'[r].version = 0
      BY <1>2, <2>2 DEF RestoreSnapshot, TypeOK, NoWork, NoPosition
    <3>2. QED
      BY <2>1, <3>1, FirstCounted
  <2>3. CASE SnapshotOf(r) # NoSnapshot
    <3>1. work'[r].version = SnapshotOf(r).pos
      BY <1>2, <2>3 DEF RestoreSnapshot, TypeOK, NoWork
    <3>2. PICK p : p = SnapshotOf(r).pos
      OBVIOUS
    <3>3. work'[r].version = p /\ SnapshotOf(r)'.pos = p /\ p <= p
      <4>1. p \in Nat
        BY <3>2, SnapshotPosition
      <4>2. work'[r].version = p /\ SnapshotOf(r)'.pos = p
        BY <2>1, <3>1, <3>2
      <4>3. QED
        BY <4>1, <4>2
    <3>4. QED
      BY <2>1, <3>3 DEF Counted, Decided, Done
  <2>4. QED
    BY <2>2, <2>3
<1>3. CASE FallBackToReplay(r)
  <2>1. pc'[r] = "load events" /\ work'[r].version = 0
    BY <1>1, <1>3 DEF FallBackToReplay, Goto, TypeOK, VersionInv, Versioned, NoPosition
  <2>2. QED
    BY <2>1, FirstCounted
<1>4. QED
  BY <1>2, <1>3, ReturnCounted DEF LoadSnapshot, Fails

LEMMA LoadEventsCounted ==
    ASSUME TypeOK, TypeOK', InMemory, ReplayInv, CountedInv, NEW r \in Repos,
           LoadEvents(r)
    PROVE  Counted(r)'
<1>1. pc[r] = "load events" /\ UNCHANGED <<log, snaps, call>>
  BY DEF LoadEvents
<1>2. CASE EventsLoaded(r)
  <2>1. PICK after, len : after = work[r].version /\ len = Len(StreamOf(r))
    OBVIOUS
  <2>2. after \in Nat /\ len \in Nat /\ VisibleTo(r) = len /\ SnapshotOf(r).pos \in Nat
    BY <2>1, StreamTypes, SnapshotPosition
    DEF ReplayInv, AllSettled, Settled, StreamOf, VisibleTo
  <2>3. work'[r].since = Cardinality(Matching(StreamOf(r), EventKinds[r], after, len))
    BY <1>2, <2>1, <2>2 DEF EventsLoaded, ApplyEvents, TypeOK
  <2>4. after <= SnapshotOf(r).pos
    BY <1>1, <2>1 DEF CountedInv, Counted
  <2>5. Unsaved(r) <= work'[r].since
    BY <2>1, <2>2, <2>3, <2>4, MatchingShrinks DEF Unsaved
  <2>6. Unsaved(r)' = Unsaved(r)
    BY <1>1 DEF Unsaved, StreamOf, SnapshotOf
  <2>7. pc'[r] \in {"idle", "handle"}
    BY <1>2 DEF EventsLoaded, Goto, TypeOK
  <2>8. QED
    BY <2>5, <2>6, <2>7 DEF Counted, Decided, Done
<1>3. QED
  BY <1>2, ReturnCounted DEF LoadEvents, Fails

LEMMA HandleCounted ==
    ASSUME TypeOK, TypeOK', CountedInv, NEW r \in Repos, Handle(r)
    PROVE  Counted(r)'
<1>1. pc[r] = "handle" /\ UNCHANGED <<log, snaps, call>>
  BY DEF Handle
<1>2. ASSUME NEW batch, work' = [work EXCEPT ![r].batch = batch], Goto(r, "commit")
      PROVE  Counted(r)'
  <2>1. work'[r].since = work[r].since /\ pc'[r] = "commit"
    BY <1>2 DEF TypeOK, Locals, Goto
  <2>2. Unsaved(r)' = Unsaved(r)
    BY <1>1 DEF Unsaved, StreamOf, SnapshotOf
  <2>3. QED
    BY <1>1, <2>1, <2>2 DEF CountedInv, Counted, Decided, Done
<1>3. QED
  BY <1>2, ReturnCounted DEF Handle, Emit, Fails

LEMMA CommitCounted ==
    ASSUME TypeOK, TypeOK', CountedInv, NEW r \in Repos, Commit(r)
    PROVE  Counted(r)'
<1>1. pc[r] = "commit" /\ UNCHANGED snaps
  BY DEF Commit
<1>2. CASE Appended(r)
  <2>1. UNCHANGED call /\ Extend(call[r].s, work[r].batch)
    BY <1>2 DEF Appended, AppendTo, AppendLater
  <2>2. CASE Goto(r, "stream version") /\ UNCHANGED work
    <3>1. pc'[r] = "stream version" /\ work'[r] = work[r]
      BY <2>2 DEF Goto, TypeOK
    <3>2. Unsaved(r) <= work[r].since
      BY <1>1 DEF CountedInv, Counted, Decided
    <3>3. PICK s, t, n, m, from :
            /\ s = StreamOf(r) /\ t = StreamOf(r)' /\ from = SnapshotOf(r).pos
            /\ n = Len(StreamOf(r)) /\ m = Len(work[r].batch)
      OBVIOUS
    <3>4. /\ n \in Nat /\ m \in Nat /\ from \in Nat /\ work[r].since \in Nat
          /\ call[r].s \in Streams /\ work[r].batch \in Seq(Event)
      BY <3>3, StreamTypes, SnapshotPosition, LenProperties DEF TypeOK, Locals
    <3>5. Len(t) = n + m /\ \A i \in 1..n : t[i] = s[i]
      <4>1. PICK u, batch : u = call[r].s /\ batch = work[r].batch
        OBVIOUS
      <4>2. s = log[u] /\ t = log'[u]
        BY <2>1, <3>3, <4>1 DEF StreamOf
      <4>3. u \in Streams /\ batch \in Seq(Event) /\ Extend(u, batch)
        BY <2>1, <3>4, <4>1
      <4>4. /\ Len(log'[u]) = Len(log[u]) + Len(batch)
            /\ \A i \in 1..Len(log[u]) : log'[u][i] = log[u][i]
        BY <4>3, AppendedStream
      <4>5. n = Len(log[u]) /\ m = Len(batch)
        BY <3>3, <4>1, <4>2
      <4>6. QED
        BY <4>2, <4>4, <4>5
    <3>6. Unsaved(r)' = Cardinality(Matching(t, EventKinds[r], from, n + m))
      BY <1>1, <2>1, <3>3, <3>5 DEF Unsaved, SnapshotOf
    <3>7. Unsaved(r) = Cardinality(Matching(s, EventKinds[r], from, n))
      BY <3>3 DEF Unsaved
    <3>8. /\ Unsaved(r)' <= Unsaved(r) + m
          /\ Unsaved(r) \in Nat /\ Unsaved(r)' \in Nat
      <4>1. PICK K : K = EventKinds[r]
        OBVIOUS
      <4>2. Cardinality(Matching(t, K, from, n + m)) <=
              Cardinality(Matching(s, K, from, n)) + m
        BY <3>4, <3>5, MatchingExtends
      <4>3. n + m \in Nat
        BY <3>4
      <4>4. /\ Cardinality(Matching(s, K, from, n)) \in Nat
            /\ Cardinality(Matching(t, K, from, n + m)) \in Nat
        BY <3>4, <4>3, MatchingFinite
      <4>5. QED
        BY <3>6, <3>7, <4>1, <4>2, <4>4
    <3>9. Unsaved(r)' <= work[r].since + m
      BY <3>2, <3>4, <3>8
    <3>10. QED
      BY <3>1, <3>3, <3>9 DEF Counted, Decided
  <2>3. QED
    BY <1>2, <2>2, ReturnCounted DEF Appended, AfterCommit, Fails
<1>3. CASE Conflicted(r)
  BY <1>3, ReturnCounted, RestartCounted DEF Conflicted
<1>4. QED
  BY <1>2, <1>3, ReturnCounted DEF Commit, NotAppended, Fails

LEMMA ReadVersionCounted ==
    ASSUME TypeOK, TypeOK', CountedInv, NEW r \in Repos, ReadVersion(r)
    PROVE  Counted(r)'
<1>1. pc[r] = "stream version" /\ UNCHANGED <<log, snaps, call>>
  BY DEF ReadVersion
<1>2. CASE /\ work' = [work EXCEPT ![r].pos = VisibleTo(r)]
           /\ Goto(r, IF VisibleTo(r) = 0 THEN "panic" ELSE "offer")
  <2>1. work'[r].since = work[r].since /\ work'[r].batch = work[r].batch
    BY <1>2 DEF TypeOK, Locals
  <2>2. pc'[r] \in {"panic", "offer"}
    BY <1>2 DEF Goto, TypeOK
  <2>3. Unsaved(r)' = Unsaved(r)
    BY <1>1 DEF Unsaved, StreamOf, SnapshotOf
  <2>4. QED
    BY <1>1, <2>1, <2>2, <2>3 DEF CountedInv, Counted, Decided, Done
<1>3. QED
  BY <1>2, ReturnCounted DEF ReadVersion, Fails

LEMMA OthersCounted ==
    ASSUME TypeOK, TypeOK', NEW r \in Repos,
           Begin(r) \/ Offer(r) \/ Cancel(r) \/ Restart(r) \/ Inject(r)
    PROVE  Counted(r)'
<1>1. CASE Begin(r)
  BY <1>1, RestartCounted DEF Begin
<1>2. CASE Offer(r) \/ Cancel(r) \/ Restart(r)
  BY <1>2, ReturnCounted DEF Offer, Cancel, Restart, Fails
<1>3. CASE Inject(r)
  BY <1>3, FirstCounted DEF Inject
<1>4. QED
  BY <1>1, <1>2, <1>3

LEMMA CountedHolds == ASSUME InMemory PROVE Spec => []CountedInv
<1>1. Undisturbed
  BY DEF Undisturbed
<1>2. Init => CountedInv
  BY DEF Init, CountedInv, Counted, Decided, Done
<1>3. TypeOK /\ TypeOK' /\ VersionInv /\ ReplayInv /\ CountedInv /\ [Next]_vars => CountedInv'
  <2> SUFFICES ASSUME TypeOK, TypeOK', VersionInv, ReplayInv, CountedInv, [Next]_vars
               PROVE  CountedInv'
    OBVIOUS
  <2>1. CASE UNCHANGED vars
    BY <2>1 DEF vars, CountedInv, Counted, Unsaved, StreamOf, SnapshotOf
  <2>2. ASSUME NEW r \in Repos, Begin(r) \/ Step(r) \/ Cancel(r) \/ Restart(r) \/ Inject(r)
        PROVE  CountedInv'
    <3>1. Counted(r)'
      BY <2>2, LoadSnapshotCounted, LoadEventsCounted, HandleCounted, CommitCounted,
         ReadVersionCounted, OthersCounted DEF Step
    <3>2. \A q \in Repos : q = r
      BY OneRepository
    <3>3. QED
      BY <3>1, <3>2 DEF CountedInv
  <2>3. ASSUME NEW s \in Streams, Land(s) PROVE FALSE
    BY <2>3 DEF Land, ReplayInv, AllSettled
  <2>4. QED
    BY <2>1, <2>2, <2>3 DEF Next
<1>4. QED
  BY <1>1, <1>2, <1>3, TypeCorrect, VersionHolds, ReplayHolds, PTL DEF Spec

\* An offer that succeeds leaves fewer than N events behind the snapshot.
LEMMA OfferBounds ==
    ASSUME TypeOK, ReplayInv, CountedInv, NEW r \in Repos, Policy[r] = "every", Offer(r),
           ret'[r].kind = "ok"
    PROVE  Cardinality(Matching(StreamOf(r), EventKinds[r],
                                snaps'[StoreOf[r]][call[r].s].pos, Len(StreamOf(r))))
             < (IF Threshold = 0 THEN 1 ELSE Threshold)
<1>1. pc[r] = "offer" /\ Threshold \in Nat
  BY ConfigAssumption DEF Offer, ConfigAssumption
<1>2. CASE ~ShouldSnapshot(r) /\ UNCHANGED snaps
  <2>1. work[r].since + Len(work[r].batch) < Threshold
    <3>1. work[r].since \in Nat /\ Len(work[r].batch) \in Nat
      BY StreamTypes, LenProperties DEF TypeOK, Locals
    <3>2. ~(work[r].since + Len(work[r].batch) >= Threshold)
      BY <1>2 DEF ShouldSnapshot
    <3>3. QED
      BY <1>1, <3>1, <3>2
  <2>2. Unsaved(r) <= work[r].since + Len(work[r].batch)
    BY <1>1 DEF CountedInv, Counted, Done
  <2>3. Unsaved(r) \in Nat /\ work[r].since \in Nat /\ Len(work[r].batch) \in Nat
    BY MatchingFinite, SnapshotPosition, StreamTypes, LenProperties DEF Unsaved, TypeOK, Locals
  <2>4. Unsaved(r) < Threshold
    BY <1>1, <2>1, <2>2, <2>3
  <2>5. Unsaved(r) =
          Cardinality(Matching(StreamOf(r), EventKinds[r],
                               snaps'[StoreOf[r]][call[r].s].pos, Len(StreamOf(r))))
    BY <1>2 DEF Unsaved, SnapshotOf
  <2>6. QED
    BY <1>1, <2>3, <2>4, <2>5
<1>3. CASE Store(r)
  <2>1. StoreOf[r] \in SnapshotStores /\ call[r].s \in Streams /\ Len(StreamOf(r)) \in Nat
    BY ConfigAssumption, StreamTypes DEF ConfigAssumption
  <2>2. snaps'[StoreOf[r]][call[r].s].pos = Len(StreamOf(r))
    <3>1. snaps'[StoreOf[r]][call[r].s] =
            SnapshotAt(work[r].pos, work[r].agg \cup EventsOf(work[r].batch), r)
      BY <1>3, <2>1 DEF Store, TypeOK
    <3>2. work[r].pos = Len(StreamOf(r))
      BY <1>1 DEF ReplayInv, Whole
    <3>3. QED
      BY <3>1, <3>2 DEF SnapshotAt
  <2>3. Matching(StreamOf(r), EventKinds[r], Len(StreamOf(r)), Len(StreamOf(r))) = {}
    BY <2>1 DEF Matching
  <2>4. Cardinality({}) = 0
    BY FS_EmptySet
  <2>5. QED
    BY <1>1, <2>2, <2>3, <2>4
<1>4. Return(r, "codec") \/ Return(r, "snapshot") => ret'[r].kind # "ok"
  BY DEF Return, TypeOK
<1>5. QED
  BY <1>2, <1>3, <1>4 DEF Offer, Fails

\* Only r's offer ends its operation from there with success.
LEMMA OnlyOffers ==
    ASSUME TypeOK, Next, NEW r \in Repos, pc[r] = "offer", pc'[r] = "idle",
           ret'[r].kind = "ok"
    PROVE  Offer(r)
<1>1. PICK q \in Repos : Begin(q) \/ Step(q) \/ Cancel(q) \/ Restart(q) \/ Inject(q)
  BY DEF Next, Land
<1>2. q = r
  <2>1. \A p \in Repos \ {q} : pc'[p] = pc[p]
    BY <1>1
    DEF Begin, Step, LoadSnapshot, RestoreSnapshot, FallBackToReplay, LoadEvents,
        EventsLoaded, Handle, Emit, Commit, Appended, AfterCommit, Conflicted, NotAppended,
        ReadVersion, Offer, Cancel, Restart, Inject, Fails, Return, Goto, TypeOK
  <2>2. QED
    BY <2>1
<1>3. ~(Begin(r) \/ LoadSnapshot(r) \/ LoadEvents(r) \/ Handle(r) \/ Commit(r)
          \/ ReadVersion(r) \/ Inject(r))
  BY DEF Begin, LoadSnapshot, LoadEvents, Handle, Commit, ReadVersion, Inject
<1>4. ~(Cancel(r) \/ Restart(r))
  BY DEF Cancel, Restart, Fails, Return, TypeOK
<1>5. QED
  BY <1>1, <1>2, <1>3, <1>4 DEF Step

\* Undisturbed, a successful command under EveryNEvents(N) leaves fewer than N
\* events behind the snapshot, whatever the policy refused or a store lost before.
THEOREM ReplayBounded == ASSUME Undisturbed PROVE Spec => BoundedReplay
<1>1. CASE InMemory
  <2>1. TypeOK /\ ReplayInv /\ CountedInv /\ [Next]_vars =>
          [\A r \in Repos :
             (Policy[r] = "every" /\ pc[r] = "offer" /\ pc'[r] = "idle" /\ ret'[r].kind = "ok") =>
               Cardinality(Matching(StreamOf(r), EventKinds[r],
                                    snaps'[StoreOf[r]][call[r].s].pos, Len(StreamOf(r))))
                 < (IF Threshold = 0 THEN 1 ELSE Threshold)]_vars
    BY OnlyOffers, OfferBounds
  <2>2. QED
    BY <1>1, <2>1, TypeCorrect, ReplayHolds, CountedHolds, PTL DEF Spec, BoundedReplay
<1>2. CASE ~InMemory
  <2>1. \A r \in Repos : Policy[r] # "every"
    BY <1>2 DEF Undisturbed, Snapshotting
  <2>2. [Next]_vars =>
          [\A r \in Repos :
             (Policy[r] = "every" /\ pc[r] = "offer" /\ pc'[r] = "idle" /\ ret'[r].kind = "ok") =>
               Cardinality(Matching(StreamOf(r), EventKinds[r],
                                    snaps'[StoreOf[r]][call[r].s].pos, Len(StreamOf(r))))
                 < (IF Threshold = 0 THEN 1 ELSE Threshold)]_vars
    BY <2>1
  <2>3. QED
    BY <2>2, PTL DEF Spec, BoundedReplay
<1>3. QED
  BY <1>1, <1>2
=============================================================================
