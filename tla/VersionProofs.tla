---------------------------- MODULE VersionProofs ----------------------------
(***************************************************************************)
(* What an operation knows of its stream stays true of a prefix of it: the *)
(* version it expects, the position it snapshots at.  So the expect after  *)
(* the commit never fires, and where all builds know all event kinds a     *)
(* conflict always has a cause.                                            *)
(***************************************************************************)
EXTENDS RepositoryProofs

\* Where an operation that has loaded its aggregate is.
Decided == {"handle", "commit"}

Versioned(r) ==
    /\ pc[r] = "load snapshot" => work[r].version = NoPosition
    /\ pc[r] = "load events" => work[r].version <= Len(StreamOf(r))
    /\ pc[r] \in Decided =>
         /\ work[r].version <= work[r].asOf
         /\ work[r].asOf <= Len(StreamOf(r))
         /\ \A i \in (work[r].version + 1)..work[r].asOf :
              StreamOf(r)[i].kind \notin EventKinds[r]
    /\ pc[r] = "commit" => Len(work[r].batch) > 0
    /\ pc[r] = "stream version" => VisibleTo(r) > 0
    /\ pc[r] = "offer" => work[r].pos <= Len(StreamOf(r))
    /\ pc[r] # "panic"

SnapshotsBehind ==
    \A x \in SnapshotStores, s \in Streams : snaps[x][s].pos <= Len(log[s])

VersionInv == SnapshotsBehind /\ \A r \in Repos : Versioned(r)

\* Streams only ever grow at their end, and so does what is visible of them.
Grows ==
    \A s \in Streams :
        /\ visible[s] <= visible'[s]
        /\ Len(log[s]) <= Len(log'[s])
        /\ \A i \in 1..Len(log[s]) : log'[s][i] = log[s][i]

LEMMA StreamTypes ==
    ASSUME TypeOK
    PROVE  /\ \A s \in Streams : log[s] \in Seq(Event) /\ Len(log[s]) \in Nat
           /\ \A s \in Streams : visible[s] \in Nat /\ visible[s] <= Len(log[s])
           /\ \A r \in Repos : /\ call[r].s \in Streams
                               /\ StreamOf(r) \in Seq(Event) /\ Len(StreamOf(r)) \in Nat
                               /\ VisibleTo(r) \in Nat /\ VisibleTo(r) <= Len(StreamOf(r))
                               /\ work[r].version \in Nat /\ work[r].asOf \in Nat
                               /\ work[r].pos \in Nat /\ work[r].batch \in Seq(Event)
           /\ \A x \in SnapshotStores, s \in Streams : snaps[x][s].pos \in Nat
<1>1. \A s \in Streams : log[s] \in Seq(Event) /\ Len(log[s]) \in Nat
  BY LenProperties DEF TypeOK
<1>2. \A r \in Repos : call[r].s \in Streams
  BY DEF TypeOK, Operation
<1>3. \A r \in Repos : /\ work[r].version \in Nat /\ work[r].asOf \in Nat
                       /\ work[r].pos \in Nat /\ work[r].batch \in Seq(Event)
  BY DEF TypeOK, Locals
<1>4. \A x \in SnapshotStores, s \in Streams : snaps[x][s].pos \in Nat
  BY DEF TypeOK, Snapshot, NoSnapshot, NoPosition
<1>5. \A s \in Streams : visible[s] \in Nat /\ visible[s] <= Len(log[s])
  BY DEF TypeOK
<1>6. QED
  BY <1>1, <1>2, <1>3, <1>4, <1>5 DEF StreamOf, VisibleTo

LEMMA GrowsUnchanged == ASSUME TypeOK, UNCHANGED <<log, visible>> PROVE Grows
BY StreamTypes DEF Grows

LEMMA GrowsAppend ==
    ASSUME TypeOK, NEW s \in Streams, NEW batch \in Seq(Event),
           AppendTo(s, batch) \/ AppendLater(s, batch)
    PROVE  Grows /\ Extend(s, batch) /\ Len(log'[s]) = Len(log[s]) + Len(batch)
<1>0. Extend(s, batch)
  BY DEF AppendTo, AppendLater
<1>1. ASSUME NEW t \in Streams
      PROVE  /\ Len(log[t]) <= Len(log'[t])
             /\ \A i \in 1..Len(log[t]) : log'[t][i] = log[t][i]
  <2>1. CASE t = s
    BY <1>0, <2>1, AppendedStream
  <2>2. CASE t # s
    BY <1>0, <2>2, AppendedStream
  <2>3. QED
    BY <2>1, <2>2
<1>2. ASSUME NEW t \in Streams PROVE visible[t] <= visible'[t]
  <2>1. /\ visible[s] \in Nat /\ visible[s] <= Len(log[s])
        /\ Len(log[s]) \in Nat /\ Len(batch) \in Nat /\ visible[t] \in Nat
    BY StreamTypes, LenProperties
  <2>2. visible'[t] \in {visible[t], Len(log[s]) + Len(batch)} /\ (t # s => visible'[t] = visible[t])
    BY DEF AppendTo, AppendLater, TypeOK
  <2>3. QED
    BY <2>1, <2>2
<1>3. QED
  BY <1>0, <1>1, <1>2, AppendedStream DEF Grows

LEMMA GrowsLand == ASSUME TypeOK, NEW s \in Streams, Land(s) PROVE Grows
<1>1. ASSUME NEW t \in Streams PROVE visible[t] <= visible'[t]
  <2>1. visible[t] \in Nat /\ visible[t] <= Len(log[t])
    BY StreamTypes
  <2>2. visible'[t] \in {visible[t], Len(log[t])}
    BY DEF Land, TypeOK
  <2>3. QED
    BY <2>1, <2>2
<1>2. QED
  BY <1>1, StreamTypes DEF Land, Grows

LEMMA SnapshotsStay ==
    ASSUME TypeOK, SnapshotsBehind, Grows, UNCHANGED snaps, TypeOK'
    PROVE  SnapshotsBehind'
<1>1. ASSUME NEW x \in SnapshotStores, NEW s \in Streams
      PROVE  snaps'[x][s].pos <= Len(log'[s])
  <2>1. snaps[x][s].pos <= Len(log[s]) /\ Len(log[s]) <= Len(log'[s])
    BY DEF SnapshotsBehind, Grows
  <2>2. snaps[x][s].pos \in Nat /\ Len(log[s]) \in Nat /\ Len(log'[s]) \in Nat
    BY StreamTypes, LenProperties DEF TypeOK
  <2>3. QED
    BY <2>1, <2>2
<1>2. QED
  BY <1>1 DEF SnapshotsBehind

\* What r's operation knows survives a step that leaves its locals alone.
LEMMA VersionedStays ==
    ASSUME TypeOK, TypeOK', NEW q \in Repos, Versioned(q), Grows,
           pc'[q] = pc[q], work'[q] = work[q], call'[q] = call[q]
    PROVE  Versioned(q)'
<1>1. /\ StreamOf(q)' = log'[call[q].s]
      /\ StreamOf(q) = log[call[q].s]
      /\ call[q].s \in Streams
  BY StreamTypes DEF StreamOf
<1>2. /\ Len(StreamOf(q)) <= Len(StreamOf(q)')
      /\ \A i \in 1..Len(StreamOf(q)) : StreamOf(q)'[i] = StreamOf(q)[i]
  BY <1>1 DEF Grows
<1>3. /\ Len(StreamOf(q)) \in Nat /\ Len(StreamOf(q)') \in Nat
      /\ work[q].version \in Nat /\ work[q].asOf \in Nat /\ work[q].pos \in Nat
  BY <1>1, StreamTypes, LenProperties DEF TypeOK
<1>4. pc[q] \in Decided =>
        /\ work[q].version <= work[q].asOf /\ work[q].asOf <= Len(StreamOf(q))
        /\ \A i \in (work[q].version + 1)..work[q].asOf :
             StreamOf(q)[i].kind \notin EventKinds[q]
  BY DEF Versioned
<1>5. pc[q] \in Decided =>
        /\ work[q].version <= work[q].asOf /\ work[q].asOf <= Len(StreamOf(q)')
        /\ \A i \in (work[q].version + 1)..work[q].asOf :
             StreamOf(q)'[i].kind \notin EventKinds[q]
  <2> SUFFICES ASSUME pc[q] \in Decided
               PROVE  /\ work[q].asOf <= Len(StreamOf(q)')
                      /\ \A i \in (work[q].version + 1)..work[q].asOf :
                           StreamOf(q)'[i].kind \notin EventKinds[q]
    BY <1>4
  <2>1. \A i \in (work[q].version + 1)..work[q].asOf : i \in 1..Len(StreamOf(q))
    BY <1>3, <1>4
  <2>2. QED
    BY <1>2, <1>3, <1>4, <2>1
<1>6. /\ pc[q] = "load events" => work[q].version <= Len(StreamOf(q))
      /\ pc[q] = "stream version" => VisibleTo(q) > 0
      /\ pc[q] = "offer" => work[q].pos <= Len(StreamOf(q))
  BY DEF Versioned
<1>7. \A n \in Nat : n <= Len(StreamOf(q)) => n <= Len(StreamOf(q)')
  BY <1>2, <1>3
<1>8. /\ pc[q] = "load events" => work[q].version <= Len(StreamOf(q)')
      /\ pc[q] = "stream version" => VisibleTo(q)' > 0
      /\ pc[q] = "offer" => work[q].pos <= Len(StreamOf(q)')
  <2>1. VisibleTo(q) > 0 => VisibleTo(q)' > 0
    <3>1. /\ VisibleTo(q) = visible[call[q].s] /\ VisibleTo(q)' = visible'[call[q].s]
          /\ visible[call[q].s] <= visible'[call[q].s]
      BY <1>1 DEF VisibleTo, Grows
    <3>2. visible[call[q].s] \in Nat /\ visible'[call[q].s] \in Nat
      BY <1>1 DEF TypeOK
    <3>3. QED
      BY <3>1, <3>2
  <2>2. QED
    BY <1>3, <1>6, <1>7, <2>1
<1>9. QED
  BY <1>5, <1>8 DEF Versioned

\* A step of r: it is enough to look at r, and at the snapshots.
LEMMA VersionStep ==
    ASSUME TypeOK, TypeOK', VersionInv, NEW r \in Repos, Grows,
           \A q \in Repos \ {r} : pc'[q] = pc[q] /\ work'[q] = work[q] /\ call'[q] = call[q],
           Versioned(r)', UNCHANGED snaps \/ SnapshotsBehind'
    PROVE  VersionInv'
<1>1. ASSUME NEW q \in Repos PROVE Versioned(q)'
  <2>1. CASE q = r
    BY <2>1
  <2>2. CASE q # r
    BY <2>2, VersionedStays DEF VersionInv
  <2>3. QED
    BY <2>1, <2>2
<1>2. SnapshotsBehind'
  BY SnapshotsStay DEF VersionInv
<1>3. QED
  BY <1>1, <1>2 DEF VersionInv

LEMMA ReturnVersion ==
    ASSUME TypeOK, TypeOK', VersionInv, NEW r \in Repos, NEW kind, Return(r, kind), Grows,
           UNCHANGED call, UNCHANGED snaps \/ SnapshotsBehind'
    PROVE  VersionInv'
<1>1. /\ pc'[r] = "idle"
      /\ \A q \in Repos \ {r} : pc'[q] = pc[q] /\ work'[q] = work[q]
  BY DEF Return, Goto, TypeOK
<1>2. Versioned(r)'
  BY <1>1 DEF Versioned, Decided
<1>3. QED
  BY <1>1, <1>2, VersionStep

\* Starting, or starting again: nothing has been loaded.
LEMMA FreshVersion ==
    ASSUME TypeOK, TypeOK', NEW r \in Repos, Goto(r, FirstAwait(r)),
           work' = [work EXCEPT ![r] = NoWork]
    PROVE  /\ Versioned(r)'
           /\ \A q \in Repos \ {r} : pc'[q] = pc[q] /\ work'[q] = work[q]
<1>1. /\ pc'[r] \in {"load snapshot", "load events"}
      /\ work'[r].version = 0
      /\ \A q \in Repos \ {r} : pc'[q] = pc[q] /\ work'[q] = work[q]
  BY DEF Goto, FirstAwait, TypeOK, NoWork, NoPosition
<1>2. 0 <= Len(StreamOf(r)')
  <2>1. log'[call'[r].s] \in Seq(Event)
    BY DEF TypeOK, Operation
  <2>2. QED
    BY <2>1, LenProperties DEF StreamOf
<1>3. QED
  BY <1>1, <1>2 DEF Versioned, Decided, NoPosition

-----------------------------------------------------------------------------
\* The actions.

LEMMA BeginVersion ==
    ASSUME TypeOK, TypeOK', VersionInv, NEW r \in Repos, Begin(r)
    PROVE  VersionInv'
<1>1. /\ Goto(r, FirstAwait(r))
      /\ work' = [work EXCEPT ![r] = NoWork]
      /\ UNCHANGED <<log, visible, snaps>>
      /\ \A q \in Repos \ {r} : call'[q] = call[q]
  BY DEF Begin, TypeOK
<1>2. QED
  BY <1>1, FreshVersion, GrowsUnchanged, VersionStep

LEMMA LoadSnapshotVersion ==
    ASSUME TypeOK, TypeOK', VersionInv, NEW r \in Repos, LoadSnapshot(r)
    PROVE  VersionInv'
<1>1. UNCHANGED <<log, snaps, call>> /\ Grows /\ pc[r] = "load snapshot"
  BY GrowsUnchanged DEF LoadSnapshot
<1>2. CASE RestoreSnapshot(r)
  <2>1. /\ pc'[r] = "load events"
        /\ \A q \in Repos \ {r} : pc'[q] = pc[q] /\ work'[q] = work[q]
    BY <1>2 DEF RestoreSnapshot, Goto, TypeOK
  <2>2. work'[r].version = 0 \/ work'[r].version = SnapshotOf(r).pos
    BY <1>2 DEF RestoreSnapshot, TypeOK, NoWork, NoPosition
  <2>3. 0 <= Len(StreamOf(r)) /\ SnapshotOf(r).pos <= Len(StreamOf(r))
    BY StreamTypes, ConfigAssumption
    DEF ConfigAssumption, VersionInv, SnapshotsBehind, SnapshotOf, StreamOf
  <2>4. Versioned(r)'
    BY <1>1, <2>1, <2>2, <2>3 DEF Versioned, Decided, StreamOf
  <2>5. QED
    BY <1>1, <2>1, <2>4, VersionStep
<1>3. CASE FallBackToReplay(r)
  <2>1. /\ pc'[r] = "load events" /\ work' = work
        /\ \A q \in Repos \ {r} : pc'[q] = pc[q]
    BY <1>3 DEF FallBackToReplay, Goto, TypeOK
  <2>2. work[r].version = 0
    BY <1>1 DEF VersionInv, Versioned, NoPosition
  <2>3. StreamOf(r)' = StreamOf(r) /\ 0 <= Len(StreamOf(r))
    <3>1. Len(StreamOf(r)) \in Nat
      BY StreamTypes
    <3>2. StreamOf(r)' = StreamOf(r)
      BY <1>1 DEF StreamOf
    <3>3. QED
      BY <3>1, <3>2
  <2>4. Versioned(r)'
    BY <2>1, <2>2, <2>3 DEF Versioned, Decided
  <2>5. QED
    BY <1>1, <2>1, <2>4, VersionStep
<1>4. CASE Return(r, "projection")
  BY <1>1, <1>4, ReturnVersion
<1>5. QED
  BY <1>2, <1>3, <1>4 DEF LoadSnapshot, Fails

\* What ApplyEvents leaves in the locals.
LEMMA LastMatchBounds ==
    ASSUME NEW stream \in Seq(Event), NEW K, NEW from \in Nat, NEW to \in Nat, from <= to,
           NEW v \in from..to, IsLastMatch(v, stream, K, from, to)
    PROVE  v <= to /\ \A i \in (v + 1)..to : stream[i].kind \notin K
<1>1. ASSUME NEW i \in (v + 1)..to, stream[i].kind \in K PROVE FALSE
  <2>1. i \in (from + 1)..to
    OBVIOUS
  <2>2. i \in Matching(stream, K, from, to)
    BY <1>1, <2>1 DEF Matching
  <2>3. i <= v
    BY <2>2 DEF IsLastMatch
  <2>4. QED
    BY <2>3
<1>2. QED
  BY <1>1

LEMMA LoadEventsVersion ==
    ASSUME TypeOK, TypeOK', VersionInv, NEW r \in Repos, LoadEvents(r)
    PROVE  VersionInv'
<1>1. UNCHANGED <<log, snaps, call>> /\ Grows /\ pc[r] = "load events"
  BY GrowsUnchanged DEF LoadEvents
<1>2. CASE EventsLoaded(r)
  <2> DEFINE stream == StreamOf(r)
             after  == work[r].version
             len    == VisibleTo(r)
             K      == EventKinds[r]
  <2>1. /\ stream \in Seq(Event) /\ Len(stream) \in Nat
        /\ after \in Nat /\ len \in Nat /\ len <= Len(stream)
    BY StreamTypes
  <2>2. PICK v \in after..len :
          /\ IsLastMatch(v, stream, K, after, len)
          /\ work' = [work EXCEPT ![r] =
               [agg     |-> work[r].agg \cup Replay(stream, K, after, len),
                version |-> v,
                since   |-> Cardinality(Matching(stream, K, after, len)),
                batch   |-> <<>>,
                pos     |-> NoPosition,
                asOf    |-> len]]
    BY <1>2 DEF EventsLoaded, ApplyEvents
  <2>3. /\ work'[r].version = v /\ work'[r].asOf = len
        /\ \A q \in Repos \ {r} : work'[q] = work[q]
    BY <2>2 DEF TypeOK
  <2> HIDE DEF len
  <2>4. v <= len /\ \A i \in (v + 1)..len : stream[i].kind \notin K
    <3>1. after <= len
      BY <2>1, <2>2
    <3>2. QED
      BY <2>1, <2>2, <3>1, LastMatchBounds
  <2>5. /\ pc'[r] \in {"idle", "handle"}
        /\ \A q \in Repos \ {r} : pc'[q] = pc[q]
    BY <1>2 DEF EventsLoaded, Goto, TypeOK
  <2>6. StreamOf(r)' = stream
    BY <1>1 DEF StreamOf
  <2> HIDE DEF stream, K
  <2>7. Versioned(r)'
    BY <2>1, <2>3, <2>4, <2>5, <2>6 DEF Versioned, Decided, K
  <2>8. QED
    BY <1>1, <2>3, <2>5, <2>7, VersionStep
<1>3. CASE Return(r, "projection")
  BY <1>1, <1>3, ReturnVersion
<1>4. QED
  BY <1>2, <1>3 DEF LoadEvents, Fails

LEMMA HandleVersion ==
    ASSUME TypeOK, TypeOK', VersionInv, NEW r \in Repos, Handle(r)
    PROVE  VersionInv'
<1>1. UNCHANGED <<log, snaps, call>> /\ Grows /\ pc[r] = "handle"
  BY GrowsUnchanged DEF Handle
<1>2. ASSUME NEW kinds \in Batches(EventKinds[r], MaxBatch),
             work' = [work EXCEPT ![r].batch = Stamp(r, calls[r], kinds)],
             Goto(r, "commit")
      PROVE  VersionInv'
  <2>1. kinds \in Batches(Kinds, MaxBatch)
    BY BatchesMonotone, ConfigAssumption DEF ConfigAssumption
  <2>2. Len(Stamp(r, calls[r], kinds)) > 0
    BY <2>1, StampType DEF TypeOK
  <2>3. /\ work'[r].batch = Stamp(r, calls[r], kinds)
        /\ work'[r].version = work[r].version /\ work'[r].asOf = work[r].asOf
        /\ \A q \in Repos \ {r} : work'[q] = work[q]
    BY <1>2 DEF TypeOK, Locals
  <2>4. pc'[r] = "commit" /\ \A q \in Repos \ {r} : pc'[q] = pc[q]
    BY <1>2 DEF Goto, TypeOK
  <2>5. Versioned(r)'
    BY <1>1, <2>2, <2>3, <2>4 DEF VersionInv, Versioned, Decided, StreamOf
  <2>6. QED
    BY <1>1, <2>3, <2>4, <2>5, VersionStep
<1>3. CASE Return(r, "codec") \/ Return(r, "ok") \/ Return(r, "aggregate")
  BY <1>1, <1>3, ReturnVersion
<1>4. QED
  BY <1>2, <1>3 DEF Handle, Emit, Fails

LEMMA CommitVersion ==
    ASSUME TypeOK, TypeOK', VersionInv, NEW r \in Repos, Commit(r)
    PROVE  VersionInv'
<1>1. UNCHANGED snaps /\ pc[r] = "commit"
  BY DEF Commit
<1>2. CASE Appended(r)
  <2>1. /\ \/ AppendTo(call[r].s, work[r].batch)
           \/ AppendLater(call[r].s, work[r].batch)
        /\ UNCHANGED call
        /\ work[r].batch \in Seq(Event) /\ call[r].s \in Streams
    BY <1>2, StreamTypes DEF Appended
  <2>2. Grows
    BY <2>1, GrowsAppend
  <2>3. CASE AppendTo(call[r].s, work[r].batch) /\ Goto(r, "stream version") /\ UNCHANGED work
    <3>1. pc'[r] = "stream version" /\ \A q \in Repos \ {r} : pc'[q] = pc[q]
      BY <2>3 DEF Goto, TypeOK
    <3>2. Len(work[r].batch) > 0 /\ Len(work[r].batch) \in Nat
      BY <1>1, <2>1, LenProperties DEF VersionInv, Versioned
    <3>3. VisibleTo(r)' > 0
      <4>1. VisibleTo(r)' = Len(log[call[r].s]) + Len(work[r].batch)
        BY <2>1, <2>3 DEF VisibleTo, AppendTo, TypeOK
      <4>2. Len(log[call[r].s]) \in Nat
        BY <2>1, StreamTypes
      <4>3. ASSUME NEW a \in Nat, NEW b \in Nat, b > 0 PROVE a + b > 0
        BY <4>3
      <4>4. Len(log[call[r].s]) + Len(work[r].batch) > 0
        BY <3>2, <4>2, <4>3
      <4>5. QED
        BY <4>1, <4>4
    <3>4. Versioned(r)'
      BY <3>1, <3>3 DEF Versioned, Decided
    <3>5. QED
      BY <1>1, <2>1, <2>2, <2>3, <3>1, <3>4, VersionStep
  <2>4. CASE Return(r, "ok") \/ Return(r, "store") \/ Return(r, "cancelled")
    BY <1>1, <2>1, <2>2, <2>4, ReturnVersion
  <2>5. QED
    BY <1>2, <2>3, <2>4 DEF Appended, AfterCommit, Fails
<1>3. CASE Conflicted(r)
  <2>1. UNCHANGED <<log, visible>> /\ Grows
    BY <1>3, GrowsUnchanged DEF Conflicted
  <2>2. CASE Return(r, "concurrency") /\ UNCHANGED call
    BY <1>1, <2>1, <2>2, ReturnVersion
  <2>3. CASE /\ call' = [call EXCEPT ![r].attempt = @ + 1]
             /\ work' = [work EXCEPT ![r] = NoWork]
             /\ Goto(r, FirstAwait(r))
    <3>1. \A q \in Repos \ {r} : call'[q] = call[q]
      BY <2>3 DEF TypeOK
    <3>2. QED
      BY <1>1, <2>1, <2>3, <3>1, FreshVersion, VersionStep
  <2>4. QED
    BY <1>3, <2>2, <2>3 DEF Conflicted
<1>4. CASE NotAppended(r)
  <2>1. UNCHANGED <<log, call>> /\ Grows
    BY <1>4, GrowsUnchanged DEF NotAppended
  <2>2. Return(r, "store")
    BY <1>4 DEF NotAppended, Fails
  <2>3. QED
    BY <1>1, <2>1, <2>2, ReturnVersion
<1>5. QED
  BY <1>2, <1>3, <1>4 DEF Commit

LEMMA ReadVersionVersion ==
    ASSUME TypeOK, TypeOK', VersionInv, NEW r \in Repos, ReadVersion(r)
    PROVE  VersionInv'
<1>1. UNCHANGED <<log, snaps, call>> /\ Grows /\ pc[r] = "stream version"
  BY GrowsUnchanged DEF ReadVersion
<1>2. CASE /\ work' = [work EXCEPT ![r].pos = VisibleTo(r)]
           /\ Goto(r, IF VisibleTo(r) = 0 THEN "panic" ELSE "offer")
  <2>1. /\ VisibleTo(r) > 0 /\ VisibleTo(r) \in Nat
        /\ VisibleTo(r) <= Len(StreamOf(r))
    BY <1>1, StreamTypes DEF VersionInv, Versioned
  <2>2. pc'[r] = "offer" /\ \A q \in Repos \ {r} : pc'[q] = pc[q]
    BY <1>2, <2>1 DEF Goto, TypeOK
  <2>3. work'[r].pos = VisibleTo(r) /\ \A q \in Repos \ {r} : work'[q] = work[q]
    BY <1>2 DEF TypeOK, Locals
  <2>4. work'[r].pos <= Len(StreamOf(r)')
    <3>1. StreamOf(r)' = StreamOf(r)
      BY <1>1 DEF StreamOf
    <3>2. QED
      BY <2>1, <2>3, <3>1
  <2>5. Versioned(r)'
    BY <2>2, <2>4 DEF Versioned, Decided
  <2>6. QED
    BY <1>1, <2>2, <2>3, <2>5, VersionStep
<1>3. CASE Return(r, "store")
  BY <1>1, <1>3, ReturnVersion
<1>4. QED
  BY <1>2, <1>3 DEF ReadVersion, Fails

LEMMA OfferVersion ==
    ASSUME TypeOK, TypeOK', VersionInv, NEW r \in Repos, Offer(r)
    PROVE  VersionInv'
<1>1. UNCHANGED <<log, call>> /\ Grows /\ pc[r] = "offer"
  BY GrowsUnchanged DEF Offer
<1>2. Return(r, "ok") \/ Return(r, "codec") \/ Return(r, "snapshot")
  BY DEF Offer, Fails
<1>3. CASE Store(r)
  <2>1. ASSUME NEW x \in SnapshotStores, NEW s \in Streams
        PROVE  snaps'[x][s].pos <= Len(log'[s])
    <3>1. \/ snaps'[x][s] = snaps[x][s]
          \/ s = call[r].s /\ snaps'[x][s].pos = work[r].pos
      BY <1>3 DEF Store, SnapshotAt, TypeOK
    <3>2. work[r].pos <= Len(log[call[r].s])
      BY <1>1 DEF VersionInv, Versioned, StreamOf
    <3>3. QED
      BY <1>1, <3>1, <3>2 DEF VersionInv, SnapshotsBehind
  <2>2. SnapshotsBehind'
    BY <2>1 DEF SnapshotsBehind
  <2>3. QED
    BY <1>1, <1>2, <2>2, ReturnVersion
<1>4. CASE UNCHANGED snaps
  BY <1>1, <1>2, <1>4, ReturnVersion
<1>5. QED
  BY <1>3, <1>4 DEF Offer

LEMMA InjectGrows == ASSUME TypeOK, NEW r \in Repos, Inject(r) PROVE Grows
<1>1. CASE UNCHANGED <<log, visible>>
  BY <1>1, GrowsUnchanged
<1>2. ASSUME NEW s \in Streams,
             NEW kinds \in Batches(EventKinds[r], MaxBatch) \cup {<<k>> : k \in Kinds},
             \/ AppendTo(s, Stamp(r, calls[r] + 1, kinds))
             \/ AppendLater(s, Stamp(r, calls[r] + 1, kinds))
      PROVE  Grows
  BY <1>2, InjectedBatch, GrowsAppend
<1>3. QED
  BY <1>1, <1>2 DEF Inject

LEMMA CallerVersion ==
    ASSUME TypeOK, TypeOK', VersionInv, NEW r \in Repos,
           Cancel(r) \/ Restart(r) \/ Inject(r)
    PROVE  VersionInv'
<1>1. CASE Cancel(r)
  BY <1>1, GrowsUnchanged, ReturnVersion DEF Cancel, Fails
<1>2. CASE Restart(r)
  <2>1. UNCHANGED <<log, visible, call>> /\ Grows /\ Return(r, "cancelled")
    BY <1>2, GrowsUnchanged DEF Restart, Fails
  <2>2. ASSUME NEW x \in SnapshotStores, NEW s \in Streams
        PROVE  snaps'[x][s].pos <= Len(log'[s])
    <3>1. snaps'[x][s] = snaps[x][s] \/ snaps'[x][s].pos = 0
      BY <1>2 DEF Restart, TypeOK, NoSnapshot, NoPosition
    <3>2. QED
      BY <2>1, <3>1, StreamTypes DEF VersionInv, SnapshotsBehind
  <2>3. SnapshotsBehind'
    BY <2>2 DEF SnapshotsBehind
  <2>4. QED
    BY <2>1, <2>3, ReturnVersion
<1>3. CASE Inject(r)
  <2>1. UNCHANGED <<snaps, pc, call, work>>
    BY <1>3 DEF Inject
  <2>2. Grows
    BY <1>3, InjectGrows
  <2>3. ASSUME NEW q \in Repos PROVE Versioned(q)'
    BY <2>1, <2>2, VersionedStays DEF VersionInv
  <2>4. QED
    BY <2>1, <2>2, <2>3, SnapshotsStay DEF VersionInv
<1>4. QED
  BY <1>1, <1>2, <1>3

LEMMA LandVersion ==
    ASSUME TypeOK, TypeOK', VersionInv, NEW s \in Streams, Land(s)
    PROVE  VersionInv'
<1>1. UNCHANGED <<snaps, pc, call, work>> /\ Grows
  BY GrowsLand DEF Land
<1>2. ASSUME NEW q \in Repos PROVE Versioned(q)'
  BY <1>1, VersionedStays DEF VersionInv
<1>3. QED
  BY <1>1, <1>2, SnapshotsStay DEF VersionInv

-----------------------------------------------------------------------------
\* The theorems.

LEMMA VersionInductive == TypeOK /\ TypeOK' /\ VersionInv /\ [Next]_vars => VersionInv'
<1> SUFFICES ASSUME TypeOK, TypeOK', VersionInv, [Next]_vars PROVE VersionInv'
  OBVIOUS
<1>1. CASE UNCHANGED vars
  BY <1>1 DEF vars, VersionInv, SnapshotsBehind, Versioned, StreamOf, VisibleTo
<1>2. ASSUME NEW r \in Repos, Begin(r) PROVE VersionInv'
  BY <1>2, BeginVersion
<1>3. ASSUME NEW r \in Repos, Step(r) PROVE VersionInv'
  BY <1>3, LoadSnapshotVersion, LoadEventsVersion, HandleVersion, CommitVersion,
     ReadVersionVersion, OfferVersion DEF Step
<1>4. ASSUME NEW r \in Repos, Cancel(r) \/ Restart(r) \/ Inject(r) PROVE VersionInv'
  BY <1>4, CallerVersion
<1>5. ASSUME NEW s \in Streams, Land(s) PROVE VersionInv'
  BY <1>5, LandVersion
<1>6. QED
  BY <1>1, <1>2, <1>3, <1>4, <1>5 DEF Next

LEMMA VersionHolds == Spec => []VersionInv
<1>1. Init => VersionInv
  <2> SUFFICES ASSUME Init PROVE VersionInv
    OBVIOUS
  <2>1. \A r \in Repos : pc[r] = "idle"
    BY DEF Init
  <2>2. SnapshotsBehind
    BY DEF Init, SnapshotsBehind, NoSnapshot, NoPosition
  <2>3. QED
    BY <2>1, <2>2 DEF VersionInv, Versioned, Decided
<1>2. QED
  BY <1>1, VersionInductive, TypeCorrect, PTL DEF Spec

\* The expect after the commit never fires, on either store, whatever fails.
THEOREM NeverPanics == Spec => []NoPanic
<1>1. VersionInv => NoPanic
  BY DEF VersionInv, Versioned, NoPanic
<1>2. QED
  BY <1>1, VersionHolds, PTL

\* The only step that counts a conflict is a commit that is refused.
LEMMA OnlyConflictsCount ==
    ASSUME TypeOK, Next, NEW r \in Repos, conflicts'[r] > conflicts[r]
    PROVE  Commit(r) /\ Conflicted(r)
<1>1. conflicts[r] \in Nat
  BY DEF TypeOK
<1>2. PICK q \in Repos : Begin(q) \/ Step(q) \/ Cancel(q) \/ Restart(q) \/ Inject(q)
  <2>1. ASSUME NEW s \in Streams, Land(s) PROVE FALSE
    BY <1>1, <2>1 DEF Land
  <2>2. QED
    BY <2>1 DEF Next
<1>3. CASE Begin(q)
  <2>1. conflicts' = [conflicts EXCEPT ![q] = 0]
    BY <1>3 DEF Begin
  <2>2. conflicts'[r] = conflicts[r] \/ conflicts'[r] = 0
    BY <2>1 DEF TypeOK
  <2>3. QED
    BY <1>1, <2>2
<1>4. CASE Commit(q)
  <2>1. CASE Conflicted(q)
    <3>1. conflicts' = [conflicts EXCEPT ![q] = @ + 1]
      BY <2>1 DEF Conflicted
    <3>2. q # r => conflicts'[r] = conflicts[r]
      BY <3>1 DEF TypeOK
    <3>3. q = r
      BY <1>1, <3>2
    <3>4. QED
      BY <1>4, <2>1, <3>3
  <2>2. CASE Appended(q) \/ NotAppended(q)
    <3>1. conflicts' = conflicts
      BY <2>2 DEF Appended, NotAppended
    <3>2. QED
      BY <1>1, <3>1
  <2>3. QED
    BY <1>4, <2>1, <2>2 DEF Commit
<1>5. CASE /\ \/ LoadSnapshot(q) \/ LoadEvents(q) \/ Handle(q) \/ ReadVersion(q)
              \/ Offer(q) \/ Cancel(q) \/ Restart(q) \/ Inject(q)
  <2>1. conflicts' = conflicts
    BY <1>5
    DEF LoadSnapshot, LoadEvents, Handle, ReadVersion, Offer, Cancel, Restart, Inject
  <2>2. QED
    BY <1>1, <2>1
<1>6. QED
  BY <1>2, <1>3, <1>4, <1>5 DEF Step

\* Where every repository knows every kind of event stored, a conflict means that
\* somebody has appended since the command read the stream.
THEOREM ConflictHasCause ==
    ASSUME \A r \in Repos : EventKinds[r] = Kinds
    PROVE  Spec => ConflictMeansConcurrentAppend
<1>1. ASSUME TypeOK, VersionInv, Next, NEW r \in Repos, conflicts'[r] > conflicts[r]
      PROVE  Len(StreamOf(r)) > work[r].asOf
  <2>1. Commit(r) /\ Conflicted(r)
    BY <1>1, OnlyConflictsCount
  <2>2. /\ StreamOf(r) \in Seq(Event) /\ Len(StreamOf(r)) \in Nat
        /\ work[r].version \in Nat /\ work[r].asOf \in Nat
    BY <1>1, StreamTypes
  <2>3. /\ work[r].version <= work[r].asOf
        /\ work[r].asOf <= Len(StreamOf(r))
        /\ \A i \in (work[r].version + 1)..work[r].asOf : StreamOf(r)[i].kind \notin Kinds
    BY <1>1, <2>1 DEF VersionInv, Versioned, Decided, Commit
  <2>4. work[r].version = work[r].asOf
    <3>1. SUFFICES ASSUME work[r].version < work[r].asOf PROVE FALSE
      BY <2>2, <2>3
    <3>2. work[r].asOf \in 1..Len(StreamOf(r))
      BY <2>2, <2>3, <3>1
    <3>3. StreamOf(r)[work[r].asOf] \in Event
      BY <2>2, <3>2, ElementOfSeq
    <3>4. StreamOf(r)[work[r].asOf].kind \notin Kinds
      BY <2>2, <2>3, <3>1
    <3>5. QED
      BY <3>3, <3>4 DEF Event
  <2>5. Len(StreamOf(r)) # work[r].version
    BY <2>1, <2>2 DEF Conflicted, VersionAccepted, NoPosition
  <2>6. QED
    BY <2>2, <2>3, <2>4, <2>5
<1>2. TypeOK /\ VersionInv /\ [Next]_vars =>
        [\A r \in Repos : conflicts'[r] > conflicts[r] => Len(StreamOf(r)) > work[r].asOf]_vars
  BY <1>1
<1>3. QED
  BY <1>2, VersionHolds, TypeCorrect, PTL DEF Spec, ConflictMeansConcurrentAppend
=============================================================================
