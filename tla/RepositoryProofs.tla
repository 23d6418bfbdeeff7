-------------------------- MODULE RepositoryProofs --------------------------
(***************************************************************************)
(* What holds of Repository for every number of repositories, streams,     *)
(* calls, retries and events, whatever the aggregate's rule is.            *)
(***************************************************************************)
EXTENDS Repository, FiniteSetTheorems, SequenceTheorems, TLAPS

-----------------------------------------------------------------------------
\* Facts about streams and batches.

\* A buffered batch is a sequence of events of its writer.
LEMMA StampType ==
    ASSUME NEW r \in Repos, NEW c \in Nat, NEW kinds \in Batches(Kinds, MaxBatch)
    PROVE  /\ Stamp(r, c, kinds) \in Seq(Event)
           /\ Len(Stamp(r, c, kinds)) \in Nat \ {0}
           /\ Len(Stamp(r, c, kinds)) = Len(kinds)
<1>1. PICK n \in 1..MaxBatch : kinds \in [1..n -> Kinds]
  BY DEF Batches
<1>2. Stamp(r, c, kinds) \in [1..n -> Event]
  BY <1>1 DEF Stamp, Event
<1>3. QED
  BY <1>1, <1>2, ConfigAssumption DEF ConfigAssumption

LEMMA StampOneType ==
    ASSUME NEW r \in Repos, NEW c \in Nat, NEW k \in Kinds
    PROVE  /\ Stamp(r, c, <<k>>) \in Seq(Event)
           /\ Len(Stamp(r, c, <<k>>)) = 1
BY DEF Stamp, Event

\* Whoever knows fewer kinds emits batches of those.
LEMMA BatchesMonotone ==
    ASSUME NEW K, NEW L, K \subseteq L, NEW n
    PROVE  Batches(K, n) \subseteq Batches(L, n)
BY DEF Batches

\* Replaying part of a stream applies events of it only.
LEMMA ReplayType ==
    ASSUME NEW stream \in Seq(Event), NEW K, NEW from \in Nat, NEW to \in 0..Len(stream)
    PROVE  /\ Matching(stream, K, from, to) \subseteq 1..Len(stream)
           /\ Replay(stream, K, from, to) \subseteq Event
           /\ Cardinality(Matching(stream, K, from, to)) \in Nat
<1>1. Matching(stream, K, from, to) \subseteq 1..Len(stream)
  BY DEF Matching
<1>2. IsFiniteSet(1..Len(stream))
  BY FS_Interval, LenProperties
<1>3. Cardinality(Matching(stream, K, from, to)) \in Nat
  BY <1>1, <1>2, FS_Subset, FS_CardinalityType
<1>4. \A i \in 1..Len(stream) : stream[i] \in Event
  BY ElementOfSeq
<1>5. QED
  BY <1>1, <1>3, <1>4 DEF Replay

-----------------------------------------------------------------------------
\* Types.

LEMMA NoWorkType == NoWork \in Locals
BY DEF NoWork, Locals, NoPosition, Event

LEMMA FirstAwaitType == ASSUME NEW r PROVE FirstAwait(r) \in Labels
BY DEF FirstAwait, Labels

\* Returning keeps the types of what it changes.
LEMMA ReturnType ==
    ASSUME TypeOK, NEW r \in Repos, NEW kind \in Results, Return(r, kind)
    PROVE  /\ pc' \in [Repos -> Labels]
           /\ work' \in [Repos -> Locals]
           /\ ret' \in [Repos -> Outcome]
<1>1. call[r].attempt \in 0..(MaxRetries + 1)
  BY DEF TypeOK, Operation
<1>2. ret' \in [Repos -> Outcome]
  BY <1>1 DEF TypeOK, Return, Outcome
<1>3. work' \in [Repos -> Locals]
  BY NoWorkType DEF TypeOK, Return
<1>4. QED
  BY <1>2, <1>3 DEF TypeOK, Return, Goto, Labels

LEMMA InitType == Init => TypeOK
<1> SUFFICES ASSUME Init PROVE TypeOK
  OBVIOUS
<1>1. [kind |-> "none", n |-> 0] \in Outcome
  BY ConfigAssumption DEF ConfigAssumption, Outcome, Results
<1>2. \A s \in Streams : [op |-> "load", s |-> s, max |-> 0, attempt |-> 1] \in Operation
  BY ConfigAssumption DEF ConfigAssumption, Operation
<1>3. call \in [Repos -> Operation]
  BY <1>2 DEF Init
<1>4. QED
  BY <1>1, <1>3, NoWorkType DEF Init, TypeOK, Labels

LEMMA BeginType == ASSUME TypeOK, NEW r \in Repos, Begin(r) PROVE TypeOK'
<1>1. PICK s \in Streams, op \in {"load", "execute"}, max \in 0..MaxRetries :
        call' = [call EXCEPT ![r] = [op |-> op, s |-> s, max |-> max, attempt |-> 1]]
  BY DEF Begin
<1>2. [op |-> op, s |-> s, max |-> max, attempt |-> 1] \in Operation
  BY ConfigAssumption DEF ConfigAssumption, Operation
<1>3. call' \in [Repos -> Operation]
  BY <1>1, <1>2 DEF TypeOK
<1>4. work' \in [Repos -> Locals]
  BY NoWorkType DEF Begin, TypeOK
<1>5. pc' \in [Repos -> Labels]
  BY FirstAwaitType DEF Begin, TypeOK, Goto
<1>6. QED
  BY <1>3, <1>4, <1>5 DEF Begin, TypeOK

LEMMA LoadSnapshotType == ASSUME TypeOK, NEW r \in Repos, LoadSnapshot(r) PROVE TypeOK'
<1>1. CASE RestoreSnapshot(r)
  <2>1. SnapshotOf(r) \in Snapshot \cup {NoSnapshot}
    BY ConfigAssumption DEF ConfigAssumption, TypeOK, SnapshotOf, Operation
  <2>2. (IF SnapshotOf(r) = NoSnapshot THEN NoWork
         ELSE [NoWork EXCEPT !.agg = SnapshotOf(r).data, !.version = SnapshotOf(r).pos])
          \in Locals
    BY <2>1, NoWorkType DEF Snapshot, Locals, NoWork
  <2>3. work' \in [Repos -> Locals]
    BY <1>1, <2>2 DEF RestoreSnapshot, TypeOK
  <2>4. QED
    BY <1>1, <2>3 DEF LoadSnapshot, RestoreSnapshot, Goto, TypeOK, Labels
<1>2. CASE FallBackToReplay(r)
  BY <1>2 DEF LoadSnapshot, FallBackToReplay, Goto, TypeOK, Labels
<1>3. CASE Fails(r, "snapshot decode", "projection")
  BY <1>3, ReturnType DEF LoadSnapshot, Fails, Results, TypeOK
<1>4. QED
  BY <1>1, <1>2, <1>3 DEF LoadSnapshot

LEMMA ApplyEventsType ==
    ASSUME TypeOK, NEW r \in Repos, ApplyEvents(r)
    PROVE  work' \in [Repos -> Locals]
<1> DEFINE stream == StreamOf(r)
           after  == work[r].version
           len    == VisibleTo(r)
           K      == EventKinds[r]
<1>1. PICK v \in after..len :
        work' = [work EXCEPT ![r] =
                   [agg     |-> work[r].agg \cup Replay(stream, K, after, len),
                    version |-> v,
                    since   |-> Cardinality(Matching(stream, K, after, len)),
                    batch   |-> <<>>,
                    pos     |-> NoPosition,
                    asOf    |-> len]]
  BY DEF ApplyEvents
<1>2. work \in [Repos -> Locals] /\ work[r] \in Locals /\ after \in Nat
  BY DEF TypeOK, Locals
<1>3. stream \in Seq(Event) /\ len \in Nat /\ len <= Len(stream)
  BY DEF TypeOK, StreamOf, VisibleTo, Operation
<1> HIDE DEF stream, after, len, K
<1>4. len \in 0..Len(stream) /\ v \in Nat
  BY <1>2, <1>3, LenProperties
<1>5. /\ Replay(stream, K, after, len) \subseteq Event
      /\ Cardinality(Matching(stream, K, after, len)) \in Nat
  BY <1>2, <1>3, <1>4, ReplayType
<1>6. [agg     |-> work[r].agg \cup Replay(stream, K, after, len),
       version |-> v,
       since   |-> Cardinality(Matching(stream, K, after, len)),
       batch   |-> <<>>,
       pos     |-> NoPosition,
       asOf    |-> len] \in Locals
  BY <1>2, <1>3, <1>4, <1>5 DEF Locals, NoPosition
<1>7. QED
  BY <1>1, <1>2, <1>6

LEMMA LoadEventsType == ASSUME TypeOK, NEW r \in Repos, LoadEvents(r) PROVE TypeOK'
<1>1. CASE EventsLoaded(r)
  <2>1. work' \in [Repos -> Locals]
    BY <1>1, ApplyEventsType DEF EventsLoaded
  <2>2. CASE call[r].op = "load"
    <3>1. [kind |-> "loaded", n |-> 1] \in Outcome
      BY ConfigAssumption DEF ConfigAssumption, Outcome, Results
    <3>2. pc' = [pc EXCEPT ![r] = "idle"] /\ ret' = [ret EXCEPT ![r] = [kind |-> "loaded", n |-> 1]]
      BY <1>1, <2>2 DEF EventsLoaded, Goto
    <3>3. QED
      BY <2>1, <3>1, <3>2 DEF LoadEvents, TypeOK, Labels
  <2>3. CASE call[r].op # "load"
    BY <1>1, <2>1, <2>3 DEF EventsLoaded, LoadEvents, Goto, TypeOK, Labels
  <2>4. QED
    BY <2>2, <2>3
<1>2. CASE Fails(r, "load", "projection")
  BY <1>2, ReturnType DEF LoadEvents, Fails, Results, TypeOK
<1>3. CASE Fails(r, "decode", "projection")
  BY <1>3, ReturnType DEF LoadEvents, Fails, Results, TypeOK
<1>4. QED
  BY <1>1, <1>2, <1>3 DEF LoadEvents

LEMMA HandleType == ASSUME TypeOK, NEW r \in Repos, Handle(r) PROVE TypeOK'
<1>1. CASE Emit(r)
  <2>1. PICK kinds \in Batches(EventKinds[r], MaxBatch) :
          \/ /\ work' = [work EXCEPT ![r].batch = Stamp(r, calls[r], kinds)]
             /\ Goto(r, "commit")
             /\ UNCHANGED ret
          \/ Fails(r, "encode", "codec")
    BY <1>1 DEF Emit
  <2>2. Stamp(r, calls[r], kinds) \in Seq(Event)
    <3>1. kinds \in Batches(Kinds, MaxBatch)
      BY BatchesMonotone, ConfigAssumption DEF ConfigAssumption
    <3>2. QED
      BY <3>1, StampType DEF TypeOK
  <2>3. CASE /\ work' = [work EXCEPT ![r].batch = Stamp(r, calls[r], kinds)]
             /\ Goto(r, "commit")
             /\ UNCHANGED ret
    <3>1. work' \in [Repos -> Locals]
      BY <2>2, <2>3 DEF TypeOK, Locals
    <3>2. QED
      BY <2>3, <3>1 DEF Handle, Goto, TypeOK, Labels
  <2>4. CASE Fails(r, "encode", "codec")
    BY <2>4, ReturnType DEF Handle, Fails, Results, TypeOK
  <2>5. QED
    BY <2>1, <2>3, <2>4
<1>2. CASE Return(r, "ok")
  BY <1>2, ReturnType DEF Handle, Results, TypeOK
<1>3. CASE Return(r, "aggregate")
  BY <1>3, ReturnType DEF Handle, Results, TypeOK
<1>4. QED
  BY <1>1, <1>2, <1>3 DEF Handle

\* A stream to which a batch is appended is a stream.
LEMMA ExtendType ==
    ASSUME TypeOK, NEW s \in Streams, NEW batch \in Seq(Event), Extend(s, batch)
    PROVE  log' \in [Streams -> Seq(Event)]
<1>1. log[s] \o batch \in Seq(Event)
  BY ConcatProperties DEF TypeOK
<1>2. QED
  BY <1>1 DEF TypeOK, Extend

\* What a stream holds after a batch has been appended to it.
LEMMA AppendedStream ==
    ASSUME TypeOK, NEW s \in Streams, NEW batch \in Seq(Event), Extend(s, batch),
           NEW t \in Streams
    PROVE  /\ t # s => log'[t] = log[t]
           /\ t = s => /\ Len(log'[t]) = Len(log[s]) + Len(batch)
                       /\ \A i \in 1..Len(log[s]) : log'[t][i] = log[s][i]
                       /\ \A i \in 1..Len(log'[t]) :
                            i > Len(log[s]) => log'[t][i] = batch[i - Len(log[s])]
           /\ DOMAIN log'[t] = 1..Len(log'[t])
           /\ DOMAIN log[t] = 1..Len(log[t])
           /\ Len(log[t]) \in Nat /\ Len(batch) \in Nat
<1>1. log[s] \in Seq(Event) /\ log[t] \in Seq(Event)
  BY DEF TypeOK
<1>2. log'[t] = IF t = s THEN log[s] \o batch ELSE log[t]
  BY DEF Extend, TypeOK
<1>3. log'[t] \in Seq(Event)
  BY ExtendType
<1>4. QED
  BY <1>1, <1>2, <1>3, ConcatProperties, LenProperties

\* Appending, visibly or not yet, keeps the types of the store.
LEMMA AppendType ==
    ASSUME TypeOK, NEW s \in Streams, NEW batch \in Seq(Event),
           AppendTo(s, batch) \/ AppendLater(s, batch)
    PROVE  /\ log' \in [Streams -> Seq(Event)]
           /\ visible' \in [Streams -> Nat]
           /\ \A t \in Streams : visible'[t] <= Len(log'[t])
<1>1. Extend(s, batch)
  BY DEF AppendTo, AppendLater
<1>2. log' \in [Streams -> Seq(Event)]
  BY <1>1, ExtendType
<1>3. /\ Len(log'[s]) = Len(log[s]) + Len(batch)
      /\ Len(log[s]) \in Nat /\ Len(batch) \in Nat
      /\ \A t \in Streams : t # s => log'[t] = log[t]
  BY <1>1, AppendedStream
<1>4. visible \in [Streams -> Nat] /\ \A t \in Streams : visible[t] <= Len(log[t])
  BY DEF TypeOK
<1>5. \A t \in Streams : visible'[t] \in {visible[t], Len(log'[t])}
  BY <1>3, <1>4 DEF AppendTo, AppendLater
<1>6. ASSUME NEW t \in Streams PROVE visible'[t] \in Nat /\ visible'[t] <= Len(log'[t])
  <2>1. Len(log'[t]) \in Nat
    BY <1>2, LenProperties
  <2>2. visible[t] <= Len(log'[t])
    BY <1>3, <1>4
  <2>3. QED
    BY <1>4, <1>5, <2>1, <2>2
<1>7. \E f : visible' = [t \in Streams |-> f[t]]
  BY <1>4 DEF AppendTo, AppendLater
<1>8. QED
  BY <1>2, <1>6, <1>7

LEMMA AfterCommitType ==
    ASSUME TypeOK, NEW r \in Repos, AfterCommit(r)
    PROVE  /\ pc' \in [Repos -> Labels]
           /\ work' \in [Repos -> Locals]
           /\ ret' \in [Repos -> Outcome]
<1>1. CASE r \in Snapshotting
  BY <1>1 DEF AfterCommit, Goto, TypeOK, Labels
<1>2. CASE r \notin Snapshotting
  BY <1>2, ReturnType DEF AfterCommit, Results
<1>3. QED
  BY <1>1, <1>2

LEMMA CommitType == ASSUME TypeOK, NEW r \in Repos, Commit(r) PROVE TypeOK'
<1>1. CASE Appended(r)
  <2>1. work[r].batch \in Seq(Event) /\ call[r].s \in Streams
    BY DEF TypeOK, Locals, Operation
  <2>2. /\ log' \in [Streams -> Seq(Event)]
        /\ visible' \in [Streams -> Nat]
        /\ \A t \in Streams : visible'[t] <= Len(log'[t])
    BY <1>1, <2>1, AppendType DEF Appended
  <2>3. /\ pc' \in [Repos -> Labels]
        /\ work' \in [Repos -> Locals]
        /\ ret' \in [Repos -> Outcome]
    BY <1>1, AfterCommitType, ReturnType DEF Appended, Fails, Results
  <2>4. QED
    BY <1>1, <2>2, <2>3 DEF Commit, Appended, TypeOK
<1>2. CASE Conflicted(r)
  <2>1. conflicts' \in [Repos -> Nat]
    BY <1>2 DEF Conflicted, TypeOK
  <2>2. CASE call[r].attempt <= call[r].max
    <3>1. [call[r] EXCEPT !.attempt = @ + 1] \in Operation
      <4>1. call[r] \in Operation
        BY DEF TypeOK
      <4>2. call[r].attempt + 1 \in 1..(MaxRetries + 1)
        BY <2>2, <4>1, ConfigAssumption DEF ConfigAssumption, Operation
      <4>3. QED
        BY <4>1, <4>2 DEF Operation
    <3>2. call' = [call EXCEPT ![r] = [call[r] EXCEPT !.attempt = @ + 1]]
      BY <1>2, <2>2 DEF Conflicted
    <3>3. call' \in [Repos -> Operation]
      BY <3>1, <3>2 DEF TypeOK
    <3>4. work' \in [Repos -> Locals]
      BY <1>2, <2>2, NoWorkType DEF Conflicted, TypeOK
    <3>5. pc' \in [Repos -> Labels]
      <4>1. pc' = [pc EXCEPT ![r] = FirstAwait(r)]
        BY <1>2, <2>2 DEF Conflicted, Goto
      <4>2. QED
        BY <4>1, FirstAwaitType DEF TypeOK
    <3>6. QED
      BY <1>2, <2>1, <2>2, <3>3, <3>4, <3>5 DEF Commit, Conflicted, TypeOK
  <2>3. CASE ~(call[r].attempt <= call[r].max)
    BY <1>2, <2>1, <2>3, ReturnType DEF Commit, Conflicted, Results, TypeOK
  <2>4. QED
    BY <2>2, <2>3
<1>3. CASE NotAppended(r)
  BY <1>3, ReturnType DEF Commit, NotAppended, Fails, Results, TypeOK
<1>4. QED
  BY <1>1, <1>2, <1>3 DEF Commit

LEMMA ReadVersionType == ASSUME TypeOK, NEW r \in Repos, ReadVersion(r) PROVE TypeOK'
<1>1. CASE /\ work' = [work EXCEPT ![r].pos = VisibleTo(r)]
           /\ Goto(r, IF VisibleTo(r) = 0 THEN "panic" ELSE "offer")
           /\ UNCHANGED ret
  <2>1. VisibleTo(r) \in Nat
    BY DEF VisibleTo, TypeOK, Operation
  <2>2. work' \in [Repos -> Locals]
    BY <1>1, <2>1 DEF TypeOK, Locals
  <2>3. QED
    BY <1>1, <2>2 DEF ReadVersion, Goto, TypeOK, Labels
<1>2. CASE Fails(r, "version", "store")
  BY <1>2, ReturnType DEF ReadVersion, Fails, Results, TypeOK
<1>3. QED
  BY <1>1, <1>2 DEF ReadVersion

\* The snapshot an operation stores has the type of one.
LEMMA StoreType ==
    ASSUME TypeOK, NEW r \in Repos, Store(r)
    PROVE  snaps' \in [SnapshotStores -> [Streams -> Snapshot \cup {NoSnapshot}]]
<1> DEFINE taken == SnapshotAt(work[r].pos, work[r].agg \cup EventsOf(work[r].batch), r)
<1>1. /\ work[r].batch \in Seq(Event)
      /\ work[r].agg \subseteq Event
      /\ work[r].pos \in Nat
    BY DEF TypeOK, Locals
<1>2. EventsOf(work[r].batch) \subseteq Event
  BY <1>1, ElementOfSeq, LenProperties DEF EventsOf
<1>3. taken \in Snapshot
  BY <1>1, <1>2 DEF Snapshot, SnapshotAt
<1>4. /\ snaps' = [snaps EXCEPT ![StoreOf[r]] = [snaps[StoreOf[r]] EXCEPT ![call[r].s] = taken]]
      /\ StoreOf[r] \in SnapshotStores
      /\ call[r].s \in Streams
  BY ConfigAssumption DEF ConfigAssumption, Store, TypeOK, Operation
<1> HIDE DEF taken
<1>5. QED
  BY <1>3, <1>4 DEF TypeOK

LEMMA OfferType == ASSUME TypeOK, NEW r \in Repos, Offer(r) PROVE TypeOK'
<1>1. snaps' \in [SnapshotStores -> [Streams -> Snapshot \cup {NoSnapshot}]]
  BY StoreType DEF Offer, TypeOK
<1>2. /\ pc' \in [Repos -> Labels]
      /\ work' \in [Repos -> Locals]
      /\ ret' \in [Repos -> Outcome]
  BY ReturnType DEF Offer, Fails, Results
<1>3. QED
  BY <1>1, <1>2 DEF Offer, TypeOK

LEMMA CancelType == ASSUME TypeOK, NEW r \in Repos, Cancel(r) PROVE TypeOK'
BY ReturnType DEF Cancel, Fails, Results, TypeOK

LEMMA RestartType == ASSUME TypeOK, NEW r \in Repos, Restart(r) PROVE TypeOK'
<1>1. snaps' \in [SnapshotStores -> [Streams -> Snapshot \cup {NoSnapshot}]]
  BY ConfigAssumption DEF ConfigAssumption, Restart, TypeOK
<1>2. QED
  BY <1>1, ReturnType DEF Restart, Fails, Results, TypeOK

LEMMA InjectedBatch ==
    ASSUME TypeOK, NEW r \in Repos,
           NEW kinds \in Batches(EventKinds[r], MaxBatch) \cup {<<k>> : k \in Kinds}
    PROVE  Stamp(r, calls[r] + 1, kinds) \in Seq(Event)
<1>1. calls[r] + 1 \in Nat
  BY DEF TypeOK
<1>2. CASE kinds \in Batches(EventKinds[r], MaxBatch)
  BY <1>1, <1>2, BatchesMonotone, StampType, ConfigAssumption DEF ConfigAssumption
<1>3. CASE kinds \in {<<k>> : k \in Kinds}
  BY <1>1, <1>3, StampOneType
<1>4. QED
  BY <1>2, <1>3

LEMMA ReportsType ==
    ASSUME TypeOK, NEW r \in Repos, NEW kind \in Results, Reports(r, kind)
    PROVE  ret' \in [Repos -> Outcome]
BY ConfigAssumption DEF ConfigAssumption, Outcome, Reports, TypeOK

LEMMA InjectType == ASSUME TypeOK, NEW r \in Repos, Inject(r) PROVE TypeOK'
<1>1. /\ log' \in [Streams -> Seq(Event)]
      /\ visible' \in [Streams -> Nat]
      /\ \A t \in Streams : visible'[t] <= Len(log'[t])
  <2>1. CASE UNCHANGED <<log, visible>>
    BY <2>1 DEF TypeOK
  <2>2. ASSUME NEW s \in Streams,
               NEW kinds \in Batches(EventKinds[r], MaxBatch) \cup {<<k>> : k \in Kinds},
               \/ AppendTo(s, Stamp(r, calls[r] + 1, kinds))
               \/ AppendLater(s, Stamp(r, calls[r] + 1, kinds))
        PROVE  /\ log' \in [Streams -> Seq(Event)]
               /\ visible' \in [Streams -> Nat]
               /\ \A t \in Streams : visible'[t] <= Len(log'[t])
    BY <2>2, InjectedBatch, AppendType
  <2>3. QED
    BY <2>1, <2>2 DEF Inject
<1>2. ret' \in [Repos -> Outcome]
  BY ReportsType DEF Inject, Results
<1>3. /\ UNCHANGED <<snaps, pc, call, work, conflicts>>
      /\ calls' = [calls EXCEPT ![r] = @ + 1]
  BY DEF Inject
<1>4. calls' \in [Repos -> Nat]
  BY <1>3 DEF TypeOK
<1>5. QED
  BY <1>1, <1>2, <1>3, <1>4 DEF TypeOK

LEMMA LandType == ASSUME TypeOK, NEW s \in Streams, Land(s) PROVE TypeOK'
<1>1. Len(log[s]) \in Nat
  BY LenProperties DEF TypeOK
<1>2. QED
  BY <1>1 DEF Land, TypeOK

\* Every reachable state has the types TypeOK gives, on any number of
\* repositories and streams: in particular a retry loop never counts past
\* max_retries + 1 and an offered snapshot holds stored events only.
THEOREM TypeCorrect == Spec => []TypeOK
<1>1. TypeOK /\ [Next]_vars => TypeOK'
  <2> SUFFICES ASSUME TypeOK, [Next]_vars PROVE TypeOK'
    OBVIOUS
  <2>1. CASE UNCHANGED vars
    BY <2>1 DEF vars, TypeOK
  <2>2. ASSUME NEW r \in Repos, Begin(r) PROVE TypeOK'
    BY <2>2, BeginType
  <2>3. ASSUME NEW r \in Repos, Step(r) PROVE TypeOK'
    BY <2>3, LoadSnapshotType, LoadEventsType, HandleType, CommitType, ReadVersionType,
       OfferType DEF Step
  <2>4. ASSUME NEW r \in Repos, Cancel(r) \/ Restart(r) \/ Inject(r) PROVE TypeOK'
    BY <2>4, CancelType, RestartType, InjectType
  <2>5. ASSUME NEW s \in Streams, Land(s) PROVE TypeOK'
    BY <2>5, LandType
  <2>6. QED
    BY <2>1, <2>2, <2>3, <2>4, <2>5 DEF Next
<1>2. QED
  BY InitType, <1>1, PTL DEF Spec
=============================================================================
