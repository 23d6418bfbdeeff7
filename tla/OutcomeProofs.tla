---------------------------- MODULE OutcomeProofs ----------------------------
(***************************************************************************)
(* What a call reports: no event is stored twice, the result fits what was *)
(* stored, and execute_with_retry counts its executions right, for every   *)
(* number of repositories, calls, retries and failures.                    *)
(***************************************************************************)
EXTENDS RepositoryProofs

\* Where an operation has not appended yet, and where it has.
Undone == {"load snapshot", "load events", "handle", "commit"}
Done == {"stream version", "offer"}

\* The results that promise nothing was stored.
Empty(r) == {"concurrency", "aggregate", "projection"}
              \cup (IF r \in Snapshotting THEN {} ELSE {"codec"})

Stored == UNION {EventsOf(log[s]) : s \in Streams}

\* The events of a batch are r's, of its call c, numbered by their places.
Places(batch, r, c) ==
    \A i \in 1..Len(batch) : batch[i].by = r /\ batch[i].call = c /\ batch[i].n = i

\* Call c of r has stored nothing.
Unused(r, c) == \A e \in Stored : ~(e.by = r /\ e.call = c)

\* The buffered batch is one of the current call.
Stamped(r) ==
    /\ Len(work[r].batch) > 0
    /\ Places(work[r].batch, r, calls[r])

\* What is known of the current call of r.
OwnCall(r) ==
    /\ pc[r] = "commit" => Stamped(r)
    /\ pc[r] \in Undone => StoredBy(r) = {}
    /\ pc[r] \in Done => r \in Snapshotting /\ StoredBy(r) # {}
    /\ pc[r] = "idle" /\ ret[r].kind \in Empty(r) => StoredBy(r) = {}
    /\ pc[r] = "idle" /\ ret[r].kind = "snapshot" => StoredBy(r) # {}

\* Inductive: a call number names one call only because no stored event has a
\* number that is still to be given out.
OnceInv ==
    /\ AtMostOnce
    /\ \A e \in Stored : e.call <= calls[e.by]
    /\ \A r \in Repos : OwnCall(r)

LEMMA StampedStamp ==
    ASSUME NEW r \in Repos, NEW c \in Nat,
           NEW kinds \in Batches(EventKinds[r], MaxBatch) \cup {<<k>> : k \in Kinds}
    PROVE  /\ Stamp(r, c, kinds) \in Seq(Event)
           /\ Len(Stamp(r, c, kinds)) > 0
           /\ Places(Stamp(r, c, kinds), r, c)
<1>1. Stamp(r, c, kinds) \in Seq(Event) /\ Len(Stamp(r, c, kinds)) > 0
  <2>1. CASE kinds \in Batches(EventKinds[r], MaxBatch)
    <3>1. kinds \in Batches(Kinds, MaxBatch)
      BY <2>1, BatchesMonotone, ConfigAssumption DEF ConfigAssumption
    <3>2. QED
      BY <3>1, StampType
  <2>2. CASE kinds \in {<<k>> : k \in Kinds}
    BY <2>2, StampOneType
  <2>3. QED
    BY <2>1, <2>2
<1>2. DOMAIN Stamp(r, c, kinds) = 1..Len(Stamp(r, c, kinds))
  BY <1>1, LenProperties
<1>3. DOMAIN Stamp(r, c, kinds) = DOMAIN kinds
  BY DEF Stamp
<1>4. QED
  BY <1>1, <1>2, <1>3 DEF Stamp, Places

-----------------------------------------------------------------------------
\* Steps that append nothing.

\* A step of r that leaves the store and everyone else alone.
Quiet(r) ==
    /\ log' = log
    /\ calls' = calls
    /\ pc' \in [Repos -> Labels]
    /\ \A q \in Repos \ {r} : pc'[q] = pc[q] /\ work'[q] = work[q] /\ ret'[q] = ret[q]

LEMMA QuietInv ==
    ASSUME TypeOK, OnceInv, NEW r \in Repos, Quiet(r), OwnCall(r)'
    PROVE  OnceInv'
<1>1. AtMostOnce'
  BY DEF OnceInv, AtMostOnce, Quiet
<1>2. \A e \in Stored' : e.call <= calls'[e.by]
  BY DEF OnceInv, Stored, Quiet
<1>3. ASSUME NEW q \in Repos PROVE OwnCall(q)'
  <2>1. CASE q = r
    BY <2>1
  <2>2. CASE q # r
    <3>1. StoredBy(q)' = StoredBy(q)
      BY DEF StoredBy, Quiet
    <3>2. Stamped(q) => Stamped(q)'
      BY <2>2 DEF Stamped, Quiet
    <3>3. OwnCall(q)
      BY DEF OnceInv
    <3>4. QED
      BY <2>2, <3>1, <3>2, <3>3 DEF OwnCall, Quiet
  <2>3. QED
    BY <2>1, <2>2
<1>4. QED
  BY <1>1, <1>2, <1>3 DEF OnceInv

\* Returning, with a result that fits what is stored.
LEMMA ReturnInv ==
    ASSUME TypeOK, OnceInv, NEW r \in Repos, NEW kind \in Results,
           Return(r, kind), UNCHANGED <<log, calls>>,
           kind \in Empty(r) => pc[r] \in Undone,
           kind = "snapshot" => pc[r] \in Done
    PROVE  OnceInv'
<1>1. Quiet(r)
  BY ReturnType DEF Quiet, Return, Goto, TypeOK
<1>2. StoredBy(r)' = StoredBy(r)
  BY DEF StoredBy
<1>3. pc'[r] = "idle" /\ ret'[r].kind = kind
  BY DEF Return, Goto, TypeOK
<1>4. OwnCall(r)'
  BY <1>2, <1>3 DEF OnceInv, OwnCall, Undone, Done, Empty
<1>5. QED
  BY <1>1, <1>4, QuietInv

\* Moving from one await to another before the append.
LEMMA UndoneInv ==
    ASSUME TypeOK, OnceInv, NEW r \in Repos, NEW label \in Undone \ {"commit"},
           pc[r] \in Undone, Goto(r, label), UNCHANGED <<log, calls, ret>>,
           \A q \in Repos \ {r} : work'[q] = work[q]
    PROVE  OnceInv'
<1>1. pc' \in [Repos -> Labels] /\ pc'[r] = label
  BY DEF Goto, TypeOK, Undone, Labels
<1>2. Quiet(r)
  BY <1>1 DEF Quiet, Goto, TypeOK
<1>3. StoredBy(r)' = StoredBy(r)
  BY DEF StoredBy
<1>4. OwnCall(r)'
  BY <1>1, <1>3 DEF OnceInv, OwnCall, Undone, Done
<1>5. QED
  BY <1>2, <1>4, QuietInv

LEMMA FirstAwaitUndone == ASSUME NEW r PROVE FirstAwait(r) \in Undone \ {"commit"}
BY DEF FirstAwait, Undone

LEMMA StoredType == ASSUME TypeOK PROVE Stored \subseteq Event
<1>1. ASSUME NEW s \in Streams PROVE EventsOf(log[s]) \subseteq Event
  <2>1. log[s] \in Seq(Event)
    BY DEF TypeOK
  <2>2. QED
    BY <2>1, ElementOfSeq, LenProperties DEF EventsOf
<1>2. QED
  BY <1>1 DEF Stored

LEMMA BeginInv == ASSUME TypeOK, OnceInv, NEW r \in Repos, Begin(r) PROVE OnceInv'
<1>1. /\ log' = log
      /\ calls' = [calls EXCEPT ![r] = @ + 1]
      /\ pc' = [pc EXCEPT ![r] = FirstAwait(r)]
      /\ ret' = ret
      /\ \A q \in Repos \ {r} : work'[q] = work[q]
  BY DEF Begin, Goto, TypeOK
<1>2. \A e \in Stored : e.by \in Repos /\ e.call \in Nat /\ e.call <= calls[e.by]
  BY StoredType DEF OnceInv, Event
<1>3. AtMostOnce'
  BY <1>1 DEF OnceInv, AtMostOnce
<1>4. \A e \in Stored' : e.call <= calls'[e.by]
  <2>1. Stored' = Stored
    BY <1>1 DEF Stored
  <2>2. \A q \in Repos : calls[q] \in Nat /\ calls'[q] \in Nat /\ calls[q] <= calls'[q]
    BY <1>1 DEF TypeOK
  <2>3. QED
    BY <1>2, <2>1, <2>2
<1>5. StoredBy(r)' = {}
  <2>1. StoredBy(r)' = {e \in Stored : e.by = r /\ e.call = calls[r] + 1}
    BY <1>1 DEF StoredBy, Stored, TypeOK
  <2>2. calls[r] \in Nat
    BY DEF TypeOK
  <2>3. QED
    BY <1>2, <2>1, <2>2
<1>6. OwnCall(r)'
  BY <1>1, <1>5, FirstAwaitUndone DEF OwnCall, TypeOK, Undone, Done
<1>7. ASSUME NEW q \in Repos, q # r PROVE OwnCall(q)'
  <2>1. StoredBy(q)' = StoredBy(q)
    BY <1>1, <1>7 DEF StoredBy, TypeOK
  <2>2. Stamped(q) => Stamped(q)'
    BY <1>1, <1>7 DEF Stamped, TypeOK
  <2>3. OwnCall(q)
    BY DEF OnceInv
  <2>4. pc'[q] = pc[q] /\ ret'[q] = ret[q]
    BY <1>1, <1>7 DEF TypeOK
  <2>5. QED
    BY <2>1, <2>2, <2>3, <2>4 DEF OwnCall
<1>8. QED
  BY <1>3, <1>4, <1>6, <1>7 DEF OnceInv

-----------------------------------------------------------------------------
\* Steps that append.

LEMMA AppendedEvents ==
    ASSUME TypeOK, NEW s \in Streams, NEW batch \in Seq(Event), Extend(s, batch)
    PROVE  Stored' = Stored \cup EventsOf(batch)
<1> USE DEF EventsOf
<1>0. DOMAIN batch = 1..Len(batch) /\ Len(batch) \in Nat
  BY LenProperties
<1>1. ASSUME NEW t \in Streams, t # s PROVE EventsOf(log'[t]) = EventsOf(log[t])
  BY <1>1, AppendedStream
<1>2. EventsOf(log'[s]) = EventsOf(log[s]) \cup EventsOf(batch)
  <2> DEFINE n == Len(log[s])
  <2>1. /\ Len(log'[s]) = n + Len(batch)
        /\ \A i \in 1..n : log'[s][i] = log[s][i]
        /\ \A i \in 1..Len(log'[s]) : i > n => log'[s][i] = batch[i - n]
        /\ DOMAIN log'[s] = 1..Len(log'[s])
        /\ DOMAIN log[s] = 1..n
        /\ n \in Nat
    BY AppendedStream
  <2> HIDE DEF n
  <2>2. ASSUME NEW i \in 1..Len(batch)
        PROVE  i + n \in 1..Len(log'[s]) /\ log'[s][i + n] = batch[i]
    <3>1. i + n \in 1..Len(log'[s]) /\ i + n > n /\ (i + n) - n = i
      BY <1>0, <2>1
    <3>2. QED
      BY <2>1, <3>1
  <2>3. \A i \in 1..n : i \in 1..Len(log'[s])
    BY <1>0, <2>1
  <2>4. \A i \in 1..Len(log'[s]) : i \in 1..n \/ (i > n /\ i - n \in 1..Len(batch))
    BY <1>0, <2>1
  <2>5. ASSUME NEW e \in EventsOf(log'[s]) PROVE e \in EventsOf(log[s]) \cup EventsOf(batch)
    BY <1>0, <2>1, <2>4
  <2>6. ASSUME NEW e \in EventsOf(log[s]) PROVE e \in EventsOf(log'[s])
    BY <2>1, <2>3
  <2>7. ASSUME NEW e \in EventsOf(batch) PROVE e \in EventsOf(log'[s])
    <3>1. PICK i \in 1..Len(batch) : e = batch[i]
      BY <1>0
    <3>2. QED
      BY <2>1, <2>2, <3>1
  <2>8. QED
    BY <2>5, <2>6, <2>7
<1> HIDE DEF EventsOf
<1>3. QED
  BY <1>1, <1>2 DEF Stored

\* A batch of a call that has stored nothing, with its places as numbers, keeps
\* every stored event different from every other.
LEMMA AppendKeepsDistinct ==
    ASSUME TypeOK, AtMostOnce, NEW s \in Streams, NEW batch \in Seq(Event),
           Extend(s, batch), NEW r, NEW c, Places(batch, r, c), Unused(r, c)
    PROVE  AtMostOnce'
<1> DEFINE n == Len(log[s])
           Old(t, i) == i \in 1..Len(log[t]) /\ log'[t][i] = log[t][i] /\ log[t][i] \in Stored
           New(t, i) == t = s /\ i - n \in 1..Len(batch) /\ log'[t][i] = batch[i - n]
<1>1. ASSUME NEW t \in Streams, NEW i \in DOMAIN log'[t] PROVE Old(t, i) \/ New(t, i)
  <2>1. /\ t # s => log'[t] = log[t]
        /\ t = s => /\ Len(log'[t]) = n + Len(batch)
                    /\ \A k \in 1..n : log'[t][k] = log[s][k]
                    /\ \A k \in 1..Len(log'[t]) : k > n => log'[t][k] = batch[k - n]
        /\ DOMAIN log'[t] = 1..Len(log'[t])
        /\ DOMAIN log[t] = 1..Len(log[t])
        /\ Len(log[t]) \in Nat /\ Len(batch) \in Nat
    BY AppendedStream
  <2>2. \A k \in 1..Len(log[t]) : log[t][k] \in Stored
    BY <2>1 DEF Stored, EventsOf
  <2>3. i \in 1..Len(log'[t])
    BY <2>1
  <2>4. CASE t # s
    BY <2>1, <2>2, <2>3, <2>4
  <2>5. CASE t = s /\ i <= n
    BY <2>1, <2>2, <2>3, <2>5
  <2>6. CASE t = s /\ ~(i <= n)
    <3> HIDE DEF n
    <3>1. n \in Nat /\ Len(batch) \in Nat
      BY <2>1, <2>6 DEF n
    <3>2. i > n /\ i \in 1..(n + Len(batch)) /\ log'[t][i] = batch[i - n]
      BY <2>1, <2>3, <2>6, <3>1
    <3>3. i - n \in 1..Len(batch)
      BY <3>1, <3>2
    <3>4. QED
      BY <2>6, <3>2, <3>3
  <2>7. QED
    BY <2>4, <2>5, <2>6
<1>2. ASSUME NEW s1 \in Streams, NEW s2 \in Streams,
             NEW i \in DOMAIN log'[s1], NEW j \in DOMAIN log'[s2],
             SameEmission(log'[s1][i], log'[s2][j])
      PROVE  s1 = s2 /\ i = j
  <2>1. CASE Old(s1, i) /\ Old(s2, j)
    <3>1. i \in DOMAIN log[s1] /\ j \in DOMAIN log[s2]
      BY <2>1, LenProperties DEF TypeOK
    <3>2. SameEmission(log[s1][i], log[s2][j])
      BY <1>2, <2>1
    <3> HIDE DEF Old, New
    <3>3. QED
      BY <3>1, <3>2 DEF AtMostOnce
  <2>2. CASE New(s1, i) /\ New(s2, j)
    <3>1. i - n = j - n
      BY <1>2, <2>2 DEF Places, SameEmission
    <3>2. i \in Int /\ j \in Int /\ n \in Int
      <4>1. /\ DOMAIN log'[s1] = 1..Len(log'[s1])
            /\ DOMAIN log'[s2] = 1..Len(log'[s2])
            /\ Len(log[s]) \in Nat
        BY AppendedStream
      <4>2. QED
        BY <4>1
    <3> HIDE DEF n
    <3>3. i = j
      BY <3>1, <3>2
    <3>4. QED
      BY <2>2, <3>3
  <2>3. CASE Old(s1, i) /\ New(s2, j)
    BY <1>2, <2>3 DEF Places, Unused, SameEmission
  <2>4. CASE New(s1, i) /\ Old(s2, j)
    BY <1>2, <2>4 DEF Places, Unused, SameEmission
  <2>5. QED
    BY <1>1, <2>1, <2>2, <2>3, <2>4
<1>3. QED
  BY <1>2 DEF AtMostOnce

\* A step of r that appends the stamped batch of a call that has stored nothing.
LEMMA AppendInv ==
    ASSUME TypeOK, OnceInv, NEW r \in Repos, NEW s \in Streams, NEW batch \in Seq(Event),
           Extend(s, batch), Len(batch) > 0,
           NEW c, c = calls'[r], Places(batch, r, c), Unused(r, c),
           calls' \in [Repos -> Nat], calls'[r] >= calls[r],
           \A q \in Repos \ {r} : /\ calls'[q] = calls[q] /\ pc'[q] = pc[q]
                                  /\ work'[q] = work[q] /\ ret'[q] = ret[q],
           pc'[r] \notin Undone,
           pc'[r] \in Done => r \in Snapshotting,
           pc'[r] = "idle" => ret'[r].kind \notin Empty(r)
    PROVE  OnceInv'
<1>1. AtMostOnce'
  <2>1. AtMostOnce
    BY DEF OnceInv
  <2>2. QED
    BY <2>1, AppendKeepsDistinct
<1>2. Stored' = Stored \cup EventsOf(batch)
  BY AppendedEvents
<1>3. \A e \in EventsOf(batch) : e.by = r /\ e.call = calls'[r]
  BY LenProperties DEF EventsOf, Places
<1>4. \A e \in Stored' : e.call <= calls'[e.by]
  <2>1. ASSUME NEW e \in Stored PROVE e.call <= calls'[e.by]
    <3>1. e.call <= calls[e.by] /\ e.call \in Nat /\ e.by \in Repos
      BY StoredType DEF OnceInv, Event
    <3>2. calls[e.by] \in Nat /\ calls'[e.by] \in Nat /\ calls[e.by] <= calls'[e.by]
      <4>1. calls[e.by] \in Nat /\ calls'[e.by] \in Nat
        BY <3>1 DEF TypeOK
      <4>2. CASE e.by = r
        BY <4>1, <4>2
      <4>3. CASE e.by # r
        BY <3>1, <4>1, <4>3
      <4>4. QED
        BY <4>2, <4>3
    <3>3. QED
      BY <3>1, <3>2
  <2>2. ASSUME NEW e \in EventsOf(batch) PROVE e.call <= calls'[e.by]
    BY <1>3, <2>2
  <2>3. QED
    BY <1>2, <2>1, <2>2
<1>5. OwnCall(r)'
  <2>1. batch[1] \in EventsOf(batch) /\ batch[1] \in Stored'
    BY <1>2, LenProperties DEF EventsOf
  <2>2. batch[1] \in StoredBy(r)'
    BY <1>3, <2>1 DEF StoredBy, Stored
  <2>3. StoredBy(r)' # {}
    BY <2>2
  <2>4. QED
    BY <2>3 DEF OwnCall, Undone
<1>6. ASSUME NEW q \in Repos, q # r PROVE OwnCall(q)'
  <2>1. StoredBy(q)' = StoredBy(q)
    BY <1>2, <1>3, <1>6 DEF StoredBy, Stored
  <2>2. Stamped(q) => Stamped(q)'
    BY <1>6 DEF Stamped
  <2>3. OwnCall(q)
    BY DEF OnceInv
  <2>4. pc'[q] = pc[q] /\ ret'[q] = ret[q]
    BY <1>6
  <2>5. QED
    BY <2>1, <2>2, <2>3, <2>4 DEF OwnCall
<1>7. QED
  BY <1>1, <1>4, <1>5, <1>6 DEF OnceInv

-----------------------------------------------------------------------------
\* The actions.

LEMMA LoadInv ==
    ASSUME TypeOK, OnceInv, NEW r \in Repos, LoadSnapshot(r) \/ LoadEvents(r)
    PROVE  OnceInv'
<1> USE DEF Results, Undone, Empty
<1>1. CASE LoadSnapshot(r)
  <2>1. CASE RestoreSnapshot(r)
    BY <1>1, <2>1, UndoneInv DEF LoadSnapshot, RestoreSnapshot, TypeOK
  <2>2. CASE FallBackToReplay(r)
    BY <1>1, <2>2, UndoneInv DEF LoadSnapshot, FallBackToReplay
  <2>3. CASE Fails(r, "snapshot decode", "projection")
    BY <1>1, <2>3, ReturnInv DEF LoadSnapshot, Fails
  <2>4. QED
    BY <1>1, <2>1, <2>2, <2>3 DEF LoadSnapshot
<1>2. CASE LoadEvents(r)
  <2>1. CASE EventsLoaded(r) /\ call[r].op = "load"
    <3>1. /\ Goto(r, "idle")
          /\ ret' = [ret EXCEPT ![r] = [kind |-> "loaded", n |-> 1]]
          /\ UNCHANGED <<log, calls>>
          /\ \A q \in Repos \ {r} : work'[q] = work[q]
      BY <1>2, <2>1 DEF LoadEvents, EventsLoaded, ApplyEvents, TypeOK
    <3>2. Quiet(r)
      BY <3>1 DEF Quiet, Goto, TypeOK, Labels
    <3>3. pc'[r] = "idle" /\ ret'[r].kind = "loaded"
      BY <3>1 DEF Goto, TypeOK
    <3>4. OwnCall(r)'
      BY <3>3 DEF OwnCall, Done
    <3>5. QED
      BY <3>2, <3>4, QuietInv
  <2>2. CASE EventsLoaded(r) /\ call[r].op # "load"
    BY <1>2, <2>2, UndoneInv DEF LoadEvents, EventsLoaded, ApplyEvents, TypeOK
  <2>3. CASE Fails(r, "load", "projection") \/ Fails(r, "decode", "projection")
    BY <1>2, <2>3, ReturnInv DEF LoadEvents, Fails
  <2>4. QED
    BY <1>2, <2>1, <2>2, <2>3 DEF LoadEvents
<1>3. QED
  BY <1>1, <1>2

LEMMA HandleInv == ASSUME TypeOK, OnceInv, NEW r \in Repos, Handle(r) PROVE OnceInv'
<1>1. CASE Emit(r)
  <2>1. PICK kinds \in Batches(EventKinds[r], MaxBatch) :
          \/ /\ work' = [work EXCEPT ![r].batch = Stamp(r, calls[r], kinds)]
             /\ Goto(r, "commit")
             /\ UNCHANGED ret
          \/ Fails(r, "encode", "codec")
    BY <1>1 DEF Emit
  <2>2. CASE /\ work' = [work EXCEPT ![r].batch = Stamp(r, calls[r], kinds)]
             /\ Goto(r, "commit")
             /\ UNCHANGED ret
    <3>1. /\ pc' = [pc EXCEPT ![r] = "commit"]
          /\ work'[r].batch = Stamp(r, calls[r], kinds)
          /\ UNCHANGED <<log, calls, ret>>
          /\ \A q \in Repos \ {r} : work'[q] = work[q]
      BY <2>2 DEF Handle, Goto, TypeOK, Locals
    <3>2. Quiet(r)
      BY <3>1 DEF Quiet, TypeOK, Labels
    <3>3. Stamped(r)'
      BY <3>1, StampedStamp DEF Stamped, TypeOK
    <3>4. StoredBy(r)' = StoredBy(r)
      BY <3>1 DEF StoredBy
    <3>5. pc[r] = "handle" /\ pc'[r] = "commit"
      BY <3>1 DEF Handle, TypeOK
    <3>6. OwnCall(r)'
      BY <3>3, <3>4, <3>5 DEF OnceInv, OwnCall, Undone, Done
    <3>7. QED
      BY <3>2, <3>6, QuietInv
  <2>3. CASE Fails(r, "encode", "codec")
    BY <2>3, ReturnInv DEF Handle, Fails, Results, Undone, Empty
  <2>4. QED
    BY <2>1, <2>2, <2>3
<1>2. CASE Return(r, "ok") \/ Return(r, "aggregate")
  BY <1>2, ReturnInv DEF Handle, Results, Undone, Empty
<1>3. QED
  BY <1>1, <1>2 DEF Handle

LEMMA AppendedInv ==
    ASSUME TypeOK, OnceInv, NEW r \in Repos, Commit(r), Appended(r)
    PROVE  OnceInv'
<1>1. PICK c : c = calls[r]
  OBVIOUS
<1>2. /\ work[r].batch \in Seq(Event)
      /\ call[r].s \in Streams
      /\ Extend(call[r].s, work[r].batch)
  BY DEF TypeOK, Locals, Operation, Appended, AppendTo, AppendLater
<1>3. /\ Len(work[r].batch) > 0
      /\ Places(work[r].batch, r, c)
      /\ Unused(r, c)
  BY <1>1 DEF OnceInv, OwnCall, Stamped, Unused, StoredBy, Stored, Commit, Undone
<1>4. /\ c = calls'[r]
      /\ calls' \in [Repos -> Nat]
      /\ calls'[r] >= calls[r]
      /\ \A q \in Repos \ {r} : calls'[q] = calls[q]
  BY <1>1 DEF Commit, TypeOK
<1>5. /\ \A q \in Repos \ {r} : pc'[q] = pc[q] /\ work'[q] = work[q] /\ ret'[q] = ret[q]
      /\ pc'[r] \notin Undone
      /\ pc'[r] \in Done => r \in Snapshotting
      /\ pc'[r] = "idle" => ret'[r].kind \notin Empty(r)
  <2>1. CASE Return(r, "ok") \/ Return(r, "store") \/ Return(r, "cancelled")
    <3>1. pc'[r] = "idle" /\ ret'[r].kind \in {"ok", "store", "cancelled"}
      BY <2>1 DEF Return, Goto, TypeOK
    <3>2. \A q \in Repos \ {r} : pc'[q] = pc[q] /\ work'[q] = work[q] /\ ret'[q] = ret[q]
      BY <2>1 DEF Return, Goto, TypeOK
    <3>3. QED
      BY <3>1, <3>2 DEF Undone, Done, Empty
  <2>2. CASE Goto(r, "stream version") /\ UNCHANGED <<work, ret>> /\ r \in Snapshotting
    BY <2>2 DEF Goto, TypeOK, Undone
  <2>3. QED
    BY <2>1, <2>2 DEF Appended, AfterCommit, Fails
<1>6. QED
  BY <1>2, <1>3, <1>4, <1>5, AppendInv

LEMMA CommitInv == ASSUME TypeOK, OnceInv, NEW r \in Repos, Commit(r) PROVE OnceInv'
<1>1. CASE Appended(r)
  BY <1>1, AppendedInv
<1>2. CASE Conflicted(r)
  <2>1. CASE call[r].attempt <= call[r].max
    <3>1. /\ FirstAwait(r) \in Undone \ {"commit"}
          /\ pc[r] \in Undone
          /\ Goto(r, FirstAwait(r))
          /\ UNCHANGED <<log, calls, ret>>
          /\ \A q \in Repos \ {r} : work'[q] = work[q]
      BY <1>2, <2>1, FirstAwaitUndone DEF Commit, Conflicted, Undone, TypeOK
    <3>2. QED
      BY <3>1, UndoneInv
  <2>2. CASE ~(call[r].attempt <= call[r].max)
    BY <1>2, <2>2, ReturnInv DEF Commit, Conflicted, Results, Undone
  <2>3. QED
    BY <2>1, <2>2
<1>3. CASE NotAppended(r)
  BY <1>3, ReturnInv DEF Commit, NotAppended, Fails, Results, Empty
<1>4. QED
  BY <1>1, <1>2, <1>3 DEF Commit

LEMMA ReadVersionInv == ASSUME TypeOK, OnceInv, NEW r \in Repos, ReadVersion(r) PROVE OnceInv'
<1>1. CASE /\ work' = [work EXCEPT ![r].pos = VisibleTo(r)]
           /\ Goto(r, IF VisibleTo(r) = 0 THEN "panic" ELSE "offer")
           /\ UNCHANGED ret
  <2>1. /\ pc' \in [Repos -> Labels]
        /\ pc'[r] \in {"panic", "offer"}
        /\ \A q \in Repos \ {r} : pc'[q] = pc[q] /\ work'[q] = work[q]
    BY <1>1 DEF Goto, TypeOK, Labels
  <2>2. UNCHANGED <<log, calls, ret>> /\ pc[r] = "stream version"
    BY <1>1 DEF ReadVersion
  <2>3. Quiet(r)
    BY <2>1, <2>2 DEF Quiet
  <2>4. StoredBy(r)' = StoredBy(r)
    BY <2>2 DEF StoredBy
  <2>5. OwnCall(r)'
    BY <2>1, <2>2, <2>4 DEF OnceInv, OwnCall, Undone, Done
  <2>6. QED
    BY <2>3, <2>5, QuietInv
<1>2. CASE Fails(r, "version", "store")
  BY <1>2, ReturnInv DEF ReadVersion, Fails, Results, Empty
<1>3. QED
  BY <1>1, <1>2 DEF ReadVersion

LEMMA OfferInv == ASSUME TypeOK, OnceInv, NEW r \in Repos, Offer(r) PROVE OnceInv'
<1>1. UNCHANGED <<log, calls>> /\ pc[r] \in Done /\ r \in Snapshotting
  BY DEF Offer, Done, OnceInv, OwnCall
<1>2. Return(r, "ok") \/ Return(r, "codec") \/ Return(r, "snapshot")
  BY DEF Offer, Fails
<1>3. QED
  BY <1>1, <1>2, ReturnInv DEF Results, Empty

LEMMA StopInv ==
    ASSUME TypeOK, OnceInv, NEW r \in Repos, Cancel(r) \/ Restart(r)
    PROVE  OnceInv'
BY ReturnInv DEF Cancel, Restart, Fails, Results, Empty

LEMMA LandInv == ASSUME TypeOK, OnceInv, NEW s \in Streams, Land(s) PROVE OnceInv'
BY DEF Land, OnceInv, AtMostOnce, Stored, OwnCall, Stamped, Places, StoredBy

\* A fixture is a call of its own that appends a batch or, failing, nothing.
LEMMA InjectInv == ASSUME TypeOK, OnceInv, NEW r \in Repos, Inject(r) PROVE OnceInv'
<1>1. PICK c \in Nat : c = calls[r] + 1
  BY DEF TypeOK
<1>2. PICK kind \in {"injected", "store", "codec"} : Reports(r, kind)
  BY DEF Inject
<1>3. /\ c = calls'[r]
      /\ calls' \in [Repos -> Nat]
      /\ calls'[r] >= calls[r]
      /\ \A q \in Repos \ {r} : calls'[q] = calls[q]
  <2>1. calls' = [calls EXCEPT ![r] = @ + 1]
    BY DEF Inject
  <2>2. QED
    BY <1>1, <2>1 DEF TypeOK
<1>4. Unused(r, c)
  <2>1. \A e \in Stored : e.call \in Nat /\ e.call <= calls[e.by]
    BY StoredType DEF OnceInv, Event
  <2>2. QED
    BY <1>1, <2>1 DEF Unused, TypeOK
<1>5. /\ UNCHANGED <<pc, work>> /\ pc[r] = "idle"
      /\ \A q \in Repos \ {r} : ret'[q] = ret[q]
      /\ ret'[r].kind \in {"injected", "store", "codec"}
  BY <1>2 DEF Inject, Reports, TypeOK, Empty
<1>6. CASE \E s \in Streams,
             kinds \in Batches(EventKinds[r], MaxBatch) \cup {<<k>> : k \in Kinds} :
             /\ Extend(s, Stamp(r, calls[r] + 1, kinds))
             /\ Reports(r, "injected") \/ Reports(r, "store")
  <2>1. PICK s \in Streams,
             kinds \in Batches(EventKinds[r], MaxBatch) \cup {<<k>> : k \in Kinds} :
          Extend(s, Stamp(r, c, kinds))
    BY <1>1, <1>6
  <2>2. /\ Stamp(r, c, kinds) \in Seq(Event)
        /\ Len(Stamp(r, c, kinds)) > 0
        /\ Places(Stamp(r, c, kinds), r, c)
    BY StampedStamp
  <2>3. /\ pc'[r] \notin Undone /\ pc'[r] \notin Done
        /\ ret'[r].kind \notin Empty(r)
    BY <1>5, <1>6 DEF Undone, Done, Empty, Reports, TypeOK
  <2>4. QED
    BY <1>3, <1>4, <1>5, <2>1, <2>2, <2>3, AppendInv
<1>7. CASE UNCHANGED log
  <2>1. AtMostOnce'
    BY <1>7 DEF OnceInv, AtMostOnce
  <2>2. Stored' = Stored
    BY <1>7 DEF Stored
  <2>3. \A e \in Stored' : e.call <= calls'[e.by]
    <3>1. \A e \in Stored : e.by \in Repos /\ e.call \in Nat /\ e.call <= calls[e.by]
      BY StoredType DEF OnceInv, Event
    <3>2. \A q \in Repos : calls[q] \in Nat /\ calls'[q] \in Nat /\ calls[q] <= calls'[q]
      <4>1. calls \in [Repos -> Nat]
        BY DEF TypeOK
      <4>2. QED
        BY <1>3, <4>1
    <3>3. QED
      BY <2>2, <3>1, <3>2
  <2>4. OwnCall(r)'
    <3>1. StoredBy(r)' = {}
      BY <1>3, <1>4, <2>2 DEF StoredBy, Stored, Unused
    <3>2. QED
      BY <1>5, <3>1 DEF OwnCall, Undone, Done
  <2>5. ASSUME NEW q \in Repos, q # r PROVE OwnCall(q)'
    <3>1. StoredBy(q)' = StoredBy(q)
      BY <1>3, <1>7, <2>5 DEF StoredBy
    <3>2. Stamped(q) => Stamped(q)'
      BY <1>3, <1>5, <2>5 DEF Stamped
    <3>3. OwnCall(q)
      BY DEF OnceInv
    <3>4. pc'[q] = pc[q] /\ ret'[q] = ret[q]
      BY <1>5, <2>5
    <3>5. QED
      BY <3>1, <3>2, <3>3, <3>4 DEF OwnCall
  <2>6. QED
    BY <2>1, <2>3, <2>4, <2>5 DEF OnceInv
<1>8. QED
  BY <1>6, <1>7 DEF Inject, AppendTo, AppendLater

-----------------------------------------------------------------------------
\* The theorems.

LEMMA OnceInductive == TypeOK /\ OnceInv /\ [Next]_vars => OnceInv'
<1> SUFFICES ASSUME TypeOK, OnceInv, [Next]_vars PROVE OnceInv'
  OBVIOUS
<1>1. CASE UNCHANGED vars
  BY <1>1 DEF vars, OnceInv, AtMostOnce, Stored, OwnCall, Stamped, Places, StoredBy
<1>2. ASSUME NEW r \in Repos, Begin(r) PROVE OnceInv'
  BY <1>2, BeginInv
<1>3. ASSUME NEW r \in Repos, Step(r) PROVE OnceInv'
  BY <1>3, LoadInv, HandleInv, CommitInv, ReadVersionInv, OfferInv DEF Step
<1>4. ASSUME NEW r \in Repos, Cancel(r) \/ Restart(r) \/ Inject(r) PROVE OnceInv'
  BY <1>4, StopInv, InjectInv
<1>5. ASSUME NEW s \in Streams, Land(s) PROVE OnceInv'
  BY <1>5, LandInv
<1>6. QED
  BY <1>1, <1>2, <1>3, <1>4, <1>5 DEF Next

LEMMA OnceHolds == Spec => []OnceInv
<1>1. Init => OnceInv
  <2> SUFFICES ASSUME Init PROVE OnceInv
    OBVIOUS
  <2>1. \A s \in Streams : EventsOf(log[s]) = {} /\ DOMAIN log[s] = {}
    BY DEF Init, EventsOf
  <2>2. QED
    BY <2>1 DEF Init, OnceInv, AtMostOnce, Stored, OwnCall, StoredBy, Undone, Done, Empty
<1>2. QED
  BY <1>1, OnceInductive, TypeCorrect, PTL DEF Spec

\* Whatever fails and however often a command is retried, no event of it is
\* stored twice.
THEOREM StoredAtMostOnce == Spec => []AtMostOnce
<1>1. OnceInv => AtMostOnce
  BY DEF OnceInv
<1>2. QED
  BY <1>1, OnceHolds, PTL

\* A caller told of a conflict, a rejection or a failed load may run the command
\* again; one told that the snapshot failed must not.
THEOREM OutcomeReported == Spec => []ReportedOutcome
<1>1. OnceInv => ReportedOutcome
  BY DEF OnceInv, OwnCall, ReportedOutcome, Empty
<1>2. QED
  BY <1>1, OnceHolds, PTL

-----------------------------------------------------------------------------
\* Retries.

\* While an operation runs it has met one conflict per attempt already made, and
\* it has not been given more attempts than it was called with.
Attempts(r) ==
    /\ call[r].attempt <= call[r].max + 1
    /\ pc[r] # "idle" => conflicts[r] = call[r].attempt - 1
    /\ pc[r] = "idle" /\ ret[r].kind = "ok" =>
         conflicts[r] = ret[r].n - 1 /\ ret[r].n <= call[r].max + 1
    /\ pc[r] = "idle" /\ ret[r].kind = "concurrency" => conflicts[r] = call[r].max + 1

RetryInv == \A r \in Repos : Attempts(r)

\* A step of r does not touch what another repository counts.
LEMMA OthersCount ==
    ASSUME RetryInv, NEW r \in Repos,
           \A q \in Repos \ {r} : /\ pc'[q] = pc[q] /\ ret'[q] = ret[q]
                                  /\ call'[q] = call[q] /\ conflicts'[q] = conflicts[q],
           Attempts(r)'
    PROVE  RetryInv'
BY DEF RetryInv, Attempts

\* Going on to another await counts nothing.
LEMMA AwaitCounts ==
    ASSUME TypeOK, RetryInv, NEW r \in Repos, NEW label \in Labels \ {"idle"},
           pc[r] # "idle", Goto(r, label), UNCHANGED <<call, conflicts, ret>>
    PROVE  RetryInv'
<1>1. pc'[r] = label /\ \A q \in Repos \ {r} : pc'[q] = pc[q]
  BY DEF Goto, TypeOK
<1>2. Attempts(r)'
  BY <1>1 DEF RetryInv, Attempts
<1>3. QED
  BY <1>1, <1>2, OthersCount

\* Returning reports the attempts made.
LEMMA ReturnCounts ==
    ASSUME TypeOK, RetryInv, NEW r \in Repos, NEW kind \in Results,
           kind = "ok" => pc[r] # "idle", kind # "concurrency",
           Return(r, kind), UNCHANGED <<call, conflicts>>
    PROVE  RetryInv'
<1>1. /\ pc'[r] = "idle" /\ ret'[r] = [kind |-> kind, n |-> call[r].attempt]
      /\ \A q \in Repos \ {r} : pc'[q] = pc[q] /\ ret'[q] = ret[q]
  BY DEF Return, Goto, TypeOK
<1>2. Attempts(r)'
  BY <1>1 DEF RetryInv, Attempts
<1>3. QED
  BY <1>1, <1>2, OthersCount

LEMMA BeginCounts == ASSUME TypeOK, RetryInv, NEW r \in Repos, Begin(r) PROVE RetryInv'
<1>1. PICK s \in Streams, op \in {"load", "execute"}, max \in 0..MaxRetries :
        call' = [call EXCEPT ![r] = [op |-> op, s |-> s, max |-> max, attempt |-> 1]]
  BY DEF Begin
<1>2. /\ pc'[r] # "idle" /\ conflicts'[r] = 0
      /\ \A q \in Repos \ {r} : /\ pc'[q] = pc[q] /\ ret'[q] = ret[q]
                                /\ conflicts'[q] = conflicts[q]
  BY DEF Begin, Goto, FirstAwait, TypeOK
<1>3. /\ call'[r].attempt = 1 /\ call'[r].max = max
      /\ \A q \in Repos \ {r} : call'[q] = call[q]
  BY <1>1 DEF TypeOK
<1>4. max \in Nat
  BY ConfigAssumption DEF ConfigAssumption
<1>5. Attempts(r)'
  BY <1>2, <1>3, <1>4 DEF Attempts
<1>6. QED
  BY <1>2, <1>3, <1>5, OthersCount

LEMMA LoadCounts ==
    ASSUME TypeOK, RetryInv, NEW r \in Repos, LoadSnapshot(r) \/ LoadEvents(r)
    PROVE  RetryInv'
<1>1. UNCHANGED <<call, conflicts>> /\ pc[r] # "idle"
  BY DEF LoadSnapshot, LoadEvents
<1>2. CASE (Goto(r, "load events") \/ Goto(r, "handle")) /\ UNCHANGED ret
  BY <1>1, <1>2, AwaitCounts DEF Labels
<1>3. CASE Return(r, "projection")
  BY <1>1, <1>3, ReturnCounts DEF Results
<1>4. CASE Goto(r, "idle") /\ ret' = [ret EXCEPT ![r] = [kind |-> "loaded", n |-> 1]]
  <2>1. /\ pc'[r] = "idle" /\ ret'[r].kind = "loaded"
        /\ \A q \in Repos \ {r} : pc'[q] = pc[q] /\ ret'[q] = ret[q]
    BY <1>4 DEF Goto, TypeOK
  <2>2. Attempts(r)'
    BY <1>1, <2>1 DEF RetryInv, Attempts
  <2>3. QED
    BY <1>1, <2>1, <2>2, OthersCount
<1>5. QED
  BY <1>2, <1>3, <1>4
  DEF LoadSnapshot, RestoreSnapshot, FallBackToReplay, LoadEvents, EventsLoaded, Fails

LEMMA HandleCounts == ASSUME TypeOK, RetryInv, NEW r \in Repos, Handle(r) PROVE RetryInv'
<1>1. UNCHANGED <<call, conflicts>> /\ pc[r] # "idle"
  BY DEF Handle
<1>2. CASE Goto(r, "commit") /\ UNCHANGED ret
  BY <1>1, <1>2, AwaitCounts DEF Labels
<1>3. CASE Return(r, "codec") \/ Return(r, "ok") \/ Return(r, "aggregate")
  BY <1>1, <1>3, ReturnCounts DEF Results
<1>4. QED
  BY <1>2, <1>3 DEF Handle, Emit, Fails

\* A conflict is the one step that counts: one more attempt, or none is left.
LEMMA ConflictCounts ==
    ASSUME TypeOK, RetryInv, NEW r \in Repos, Commit(r), Conflicted(r)
    PROVE  RetryInv'
<1>1. /\ conflicts' = [conflicts EXCEPT ![r] = @ + 1]
      /\ conflicts[r] = call[r].attempt - 1
      /\ call[r].attempt <= call[r].max + 1
      /\ call[r].attempt \in Nat /\ call[r].max \in Nat /\ conflicts[r] \in Nat
  BY ConfigAssumption
  DEF ConfigAssumption, Commit, Conflicted, RetryInv, Attempts, TypeOK, Operation
<1>2. conflicts'[r] = call[r].attempt /\ \A q \in Repos \ {r} : conflicts'[q] = conflicts[q]
  BY <1>1 DEF TypeOK
<1>3. CASE call[r].attempt <= call[r].max
  <2>1. /\ call' = [call EXCEPT ![r].attempt = @ + 1]
        /\ Goto(r, FirstAwait(r))
        /\ UNCHANGED ret
    BY <1>3 DEF Conflicted
  <2>2. /\ call'[r].attempt = call[r].attempt + 1 /\ call'[r].max = call[r].max
        /\ \A q \in Repos \ {r} : call'[q] = call[q]
    BY <2>1 DEF TypeOK, Operation
  <2>3. pc'[r] # "idle" /\ \A q \in Repos \ {r} : pc'[q] = pc[q]
    BY <2>1 DEF Goto, FirstAwait, TypeOK
  <2>4. Attempts(r)'
    BY <1>1, <1>2, <1>3, <2>2, <2>3 DEF Attempts
  <2>5. QED
    BY <1>2, <2>1, <2>2, <2>3, <2>4, OthersCount
<1>4. CASE ~(call[r].attempt <= call[r].max)
  <2>1. Return(r, "concurrency") /\ UNCHANGED call
    BY <1>4 DEF Conflicted
  <2>2. /\ pc'[r] = "idle" /\ ret'[r].kind = "concurrency"
        /\ \A q \in Repos \ {r} : pc'[q] = pc[q] /\ ret'[q] = ret[q]
    BY <2>1 DEF Return, Goto, TypeOK
  <2>3. call[r].attempt = call[r].max + 1
    BY <1>1, <1>4
  <2>4. Attempts(r)'
    BY <1>1, <1>2, <2>1, <2>2, <2>3 DEF Attempts
  <2>5. QED
    BY <1>2, <2>1, <2>2, <2>4, OthersCount
<1>5. QED
  BY <1>3, <1>4

LEMMA CommitCounts == ASSUME TypeOK, RetryInv, NEW r \in Repos, Commit(r) PROVE RetryInv'
<1>1. pc[r] # "idle"
  BY DEF Commit
<1>2. CASE Conflicted(r)
  BY <1>2, ConflictCounts
<1>3. CASE Goto(r, "stream version") /\ UNCHANGED <<ret, call, conflicts>>
  BY <1>1, <1>3, AwaitCounts DEF Labels
<1>4. CASE /\ Return(r, "ok") \/ Return(r, "store") \/ Return(r, "cancelled")
           /\ UNCHANGED <<call, conflicts>>
  BY <1>1, <1>4, ReturnCounts DEF Results
<1>5. QED
  BY <1>2, <1>3, <1>4 DEF Commit, Appended, NotAppended, AfterCommit, Fails

LEMMA ReadVersionCounts ==
    ASSUME TypeOK, RetryInv, NEW r \in Repos, ReadVersion(r)
    PROVE  RetryInv'
<1>1. UNCHANGED <<call, conflicts>> /\ pc[r] # "idle"
  BY DEF ReadVersion
<1>2. CASE (Goto(r, "panic") \/ Goto(r, "offer")) /\ UNCHANGED ret
  BY <1>1, <1>2, AwaitCounts DEF Labels
<1>3. CASE Return(r, "store")
  BY <1>1, <1>3, ReturnCounts DEF Results
<1>4. QED
  BY <1>2, <1>3 DEF ReadVersion, Fails

LEMMA OfferCounts == ASSUME TypeOK, RetryInv, NEW r \in Repos, Offer(r) PROVE RetryInv'
<1>1. UNCHANGED <<call, conflicts>> /\ pc[r] # "idle"
  BY DEF Offer
<1>2. Return(r, "ok") \/ Return(r, "codec") \/ Return(r, "snapshot")
  BY DEF Offer, Fails
<1>3. QED
  BY <1>1, <1>2, ReturnCounts DEF Results

LEMMA StopCounts ==
    ASSUME TypeOK, RetryInv, NEW r \in Repos, Cancel(r) \/ Restart(r)
    PROVE  RetryInv'
BY ReturnCounts DEF Cancel, Restart, Fails, Results

LEMMA InjectCounts == ASSUME TypeOK, RetryInv, NEW r \in Repos, Inject(r) PROVE RetryInv'
<1>1. UNCHANGED <<pc, call, conflicts>> /\ pc[r] = "idle"
  BY DEF Inject
<1>2. PICK kind \in {"injected", "store", "codec"} : Reports(r, kind)
  BY DEF Inject
<1>3. ret'[r].kind = kind /\ \A q \in Repos \ {r} : ret'[q] = ret[q]
  BY <1>2 DEF Reports, TypeOK
<1>4. Attempts(r)'
  BY <1>1, <1>3 DEF RetryInv, Attempts
<1>5. QED
  BY <1>1, <1>3, <1>4, OthersCount

LEMMA LandCounts == ASSUME RetryInv, NEW s \in Streams, Land(s) PROVE RetryInv'
BY DEF Land, RetryInv, Attempts

LEMMA RetryInductive == TypeOK /\ RetryInv /\ [Next]_vars => RetryInv'
<1> SUFFICES ASSUME TypeOK, RetryInv, [Next]_vars PROVE RetryInv'
  OBVIOUS
<1>1. CASE UNCHANGED vars
  BY <1>1 DEF vars, RetryInv, Attempts
<1>2. ASSUME NEW r \in Repos, Begin(r) PROVE RetryInv'
  BY <1>2, BeginCounts
<1>3. ASSUME NEW r \in Repos, Step(r) PROVE RetryInv'
  BY <1>3, LoadCounts, HandleCounts, CommitCounts, ReadVersionCounts, OfferCounts DEF Step
<1>4. ASSUME NEW r \in Repos, Cancel(r) \/ Restart(r) \/ Inject(r) PROVE RetryInv'
  BY <1>4, StopCounts, InjectCounts
<1>5. ASSUME NEW s \in Streams, Land(s) PROVE RetryInv'
  BY <1>5, LandCounts
<1>6. QED
  BY <1>1, <1>2, <1>3, <1>4, <1>5 DEF Next

\* The count execute_with_retry returns is the number of executions it took, the
\* earlier ones all lost to a conflict, and it gives up after max_retries + 1.
THEOREM RetriesCounted == Spec => []RetryAccounting
<1>1. Init => RetryInv
  BY DEF Init, RetryInv, Attempts
<1>2. RetryInv => RetryAccounting
  BY DEF RetryInv, Attempts, RetryAccounting
<1>3. QED
  BY <1>1, <1>2, RetryInductive, TypeCorrect, PTL DEF Spec
=============================================================================
