----------------------------- MODULE Repository -----------------------------
(***************************************************************************)
(* sourcery-core's Repository: load an aggregate, execute a command on it, *)
(* retry on a concurrency conflict, take snapshots.  Several repositories  *)
(* work on one event store, as clones of the Postgres store over one pool  *)
(* do; each runs one operation at a time (execute_* borrows it mutably).   *)
(*                                                                         *)
(* An operation is cut where the code awaits a store, so the steps of two  *)
(* repositories interleave there and nowhere else.  Appending a batch is   *)
(* one step: the in-memory store is borrowed mutably while it appends, and *)
(* the Postgres store holds the stream's row lock from reading its version *)
(* to the end of the transaction.  A COMMIT whose answer nobody waits for  *)
(* any more keeps the lock until the database executes it; until then the  *)
(* others wait to append, and read the stream without its batch.           *)
(***************************************************************************)
EXTENDS EventStream, FiniteSets

CONSTANTS
    Repos,           \* the repositories
    Streams,         \* the aggregate ids of one aggregate kind
    Kinds,           \* the event kinds that can be stored in its streams
    EventKinds,      \* [Repos -> SUBSET Kinds]: EVENT_KINDS of the repository's
                     \* build of the aggregate's event enum
    Strategy,        \* [Repos -> {"optimistic", "unchecked"}]
    Policy,          \* [Repos -> {"off", "always", "every", "never"}]: "off" is a
                     \* repository without snapshots, the rest are SnapshotPolicy
    Threshold,       \* the N of EveryNEvents
    SnapshotStores,  \* the snapshot stores
    StoreOf,         \* [Repos -> SnapshotStores]: the one a repository uses
    StoreKind,       \* "inmemory" or "postgres": the event store behind the trait
    Fixtures,        \* repositories whose owner also calls RepositoryTestExt
    Permits(_, _),   \* Handle::handle: may this aggregate emit these kinds?
    Faults,          \* what may go wrong outside the library, see FaultKinds
    MaxCalls,        \* [Repos -> Nat]: bound on the calls made on a repository
    MaxBatch,        \* bound on the events one command emits
    MaxRetries       \* bound on the max_retries given to execute_with_retry

FaultKinds ==
    {"snapshot load",    \* SnapshotStore::load fails
     "snapshot decode",  \* stored snapshot data no longer deserializes
     "load",             \* EventStore::load_events fails
     "decode",           \* a stored event does not decode
     "encode",           \* an event of the batch does not serialize
     "append",           \* the append fails, nothing is stored
     "late append",      \* the answer to COMMIT is lost, not the COMMIT
     "version",          \* EventStore::stream_version fails
     "snapshot encode",  \* the aggregate does not serialize
     "snapshot store",   \* offer_snapshot fails to persist
     "cancel",           \* the caller drops the future
     "restart"}          \* the process stops, in-process snapshots are lost

Snapshotting == {r \in Repos : Policy[r] # "off"}

ASSUME ConfigAssumption ==
    /\ EventKinds \in [Repos -> SUBSET Kinds]
    /\ Strategy \in [Repos -> {"optimistic", "unchecked"}]
    /\ Policy \in [Repos -> {"off", "always", "every", "never"}]
    /\ StoreOf \in [Repos -> SnapshotStores]
    /\ StoreKind \in {"inmemory", "postgres"}
    /\ Fixtures \subseteq Repos
    /\ Faults \subseteq FaultKinds
    /\ Threshold \in Nat
    /\ MaxCalls \in [Repos -> Nat]
    /\ MaxBatch \in Nat \ {0}
    /\ MaxRetries \in Nat

\* The in-memory store cannot be cloned and never fails (InMemoryError has no
\* value): one repository owns it, and it dies with the process.
ASSUME StoreAssumption ==
    StoreKind = "inmemory" =>
        /\ \A r1, r2 \in Repos : r1 = r2
        /\ Faults \cap {"load", "append", "late append", "version", "restart"} = {}

VARIABLES
    log,        \* [Streams -> sequence of events]: the event store
    visible,    \* [Streams -> Nat]: how many of them a query returns; fewer than
                \* there are while the COMMIT of the last batch is under way
    snaps,      \* [SnapshotStores -> [Streams -> snapshot]]
    pc,         \* [Repos -> the await an operation is at]
    call,       \* [Repos -> the operation being run]
    work,       \* [Repos -> its local variables]
    ret,        \* [Repos -> what the last operation returned]
    calls,      \* [Repos -> operations begun on a repository]
    conflicts   \* history: [Repos -> conflicts the operation has met]

vars == <<log, visible, snaps, pc, call, work, ret, calls, conflicts>>

Event == [by : Repos, call : Nat, n : Nat, kind : Kinds]
Snapshot == [pos : Nat, data : SUBSET Event, by : Repos]
NoSnapshot == [pos |-> NoPosition]

\* by is the writer of the snapshot: the model's note, not part of the code's.
SnapshotAt(p, d, r) == [pos |-> p, data |-> d, by |-> r]

\* asOf is a history field: how long the stream was when its events were read.
NoWork == [agg |-> {}, version |-> NoPosition, since |-> 0, batch |-> <<>>,
           pos |-> NoPosition, asOf |-> 0]

Init ==
    /\ log = [s \in Streams |-> <<>>]
    /\ visible = [s \in Streams |-> 0]
    /\ snaps = [x \in SnapshotStores |-> [s \in Streams |-> NoSnapshot]]
    /\ pc = [r \in Repos |-> "idle"]
    /\ call \in [Repos -> {[op |-> "load", s |-> s, max |-> 0, attempt |-> 1] : s \in Streams}]
    /\ work = [r \in Repos |-> NoWork]
    /\ ret = [r \in Repos |-> [kind |-> "none", n |-> 0]]
    /\ calls = [r \in Repos |-> 0]
    /\ conflicts = [r \in Repos |-> 0]

-----------------------------------------------------------------------------
\* Small parts of the operations.

StreamOf(r) == log[call[r].s]
VisibleTo(r) == visible[call[r].s]
SnapshotOf(r) == snaps[StoreOf[r]][call[r].s]

FirstAwait(r) == IF r \in Snapshotting THEN "load snapshot" ELSE "load events"

Goto(r, label) == pc' = [pc EXCEPT ![r] = label]

\* The operation returns; its locals are dropped.
Return(r, kind) ==
    /\ Goto(r, "idle")
    /\ work' = [work EXCEPT ![r] = NoWork]
    /\ ret' = [ret EXCEPT ![r] = [kind |-> kind, n |-> call[r].attempt]]

Fails(r, fault, kind) == fault \in Faults /\ Return(r, kind)

\* No COMMIT is under way on the stream: its row can be locked.
Settled(s) == visible[s] = Len(log[s])

\* A batch is appended, and its COMMIT is answered, or is still under way.
Extend(s, batch) == log' = [log EXCEPT ![s] = @ \o batch]
AppendTo(s, batch) ==
    /\ Extend(s, batch)
    /\ visible' = [visible EXCEPT ![s] = Len(log[s]) + Len(batch)]
AppendLater(s, batch) == Extend(s, batch) /\ UNCHANGED visible

-----------------------------------------------------------------------------
\* Repository::load, execute_command and execute_with_retry are called.

Begin(r) ==
    /\ pc[r] = "idle"
    /\ calls[r] < MaxCalls[r]
    /\ \E s \in Streams, op \in {"load", "execute"}, max \in 0..MaxRetries :
         \* max = 0 is execute_command; only Optimistic has execute_with_retry.
         /\ (op = "load" \/ Strategy[r] = "unchecked") => max = 0
         /\ call' = [call EXCEPT ![r] = [op |-> op, s |-> s, max |-> max, attempt |-> 1]]
    /\ calls' = [calls EXCEPT ![r] = @ + 1]
    /\ conflicts' = [conflicts EXCEPT ![r] = 0]
    /\ work' = [work EXCEPT ![r] = NoWork]
    /\ Goto(r, FirstAwait(r))
    /\ UNCHANGED <<log, visible, snaps, ret>>

\* load_aggregate asks the snapshot store first.  A failing store means full
\* replay; a snapshot that does not deserialize is an error.
RestoreSnapshot(r) ==
    /\ work' = [work EXCEPT ![r] =
                  IF SnapshotOf(r) = NoSnapshot THEN NoWork
                  ELSE [NoWork EXCEPT !.agg = SnapshotOf(r).data,
                                      !.version = SnapshotOf(r).pos]]
    /\ Goto(r, "load events")
    /\ UNCHANGED ret

FallBackToReplay(r) ==
    /\ "snapshot load" \in Faults
    /\ Goto(r, "load events")
    /\ UNCHANGED <<work, ret>>

LoadSnapshot(r) ==
    /\ pc[r] = "load snapshot"
    /\ \/ RestoreSnapshot(r)
       \/ FallBackToReplay(r)
       \/ SnapshotOf(r) # NoSnapshot /\ Fails(r, "snapshot decode", "projection")
    /\ UNCHANGED <<log, visible, snaps, call, calls, conflicts>>

\* The events after the snapshot are read, in one query, and applied.  The
\* version is the position of the last of them, else that of the snapshot.
ApplyEvents(r) ==
    LET after == work[r].version
        len   == VisibleTo(r)
        K     == EventKinds[r]
    IN  \E v \in after..len :
          /\ IsLastMatch(v, StreamOf(r), K, after, len)
          /\ work' = [work EXCEPT ![r] =
               [agg     |-> work[r].agg \cup Replay(StreamOf(r), K, after, len),
                version |-> v,
                since   |-> Cardinality(Matching(StreamOf(r), K, after, len)),
                batch   |-> <<>>,
                pos     |-> NoPosition,
                asOf    |-> len]]

EventsLoaded(r) ==
    /\ ApplyEvents(r)
    /\ IF call[r].op = "load"
       THEN /\ Goto(r, "idle")
            /\ ret' = [ret EXCEPT ![r] = [kind |-> "loaded", n |-> 1]]
       ELSE Goto(r, "handle") /\ UNCHANGED ret

LoadEvents(r) ==
    /\ pc[r] = "load events"
    /\ \/ EventsLoaded(r)
       \/ Fails(r, "load", "projection")
       \/ Fails(r, "decode", "projection")
    /\ UNCHANGED <<log, visible, snaps, call, calls, conflicts>>

\* Handle::handle decides on the aggregate; its events are buffered in a
\* Transaction, which an event that does not serialize drops.
Emit(r) ==
    \E kinds \in Batches(EventKinds[r], MaxBatch) :
        /\ Permits(work[r].agg, kinds)
        /\ \/ /\ work' = [work EXCEPT ![r].batch = Stamp(r, calls[r], kinds)]
              /\ Goto(r, "commit")
              /\ UNCHANGED ret
           \/ Fails(r, "encode", "codec")

\* Mutant: the early return for a handler that returned no events is missing.
HandleEmptyToo(r) ==
    /\ pc[r] = "handle"
    /\ \/ Emit(r)
       \/ Goto(r, "commit") /\ UNCHANGED <<work, ret>>
       \/ Return(r, "aggregate")
    /\ UNCHANGED <<log, visible, snaps, call, calls, conflicts>>

Handle(r) ==
    /\ pc[r] = "handle"
    /\ \/ Emit(r)
       \/ Return(r, "ok")           \* the handler returned no events
       \/ Return(r, "aggregate")    \* the handler rejected the command
    /\ UNCHANGED <<log, visible, snaps, call, calls, conflicts>>

-----------------------------------------------------------------------------
\* Transaction::commit.  Unchecked appends whatever the version; Optimistic
\* asks for the loaded version, or for an empty stream if there was none.

\* Mutant: no version means no check (append instead of append_expecting_new).
AnyVersionAccepted(r) ==
    (Strategy[r] = "optimistic" /\ work[r].version # NoPosition) =>
        Len(StreamOf(r)) = work[r].version

VersionAccepted(r) ==
    CASE Strategy[r] = "unchecked"      -> TRUE
      [] work[r].version # NoPosition   -> Len(StreamOf(r)) = work[r].version
      [] OTHER                          -> Len(StreamOf(r)) = 0

\* append_expecting_new of the Postgres store reads last_position of the row it
\* has just inserted as a plain i64: the NULL there is a decode error.
NewStreamFails(r) ==
    /\ StoreKind = "postgres"
    /\ Strategy[r] = "optimistic"
    /\ work[r].version = NoPosition
    /\ Len(StreamOf(r)) = 0

\* Mutant: the retry loop goes on after a success.
AfterCommitAgain(r) ==
    IF call[r].attempt <= call[r].max
    THEN Goto(r, FirstAwait(r)) /\ work' = [work EXCEPT ![r] = NoWork] /\ UNCHANGED ret
    ELSE Return(r, "ok")

AfterCommit(r) ==
    IF r \in Snapshotting
    THEN Goto(r, "stream version") /\ UNCHANGED <<work, ret>>
    ELSE Return(r, "ok")

\* Mutant: a store error is retried like a conflict.
AppendedRetryingErrors(r) ==
    /\ VersionAccepted(r)
    /\ ~NewStreamFails(r)
    /\ UNCHANGED <<call, conflicts>>
    /\ \/ AppendTo(call[r].s, work[r].batch) /\ AfterCommit(r)
       \/ /\ "late append" \in Faults
          /\ AppendLater(call[r].s, work[r].batch)
          /\ work' = [work EXCEPT ![r] = NoWork]
          /\ Goto(r, FirstAwait(r))
          /\ UNCHANGED ret

Appended(r) ==
    /\ VersionAccepted(r)
    /\ ~NewStreamFails(r)
    /\ UNCHANGED <<call, conflicts>>
    /\ \/ AppendTo(call[r].s, work[r].batch) /\ AfterCommit(r)
       \/ /\ AppendLater(call[r].s, work[r].batch)
          /\ \/ Fails(r, "late append", "store")
             \* the future is dropped when the COMMIT is on its way already
             \/ StoreKind = "postgres" /\ Fails(r, "cancel", "cancelled")

\* Mutants: one retry too many, one too few, a retry that keeps what it loaded.
RetryUnless(r, over) ==
    /\ ~VersionAccepted(r)
    /\ conflicts' = [conflicts EXCEPT ![r] = @ + 1]
    /\ IF ~over
       THEN /\ call' = [call EXCEPT ![r].attempt = @ + 1]
            /\ work' = [work EXCEPT ![r] = NoWork]
            /\ Goto(r, FirstAwait(r))
            /\ UNCHANGED ret
       ELSE Return(r, "concurrency") /\ UNCHANGED call
    /\ UNCHANGED <<log, visible>>
ConflictedOnceMore(r) == RetryUnless(r, call[r].attempt > call[r].max + 1)
ConflictedOnceLess(r) == RetryUnless(r, call[r].attempt >= call[r].max)
ConflictedSpinning(r) ==
    /\ ~VersionAccepted(r)
    /\ work' = [work EXCEPT ![r] = NoWork]
    /\ Goto(r, FirstAwait(r))
    /\ UNCHANGED <<log, visible, call, ret, conflicts>>

\* execute_with_retry runs the command again, from the load on, max times.
Conflicted(r) ==
    /\ ~VersionAccepted(r)
    /\ conflicts' = [conflicts EXCEPT ![r] = @ + 1]
    /\ IF call[r].attempt <= call[r].max
       THEN /\ call' = [call EXCEPT ![r].attempt = @ + 1]
            /\ work' = [work EXCEPT ![r] = NoWork]
            /\ Goto(r, FirstAwait(r))
            /\ UNCHANGED ret
       ELSE Return(r, "concurrency") /\ UNCHANGED call
    /\ UNCHANGED <<log, visible>>

NotAppended(r) ==
    /\ \/ Settled(call[r].s) /\ NewStreamFails(r) /\ Return(r, "store")
       \/ Fails(r, "append", "store")
    /\ UNCHANGED <<log, visible, call, conflicts>>

Commit(r) ==
    /\ pc[r] = "commit"
    /\ \/ Settled(call[r].s) /\ (Appended(r) \/ Conflicted(r))
       \/ NotAppended(r)
    /\ UNCHANGED <<snaps, calls>>

-----------------------------------------------------------------------------
\* With snapshots, the new version is read after the commit and the aggregate,
\* to which the batch has been applied, is offered at that position.

\* Mutant: the number of events replayed and written is taken for the position.
CountVersion(r) ==
    /\ pc[r] = "stream version"
    /\ work' = [work EXCEPT ![r].pos = work[r].since + Len(work[r].batch)]
    /\ Goto(r, "offer")
    /\ UNCHANGED <<log, visible, snaps, call, ret, calls, conflicts>>

\* Mutant: a stream_version that fails is answered by running the command again.
ReadVersionRetrying(r) ==
    /\ pc[r] = "stream version"
    /\ \/ /\ work' = [work EXCEPT ![r].pos = VisibleTo(r)]
          /\ Goto(r, "offer")
          /\ UNCHANGED ret
       \/ /\ "version" \in Faults
          /\ work' = [work EXCEPT ![r] = NoWork]
          /\ Goto(r, FirstAwait(r))
          /\ UNCHANGED ret
    /\ UNCHANGED <<log, visible, snaps, call, calls, conflicts>>

ReadVersion(r) ==
    /\ pc[r] = "stream version"
    /\ \/ /\ work' = [work EXCEPT ![r].pos = VisibleTo(r)]
          \* expect("stream should have events after append")
          /\ Goto(r, IF VisibleTo(r) = 0 THEN "panic" ELSE "offer")
          /\ UNCHANGED ret
       \/ Fails(r, "version", "store")
    /\ UNCHANGED <<log, visible, snaps, call, calls, conflicts>>

\* Mutant: the events of this command do not count.
ShouldSnapshotLate(r) ==
    \/ Policy[r] = "always"
    \/ Policy[r] = "every" /\ work[r].since >= Threshold

ShouldSnapshot(r) ==
    \/ Policy[r] = "always"
    \/ Policy[r] = "every" /\ work[r].since + Len(work[r].batch) >= Threshold

\* Mutant: the aggregate offered lacks the events just written.
StoreLoaded(r) ==
    snaps' = [snaps EXCEPT ![StoreOf[r]][call[r].s] =
                SnapshotAt(work[r].pos, work[r].agg, r)]

Store(r) ==
    snaps' = [snaps EXCEPT ![StoreOf[r]][call[r].s] =
                SnapshotAt(work[r].pos, work[r].agg \cup EventsOf(work[r].batch), r)]

Offer(r) ==
    /\ pc[r] = "offer"
    /\ \/ ~ShouldSnapshot(r) /\ Return(r, "ok") /\ UNCHANGED snaps
       \/ ShouldSnapshot(r) /\ Store(r) /\ Return(r, "ok")
       \/ ShouldSnapshot(r) /\ Fails(r, "snapshot encode", "codec") /\ UNCHANGED snaps
       \/ Fails(r, "snapshot store", "snapshot") /\ UNCHANGED snaps
    /\ UNCHANGED <<log, visible, call, calls, conflicts>>

-----------------------------------------------------------------------------
\* The caller drops the future at an await, or its process stops.

\* The in-memory store's futures are ready at once: nobody can drop them.
Awaits ==
    {"load snapshot", "offer"} \cup
        (IF StoreKind = "postgres" THEN {"load events", "commit", "stream version"} ELSE {})

Cancel(r) ==
    /\ pc[r] \in Awaits
    /\ Fails(r, "cancel", "cancelled")
    /\ UNCHANGED <<log, visible, snaps, call, calls, conflicts>>

Restart(r) ==
    /\ Fails(r, "restart", "cancelled")
    /\ snaps' = [snaps EXCEPT ![StoreOf[r]] = [s \in Streams |-> NoSnapshot]]
    /\ UNCHANGED <<log, visible, call, calls, conflicts>>

\* The database executes a COMMIT whose answer nobody waits for.
Land(s) ==
    /\ ~Settled(s)
    /\ visible' = [visible EXCEPT ![s] = Len(log[s])]
    /\ UNCHANGED <<log, snaps, pc, call, work, ret, calls, conflicts>>

\* RepositoryTestExt writes past the handlers: seed_events and
\* inject_concurrent_event kinds of the aggregate, inject_raw_event any kind.
Reports(r, kind) == ret' = [ret EXCEPT ![r] = [kind |-> kind, n |-> 0]]

Inject(r) ==
    /\ r \in Fixtures
    /\ pc[r] = "idle"
    /\ calls[r] < MaxCalls[r]
    /\ calls' = [calls EXCEPT ![r] = @ + 1]
    /\ \/ /\ \E s \in Streams,
               kinds \in Batches(EventKinds[r], MaxBatch) \cup {<<k>> : k \in Kinds} :
               /\ Settled(s)
               /\ \/ AppendTo(s, Stamp(r, calls[r] + 1, kinds)) /\ Reports(r, "injected")
                  \/ /\ "late append" \in Faults
                     /\ AppendLater(s, Stamp(r, calls[r] + 1, kinds))
                     /\ Reports(r, "store")
       \/ /\ UNCHANGED <<log, visible>>
          /\ \/ "encode" \in Faults /\ Reports(r, "codec")
             \/ "append" \in Faults /\ Reports(r, "store")
    /\ UNCHANGED <<snaps, pc, call, work, conflicts>>

\* One step of an operation that runs, as opposed to a step of its caller.
Step(r) ==
    \/ LoadSnapshot(r) \/ LoadEvents(r) \/ Handle(r)
    \/ Commit(r) \/ ReadVersion(r) \/ Offer(r)

Next ==
    \/ \E r \in Repos : Begin(r) \/ Step(r) \/ Cancel(r) \/ Restart(r) \/ Inject(r)
    \/ \E s \in Streams : Land(s)

Spec == Init /\ [][Next]_vars

\* A future that has been polled is polled again when what it awaits is ready,
\* and the database ends a transaction whose client is gone.
FairSpec ==
    /\ Spec
    /\ \A r \in Repos : WF_vars(Step(r))
    /\ \A s \in Streams : WF_vars(Land(s))

-----------------------------------------------------------------------------
\* What the state is made of.

Labels == {"idle", "load snapshot", "load events", "handle", "commit",
           "stream version", "offer", "panic"}

Results == {"none", "loaded", "ok", "projection", "aggregate", "codec", "store",
            "concurrency", "snapshot", "cancelled", "injected"}

Operation == [op : {"load", "execute"}, s : Streams,
              max : 0..MaxRetries, attempt : 1..(MaxRetries + 1)]

Locals == [agg : SUBSET Event, version : Nat, since : Nat,
           batch : Seq(Event), pos : Nat, asOf : Nat]

Outcome == [kind : Results, n : 0..(MaxRetries + 1)]

\* Every variable has the values its comment says; in particular an operation
\* never counts more than max_retries + 1 attempts.
TypeOK ==
    /\ log \in [Streams -> Seq(Event)]
    /\ visible \in [Streams -> Nat]
    /\ \A s \in Streams : visible[s] <= Len(log[s])
    /\ snaps \in [SnapshotStores -> [Streams -> Snapshot \cup {NoSnapshot}]]
    /\ pc \in [Repos -> Labels]
    /\ call \in [Repos -> Operation]
    /\ work \in [Repos -> Locals]
    /\ ret \in [Repos -> Outcome]
    /\ calls \in [Repos -> Nat]
    /\ conflicts \in [Repos -> Nat]

-----------------------------------------------------------------------------
\* What is stored.

\* Two stored events are the same event of the same call.  A command that runs
\* again may emit another kind in its place: the kind does not matter.
SameEmission(e, f) == e.by = f.by /\ e.call = f.call /\ e.n = f.n

\* No event a call emitted is stored twice, in whatever stream and however the
\* call was retried: execute_with_retry runs the command again only after an
\* error that says nothing was appended, which a store error (the commit may
\* have reached the database) does not.
AtMostOnce ==
    \A s1, s2 \in Streams :
        \A i \in DOMAIN log[s1], j \in DOMAIN log[s2] :
            SameEmission(log[s1][i], log[s2][j]) => s1 = s2 /\ i = j

\* The events of the last call on r that are in the store.
StoredBy(r) ==
    {e \in UNION {EventsOf(log[s]) : s \in Streams} : e.by = r /\ e.call = calls[r]}

\* What a call reports fits what it stored: after a conflict, a rejected command,
\* a failed load or an event that does not encode nothing of it is stored, in none
\* of its attempts; after a failed snapshot, which is reported as an error too,
\* its events are.  (With snapshots an aggregate that does not encode after the
\* commit is reported like an event that does not encode before it.)
ReportedOutcome ==
    \A r \in Repos : pc[r] = "idle" =>
        /\ ret[r].kind \in {"concurrency", "aggregate", "projection"} => StoredBy(r) = {}
        /\ ret[r].kind = "codec" /\ r \notin Snapshotting => StoredBy(r) = {}
        /\ ret[r].kind = "snapshot" => StoredBy(r) # {}

\* r's step appends the batch of its command.
Commits(r) ==
    /\ pc[r] = "commit" /\ pc'[r] # "commit"
    /\ log'[call[r].s] # log[call[r].s]

\* Optimistic concurrency: a batch is only ever appended to the very events the
\* command was decided on, none missing and none extra.
DecidedOnCurrentState ==
    [][\A r \in Repos : Strategy[r] = "optimistic" /\ Commits(r) =>
         work[r].agg = Replay(StreamOf(r), EventKinds[r], 0, Len(StreamOf(r)))]_vars

\* A command is refused for a conflict only if an append to the stream took
\* effect after the command read it ("the stream version changed between loading
\* and committing").
ConflictMeansConcurrentAppend ==
    [][\A r \in Repos : conflicts'[r] > conflicts[r] => Len(StreamOf(r)) > work[r].asOf]_vars

\* The number execute_with_retry returns is the number of executions it took,
\* each earlier one lost to a conflict, and it gives up after max_retries + 1.
RetryAccounting ==
    \A r \in Repos : pc[r] = "idle" =>
        /\ ret[r].kind = "ok" =>
             /\ conflicts[r] = ret[r].n - 1
             /\ ret[r].n <= call[r].max + 1
        /\ ret[r].kind = "concurrency" => conflicts[r] = call[r].max + 1

-----------------------------------------------------------------------------
\* Snapshots.

\* An aggregate is what replaying the whole stream, as far as it was read, gives
\* - whether a snapshot was used or not ("snapshots are transparent").
LoadIsReplay ==
    \A r \in Repos :
        (pc[r] \in {"handle", "commit"} \/ (pc[r] = "idle" /\ ret[r].kind = "loaded")) =>
            work[r].agg = Replay(StreamOf(r), EventKinds[r], 0, work[r].asOf)

\* A stored snapshot holds exactly the events up to its position, so that only
\* later ones need replaying.
SnapshotFaithful ==
    \A x \in SnapshotStores, s \in Streams : snaps[x][s] # NoSnapshot =>
        /\ snaps[x][s].pos \in 1..Len(log[s])
        /\ snaps[x][s].data =
             Replay(log[s], EventKinds[snaps[x][s].by], 0, snaps[x][s].pos)

\* A snapshot may lack events that others appended while it was taken, but it
\* never holds one that lies after its position: whoever appends meanwhile, a
\* load that starts from it applies no event twice.
SnapshotNotAhead ==
    \A x \in SnapshotStores, s \in Streams : snaps[x][s] # NoSnapshot =>
        snaps[x][s].data \subseteq Replay(log[s], Kinds, 0, snaps[x][s].pos)

\* A newer snapshot never replaces one of a later position; only the end of the
\* process that holds them makes snapshots disappear.
SnapshotsAdvance ==
    [][\A x \in SnapshotStores, s \in Streams :
         \/ snaps'[x][s].pos >= snaps[x][s].pos
         \/ \A t \in Streams : snaps'[x][t] = NoSnapshot]_vars

\* After a successful command under EveryNEvents(N), fewer than N events lie
\* behind the snapshot, whatever failed before: the next load replays fewer.
BoundedReplay ==
    [][\A r \in Repos :
         (Policy[r] = "every" /\ pc[r] = "offer" /\ pc'[r] = "idle" /\ ret'[r].kind = "ok") =>
            Cardinality(Matching(StreamOf(r), EventKinds[r],
                                 snaps'[StoreOf[r]][call[r].s].pos, Len(StreamOf(r))))
              < (IF Threshold = 0 THEN 1 ELSE Threshold)]_vars

\* The expect after the commit never fires: a successful commit leaves a stream
\* with events, because a command that emitted none returned before it.
NoPanic == \A r \in Repos : pc[r] # "panic"

-----------------------------------------------------------------------------
\* Progress and the abstract specification.

\* Every operation returns: retries are bounded and nobody waits for anybody.
OperationsReturn == \A r \in Repos : pc[r] # "idle" ~> pc[r] = "idle"

\* On the Postgres store with nothing failing, a command on an aggregate that
\* has no events yet does not end in a store error.
NewStreamAccepted == \A r \in Repos : ret[r].kind # "store"

\* The commands that check versions run as if each were one indivisible step.
Serialised == INSTANCE CommandLog WITH
    Writers <- Repos,
    Checked <- {r \in Repos : Strategy[r] = "optimistic"} \ Fixtures,
    KindsOf <- EventKinds

ImplementsCommandLog == Serialised!Spec
=============================================================================
