# Sourcery, specified

TLA+ specifications of *sourcery* (`src/`), a Rust event-sourcing library: aggregates rebuilt from
event streams, commands committed under optimistic concurrency, snapshots, projections, an in-memory
and a Postgres event store. This document is the inventory of the system, the plan of the
specifications, and what they show so far. `PROJECT.json` holds the same as data: the lines each
definition models, the runs, the mutants that show each property can fail, the findings, the hazards.

## The system

| component | state | operations | what makes it correct |
|---|---|---|---|
| `Repository` (`repository.rs`), in four variants: optimistic or unchecked, with or without snapshots | none of its own but the two stores it holds; an operation's locals: aggregate, version, events since the snapshot | `load`, `execute_command`, `execute_with_retry` | a batch is committed only on the state it was decided on; retried commands are stored once; errors say truly whether anything was stored; loads equal a full replay |
| `Transaction` (`store.rs`) | buffered events | `append`, `commit` (two), drop | all of the batch or nothing; the right version is asked for |
| in-memory store (`store/inmemory.rs`) | streams, next position | `append`, `append_expecting_new`, `stream_version`, `load_events` | positions grow; a version mismatch appends nothing; each matching event is returned once, in order |
| Postgres store (`sourcery-postgres`) | tables `es_streams`, `es_events`, a connection pool | the same, as transactions | the same, with writers interleaving between statements, commits in another order than positions, lost answers |
| snapshots (`snapshot.rs`) | last snapshot per stream, policy | `load`, `offer_snapshot` | a snapshot holds exactly the events up to its position; positions advance; replay stays short |
| projections (`projection.rs`) | handlers and filters registered | `event`, `events`, `event_for`, `events_for`, `load` | each matching event applied once, in position order |
| traits `Aggregate`, `Apply`, `Handle` (`aggregate.rs`), codec (`codec.rs`) | user code | `apply`, `handle`, encode, decode | the library calls them with the right events in the right order |
| test utilities (`test.rs`) | none | `seed_events`, `inject_concurrent_event`, `inject_raw_event`; the given-when-then framework | they write past the handlers but into the same streams |
| the billing example (`examples/subscription_billing.rs`): what users write on top of all this | a subscription per customer, invoices, the customers' balances in `CustomerBillingProjection` | start, cancel, issue, pay; the projection is loaded and consulted before a cancellation | balance and invoices agree; no invoice overpaid; nobody who owes is cancelled |
| derive macro (`sourcery-macros`) | compile time only | - | not modelled |

**How they interact.** A repository borrows its store mutably for the length of an operation, so one
repository runs one operation at a time. Concurrency comes from several repositories over clones of
the Postgres store, in one process or many. An operation awaits, in this order: the snapshot store,
`load_events`, the commit (`append` or `append_expecting_new`), `stream_version`, the snapshot store
again. Between two awaits anything may happen to the stream; that, and what can fail at each await,
is where the behaviours are that tests do not reach. The in-memory store cannot be cloned: it has
one repository, nothing interleaves with it, and it cannot fail.

**What is hard** is listed with its lines in `PROJECT.json` under `hazards`: state read before an
await and used after it (version, aggregate, snapshot position), the ambiguous outcome of a commit,
failures after the commit, retries, builds that know different event kinds, the boundary between
"no stream" and "version n", and snapshot counting.

## The modules

`EventStream` - events, batches, and what replaying part of a stream gives. A position is an event's
index in its stream: the code takes positions from one global counter, but nothing a repository does
compares positions of different streams. An aggregate is the set of events applied to it, since
`Apply` is the user's and the library answers for which events reach it. An event is known by its
writer, the writer's call, its place in the batch, and its kind.

`Repository` - the core. Its variables are the event store (`log`, and `visible`: how much of each
stream a query returns), the snapshot stores (`snaps`) and, per repository, the await its operation is
at (`pc`), the operation (`call`), its locals (`work`), the last result (`ret`), and two counters
(`calls`, `conflicts`; the second is history). One action per await-to-await piece of the code:

| action | code |
|---|---|
| `Begin` | `load`, `execute_command`, `execute_with_retry` are called (`max = 0` is `execute_command`) |
| `LoadSnapshot` | snapshot lookup, fallback to full replay, snapshot that does not deserialize |
| `LoadEvents` | one query with a filter per known kind after the snapshot's position; events applied; version determined; `load` returns here |
| `Handle` | `Handle::handle`; no events: return; else the transaction is filled, an encode error drops it |
| `Commit` | `Transaction::commit`: appended, conflict (retry or give up), or failed |
| `ReadVersion`, `Offer` | with snapshots: `stream_version` and the `expect`, then `offer_snapshot` under the policy |
| `Cancel`, `Restart` | the caller drops the future; the process stops and its in-memory snapshots are gone |
| `Inject` | `RepositoryTestExt`: a batch appended past the handlers |
| `Land` | the database executes a COMMIT that nobody waits for any more |

`Commit` is one step although the Postgres store runs several statements: it takes the stream's row lock
(`SELECT ... FOR UPDATE`) before it reads the version and keeps it until the transaction ends, so per
stream the statements of two transactions do not interleave: that they amount to one step is what
`PostgresStore` shows. A COMMIT whose answer is lost is the fault `"late append"`; a future dropped
during it is the last disjunct of `Appended`. In both the COMMIT may still be under way: the batch has
its place in `log` (its transaction holds the row lock, so `Settled` keeps every other append waiting),
but queries return the stream without it until `Land`.

`CommandLog` - the abstract specification: a stream grows by whole batches, each call writes at most
one, and a version-checking writer writes only what its aggregate permits in the state of the *whole*
stream at that moment, in one step. `ImplementsCommandLog` says `Repository` does that under the
mapping in `Serialised` (same `log`; loads, snapshots, versions, retries hidden).

`PostgresStore` - one append as the statements the store sends, several clients sharing the pool:

| action | code |
|---|---|
| `Ask` | `append`, `append_expecting_new` are called; an empty batch returns |
| `Begin` | `pool.begin()`: waits for a free connection |
| `InsertRow` | `INSERT INTO es_streams ... DO NOTHING`: waits for a transaction that has inserted the key |
| `SelectForUpdate` | `SELECT last_position ... FOR UPDATE`: waits for the row's lock and gets it; then go on, or drop the transaction, with the lock: conflict, or the failing NULL of `append_expecting_new` |
| `InsertEvent` | one row of `INSERT INTO es_events`; draws the next value of the BIGSERIAL sequence, which no rollback gives back |
| `Update`, `Commit` | `UPDATE es_streams`, `COMMIT`: rows and events become visible together |
| `Abandon` | a statement fails, the pool times out, or the future is dropped; a statement that waits for a lock, or a COMMIT, may already be with the database |
| `Execute` | the database executes the statement a dropped transaction waits in, which gets its key or its lock although nobody's future wants it |
| `End` | the database rolls a dropped transaction back, or executes its COMMIT; until then it keeps its locks and its connection |

What a transaction writes is in `tx` until it commits; other transactions meet it only as a lock.

`AtomicStore` - the abstract specification of both appends: a batch is stored whole at one moment at
which the expected version is the stream's; a conflict is true when it is reported; an error leaves
open whether the batch is or will still be stored. `ImplementsAtomicStore` says `PostgresStore` does
that. It is what `Repository` takes its `Commit` and `Land` to be.

`LoadEvents` - `load_events` of both stores over arbitrary filters: the in-memory algorithm (hash maps
of filters, a pass per aggregate, a pass over the rest that skips what was seen) and the `UNION ALL` of
the Postgres store, as the number of times each event is returned. Both sort by position last, so the
order is not at stake. Events and filters arrive in any order before the query is answered. Positions
are counted from 1 (the in-memory store counts from 0), so `after = 0` is no position at all.

`Projection` - `ProjectionBuilder` on top: `EventOf`, `EventsOf`, `EventFor`, `EventsFor` are its
`event`, `events`, `event_for`, `events_for`; `LoadProjection` and `LoadFails` are `load`;
`AskDirectly` is a client that calls `load_events` itself. Writers go on while a builder on the
Postgres store is being filled; on the in-memory store the builder's borrow keeps them out.

`Billing` - a client: two kinds of aggregates, a projection over both, and a command that is only
sent if the projection allows it.

| action | code |
|---|---|
| `StartSubscription`, `CancelSubscription`, `IssueInvoice`, `RecordPayment` | `Handle<C>` decides on the aggregate, `Apply<E>` of the events it returns changes it, `ApplyProjection<E>` the customer's entry of the projection |
| `MayCancel` | the guard in `main`: the loaded projection knows the customer and shows no debt |
| `LoadReadModel` | `build_projection ... load` |

The example has one repository over the in-memory store, so no two commands overlap: a command is one
step, and `projected` - what loading the projection now would give - follows the events in the order of
their commits, which in memory is the order of their positions. (On Postgres it need not be, see
`visibility`.) The statuses, flags and cents are kept, since the properties relate them; plan, due date,
reasons, times and metadata are not. A customer is an id, an invoice is an id that belongs to one
customer, as the example builds them; that the `i64` of the cents overflows is out of the bounds.
`main` loads the projection once, right before it cancels, and says that in production a worker would;
`LoadReadModel` may happen at any time, so the read model a cancellation relies on may be old.
`overlapped` and `asOf` are history: which customers have had two open invoices at once since they last
owed nothing, and what the read model could know when it was loaded.

`MCRepository`, `MCPostgresStore`, `MCProjection`, `MCBilling` - the small instances.
`RepositoryProofs`, `OutcomeProofs`, `VersionProofs`, `ReplayProofs`, `SnapshotProofs` - the proofs about
`Repository`; `ProjectionProofs` - those about `LoadEvents` and `Projection`; `BillingProofs` and
`PostgresProofs` - those about `Billing` and `PostgresStore`.

## The runs

The runs of `Repository` bound the calls per repository (`MaxCalls`), events per command (`MaxBatch`),
the retries (`MaxRetries`) and the events an aggregate permits (`Cap`, the role of the stock limit in
the examples). When no calls are left the system stops, so deadlock is not checked; the liveness run
takes over what a deadlock check would find, an operation that cannot go on.

| run | instance | shows |
|---|---|---|
| `race` | two optimistic repositories and one unchecked writer (also a test fixture), one Postgres stream, events that do not encode, lost commit answers, dropped futures, one retry | commands are serialisable: `DecidedOnCurrentState`, `ImplementsCommandLog`; no event twice, errors tell the truth, retries are counted, conflicts have a cause |
| `rolling` | an optimistic repository that knows one of two kinds, an unchecked writer that knows both; every store call may fail, two retries; weak fairness | every operation returns; retry accounting and serialisability survive failures |
| `lone` | one repository on the in-memory store, `EveryNEvents(2)`, raw events of unknown kinds, every snapshot failure, four calls | a load equals a full replay, snapshots are exact and advance, fewer than N events stay behind the snapshot, the `expect` never fires |
| `snapshots` | an optimistic repository with one retry and an unchecked one, both with a snapshot after every command on Postgres; failing loads, encodes, `stream_version` and snapshot stores, lost answers, restarts | once-only and truthful errors, with failures before and after the commit; the `expect` never fires; positions advance except across a restart, and a snapshot never holds an event beyond its position |
| `projections` | both stores, two streams, two kinds, two enums sharing a kind, every log of up to three events, every query of up to two filters, every two registrations | the in-memory algorithm returns what matches, once; Postgres too where filters do not overlap; projections apply what they are registered for, once, decoded as registered |
| `postgres` | two clients, three calls in all, batches of up to two, one stream, two connections, drops anywhere; weak fairness | statements implement `AtomicStore`; both tables agree; a stream grows in position order; no call waits forever, though a dropped transaction holds its locks, or gets one more, until it is rolled back |
| `billing` | one customer with two invoices, one with one, cents from -1 to 3, every command, read model loaded at any time | invoices balance; the projection agrees with the aggregates and never overstates a debt; cancellations are justified |
| `lost_update`, `older_build`, `new_stream`, `overlapping`, `visibility` | as small as shows the point | each violates one statement of the documentation, see below |

Two or three repositories are enough for the races: each hazard is between the steps of one operation
and one append of somebody else; the third repository lets a retry lose again. Two events per batch make
partial batches visible, two kinds make "known" and "unknown" differ, one stream suffices because no
operation reads two, and four calls let a snapshot be taken, used, fail and be taken again. In
`postgres` two clients and a dropped transaction are enough to want a third connection and to queue
behind a lock that nobody's future holds; streams meet only in the pool and the sequence, which
`visibility` has two of. In `billing` two invoices of one customer can overlap or follow each other, a
second customer shows that entries do not mix, and three cents can be paid in one, two or three parts;
commands that end rejected are no steps, and deadlock is checked, as loading is always possible. In
`projections` two filters or registrations are the pairs that can overlap.

**Fairness.** `rolling` and `postgres` assume some. `rolling`: weak fairness of each operation's own
steps, because a future that has been polled is woken when what it awaits is ready, and of `Land`. The
one thing an operation waits for is the row lock of a COMMIT under way, and the database does end a
transaction whose client is gone. Callers need not call, cancel, restart or inject. `postgres`: weak
fairness of each client's statements and of what the database does with dropped transactions (`Execute`,
`End`), for the same two reasons; with bounded calls a lock
or a connection that is wanted becomes free for good, so weak fairness suffices and no queueing order
need be assumed.

### Disagreements with the documentation

1. `lost_update` - with snapshots, the position of a snapshot is read after the commit
   (`repository.rs:743`, and `:645` where unchecked), its data is the aggregate from before. Another
   writer's append in between is in the position but not in the data, and later loads never see it,
   though the snapshotting example says snapshots are transparent. In the optimistic repository the
   next load so has the current version without the current state, and a commit on it meets no
   conflict. (What does hold is `SnapshotNotAhead`: no event is ever applied twice.)
2. `older_build` - the expected version comes from events of known kinds only (`repository.rs:349`);
   after an event of a kind this build does not know, each command on the stream ends in a conflict.
3. `new_stream` - on Postgres `append_expecting_new` reads the NULL it has just inserted as a plain
   `i64` (`sourcery-postgres/src/lib.rs:361`): an optimistic command cannot create a stream. In the
   other Postgres runs the unchecked writer creates it.
4. `overlapping` - the Postgres store returns an event once per matching filter (`UNION ALL`,
   `lib.rs:277`), so projections apply it as often; the guide to SQL stores says to deduplicate.
5. `visibility` - positions are drawn at INSERT and seen at COMMIT, and only writers of one stream
   exclude each other (`lib.rs:219`): across streams a later event can have a lower position.

Seen while modelling `Repository`, without a run: with snapshots, an aggregate that does not serialize
after the commit is reported as `Codec`, "failed to encode events" (`repository.rs:665` and `:764`),
although the events are stored. `ReportedOutcome` promises nothing of `"codec"` there.

Seen while modelling `Billing`, without a run: settling an invoice sets the customer's balance to zero
(`subscription_billing.rs:434`) even when another of the customer's invoices is open. As long as a
customer's invoices overlap, the balance can be too low, and the guard that the example's introduction
describes (lines 21-22) can let a subscription be cancelled with money outstanding. `ReadModelAgrees`
and `CancelledOnlyIfPaid` therefore speak of customers whose invoices do not overlap; what holds for all
is that the balance is never too high and is right again once nothing is owed. The introduction also
calls the projection idempotent (line 18); its `+=` makes it so only because a load starts from nothing
and the store returns each event once.

## What is proved

The proofs hold for every number of repositories, clients, streams, kinds, calls, retries, customers,
invoices, for every policy, strategy, query and set of faults, and an arbitrary `Permits`. What they
assume of the constants:

- `ConfigAssumption`: those of `Repository` have the types their comments give; a batch may have at least
  one event. `StoreAssumption`: the in-memory store has one repository and does not fail.
- `PostgresAssumption` and `NoTxAssumption`: the constants of `PostgresStore` have their types; `NoTx` is
  no transaction and `AnyVersion` is not the version of a stream without events.
- `LoadAssumption`, `ProjectionAssumption`: the constants of `LoadEvents` and `Projection` have their
  types.
- `BillingAssumption`: each invoice has a customer, amounts are integers.

About `Repository`:

- `TypeCorrect` (`RepositoryProofs`): `Spec => []TypeOK`, which is inductive by itself. One lemma per
  action; lemmas about `Stamp`, `Batches`, `Return` and `AppendTo` do the common work. In particular
  an operation never counts more than `max_retries + 1` attempts.
- `StoredAtMostOnce` and `OutcomeReported` (`OutcomeProofs`): `AtMostOnce` and `ReportedOutcome`. Neither
  is inductive: that a batch is new when appended needs that its call has stored nothing so far, which
  needs that no stored event bears a call number still to be given out. `OnceInv` adds both, and ties
  the await an operation is at to whether it has stored anything: only a repository with snapshots has
  awaits after the commit, so only there can `"codec"` be reported of a batch that is stored.
- `RetriesCounted` (`OutcomeProofs`): `RetryAccounting`, from `RetryInv`: while an operation runs it has met
  exactly one conflict per attempt made before this one.
- `NeverPanics` and `ConflictHasCause` (`VersionProofs`): `NoPanic`, and, if every repository knows
  every kind, `ConflictMeansConcurrentAppend`. `VersionInv` bounds the version an operation holds by
  what it has read and that by the stream, which only grows.
- `LoadsReplay`, `SnapshotsFaithful`, `CommandsSerialise` (`ReplayProofs`): `LoadIsReplay`,
  `SnapshotFaithful`, `DecidedOnCurrentState`, if `Undisturbed`: no repository takes snapshots, or the
  event store is the in-memory one, which one repository has to itself. Without the hypothesis
  `lost_update` violates the last. `ReplayInv` says at each await which part of the stream the
  operation's aggregate replays.
- `CommandsRefine` (`ReplayProofs`): `ImplementsCommandLog`, if `Undisturbed`. The stream only changes
  when a commit appends or a fixture writes. The commit of a checked writer is a `Decide` of the abstract
  log: the aggregate is the replay of the whole stream (`ReplayInv` and the accepted version), the batch
  is one the handler was permitted on that aggregate and bears the number of this call (`DecisionInv`,
  known since `Handle`), and nothing of the call is stored (`OnceInv`), through however many retries.
  Other appends are a `Force`; every other step stutters.
- `ReplayBounded` (`ReplayProofs`): `BoundedReplay`, if `Undisturbed`. `CountedInv` says that the events
  behind the snapshot are among those the operation has counted, which has to be known from the load
  on: it starts at the snapshot or, when the snapshot store fails, before it, and a batch of m events
  adds at most m.
- `SnapshotsNotAhead` and `SnapshotsOnlyAdvance` (`SnapshotProofs`), on either store and with any
  number of writers: `SnapshotNotAhead`, and, if no two repositories share a snapshot store
  (`OwnStores`), `SnapshotsAdvance`. `StoredInv` says that what an operation's aggregate or a snapshot
  holds lies in the stream up to a position that queries already return; it has to speak of every await,
  because what a snapshot holds was collected over all of them. `Ahead` adds that the version read after
  the commit is not below the snapshot it is about to replace.

About `LoadEvents` and `Projection` (`ProjectionProofs`):

- `MatchingLoaded` and `LoadedOnce`: `LoadsMatching`, `LoadsOnce`, for all logs and filters. The hash
  maps of the in-memory store keep the last of several filters with one key, which loses nothing if the
  filters for a kind agree on the position (`Agreeing`, the hypothesis of the property); and the
  pass over all streams returns exactly what the passes per aggregate have not.
- `ProjectionTypeCorrect`, `ProjectionsApplyOnce`, `ProjectionsDecode`: `TypeOK`, `AppliedOnce`,
  `HandledAsRegistered`. `ProjectionInv` says that every filter of a builder's query comes from a kind of
  some call, no two from the same, and every such kind has a filter (`Filtered`); and that a kind's
  handler decodes it as some call that asked for it said (`Handled`). The rest follows from what
  an answer holds, on Postgres if no event is asked for twice (`Disjoint`).

About `PostgresStore` (`PostgresProofs`):

- `VersionFaithful` and `StreamsInOrder` (`PostgresProofs`): `VersionIsLastPosition`,
  `StreamInPositionOrder`. `Inv` says that no two transactions, dropped ones included, hold the lock of
  one row (`Exclusive`); that only its holder draws positions, each above every event the stream has
  (`Sound`); and that a transaction whose COMMIT is sent holds the lock and has written the last position
  it drew (`Ready`). The second is what makes the first matter: without the lock, a batch drawn early and
  committed late would land below another.
- `StoreTypeCorrect`: `TypeOK`. That no more connections are open than the pool has is a fact about
  the cardinality of `Open` and the dropped transactions together (`Pooled`).
- `StoreAtomic`: `ImplementsAtomicStore`. The mapping (`Pending`, `Answer`) calls a request pending until
  its batch is visible or refused; a dropped transaction whose COMMIT was sent is pending still. The
  COMMIT that executes is the abstract step at which the batch takes effect, the conflict found under
  the row lock the one at which it is refused. What this needs beyond `Inv` is `Serial`: a request has a
  number of its own (`Numbered`); who is past the checks has the lock, and version and row as they were
  when it compared them (`Cleared`), because nobody else can have committed since (`Exclusive`); a row
  just inserted is nobody else's (`Granted`, `Alone`), also when the insert was executed for a
  transaction already dropped; and each statement finds the ones before it executed (`Proceeds`).

About `Billing` (`BillingProofs`):

- `BillingTypeCorrect`, `InvoicesBalanced`, `ReadModelAgreed`, `CancelsJustified` (`BillingProofs`):
  `TypeOK`, `InvoicesBalance`, `ReadModelAgrees`, `CancelledOnlyIfPaid`. Agreement is not inductive by
  itself: that a payment leaves the balance right needs that at most one invoice of the customer is open,
  hence the invariant that two open invoices are recorded in `overlapped`; for `CancelledOnlyIfPaid`
  the same is said of the moment the read model was loaded.
- `DebtNeverOverstated`: `NeverOverstated`, a sum over the open invoices. The invariant adds that those
  are finitely many, else the sum has no value. That the library's fold has one, and that it does not
  depend on the order in which elements are chosen (`SumsExist`, `SumsRemove`), is proved by looking at
  a least number or subset for which it fails, in place of an induction.

Only model-checked: liveness (`OperationsReturn`, `AppendsReturn`), which rests on fairness and `ENABLED`
and is out of the prover's reach. Every invariant, action property and refinement that a passing run
checks is a theorem above, some under the hypotheses named there; where a run satisfies none of them
(`DecidedOnCurrentState` needs `Undisturbed`, `ConflictMeansConcurrentAppend` that every repository knows
every kind), it shows the property for its instance alone.

## Not modelled

The derive macro (compile time), the JSON encoding (its failures are faults), tracing, error texts,
`TestFramework` (no store involved), metadata (carried along, never read by the library), ids and
kinds as strings (model values), a filter with an aggregate kind but no id (no constructor builds one),
`migrate` (it runs before everything else; its tables are variables), an in-memory store's overflowing
position counter (`u64`), the refusal of a negative position by Postgres's
`load_events` (`InvalidPosition`, `lib.rs:295`: positions asked for come from events or snapshots and are
never negative). Of the examples, `optimistic_concurrency`, `snapshotting` and
`inventory_report` exercise what `Repository` and `Projection` model already and add no state of their
own that could go wrong in more than one step; `versioned_events` is about another crate's
deserialization. The derive macro's output enters as the constants `EventKinds`.

## Plan

1. Done: `EventStream`, `Repository`, `PostgresStore`, `LoadEvents`, `Projection`, `Billing`, both abstract
   specifications and both refinements; the theorems above.
2. Weaker hypotheses: `Undisturbed` forbids snapshots to every repository, although those of a writer
   that does not check versions cannot disturb one that takes none.
3. One theorem over both refinements: the repositories over `PostgresStore` in place of an atomic
   append.
