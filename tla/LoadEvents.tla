----------------------------- MODULE LoadEvents -----------------------------
(***************************************************************************)
(* EventStore::load_events of the two event stores: a reader collects      *)
(* filters while others append, then asks.  An answer is given as the      *)
(* number of times each event is returned; both stores return them sorted  *)
(* by position.  Positions are global here, counted from 1.  Projection     *)
(* puts the steps together.                                                *)
(***************************************************************************)
EXTENDS Naturals, Sequences, FiniteSets

CONSTANTS
    Kinds,       \* event kinds
    Streams,     \* (aggregate kind, aggregate id) pairs
    Anywhere,    \* no aggregate in a filter
    Backends,    \* the event stores: a subset of {"inmemory", "postgres"}
    MaxEvents,   \* bound on the events appended
    MaxFilters   \* bound on the filters of a query

ASSUME LoadAssumption ==
    /\ Anywhere \notin Streams
    /\ Backends \subseteq {"inmemory", "postgres"}
    /\ MaxEvents \in Nat
    /\ MaxFilters \in Nat

VARIABLES
    backend,   \* the event store asked
    stored,    \* the events, in the order of their positions
    filters,   \* the filters of the query
    result,    \* "none" before it is answered, then "ok" or "error"
    loaded     \* how often the answer has each event stored when it was given

queryVars == <<backend, stored, filters, result, loaded>>

Event == [stream : Streams, kind : Kinds]

\* after 0 is the same as no after_position.
Filter == [kind : Kinds, stream : Streams \cup {Anywhere}, after : 0..MaxEvents]

ForEvent(k) == [kind |-> k, stream |-> Anywhere, after |-> 0]
ForAggregate(k, s) == [kind |-> k, stream |-> s, after |-> 0]

QueryInit ==
    /\ backend \in Backends
    /\ stored = <<>>
    /\ filters = <<>>
    /\ result = "none"
    /\ loaded = <<>>

\* The conditions of one filter: kind, aggregate if any, position if any.
Matches(f, p) ==
    /\ f.kind = stored[p].kind
    /\ f.stream \in {Anywhere, stored[p].stream}
    /\ p > f.after

-----------------------------------------------------------------------------
\* The in-memory store puts the filters into hash maps, one per aggregate and
\* one for filters without: of several with the same key the last stays.
Kept(i) ==
    \A j \in DOMAIN filters :
        j > i => filters[j].kind # filters[i].kind \/ filters[j].stream # filters[i].stream

ByAggregate(p) ==
    \E i \in DOMAIN filters :
        Kept(i) /\ filters[i].stream # Anywhere /\ Matches(filters[i], p)

\* Mutants: nothing is noted; only the kind is noted.
SeenNever(p) == FALSE
SeenKind(p) == \E q \in DOMAIN stored : ByAggregate(q) /\ stored[q].kind = stored[p].kind

\* It notes the stream and kind of what it has found in specific aggregates,
\* and skips them in its pass over all streams.
Seen(p) == \E q \in DOMAIN stored : ByAggregate(q) /\ stored[q] = stored[p]

FromAllKinds(p) ==
    /\ \E i \in DOMAIN filters :
         Kept(i) /\ filters[i].stream = Anywhere /\ Matches(filters[i], p)
    /\ ~Seen(p)

InMemoryCopies(p) ==
    (IF ByAggregate(p) THEN 1 ELSE 0) + (IF FromAllKinds(p) THEN 1 ELSE 0)

\* The Postgres store joins a SELECT per filter with UNION ALL.
PostgresCopies(p) == Cardinality({i \in DOMAIN filters : Matches(filters[i], p)})

Copies(p) == IF backend = "inmemory" THEN InMemoryCopies(p) ELSE PostgresCopies(p)

-----------------------------------------------------------------------------
\* Somebody appends an event.
Stores(e) ==
    /\ Len(stored) < MaxEvents
    /\ stored' = Append(stored, e)
    /\ UNCHANGED <<backend, filters, result, loaded>>

\* The reader adds a filter to its query.
Ask(f) ==
    /\ result = "none"
    /\ Len(filters) < MaxFilters
    /\ filters' = Append(filters, f)
    /\ UNCHANGED <<backend, stored, result, loaded>>

Answer ==
    /\ result = "none"
    /\ result' = "ok"
    /\ loaded' = [p \in DOMAIN stored |-> Copies(p)]
    /\ UNCHANGED <<backend, stored, filters>>

\* The database or the connection fails; the in-memory store cannot.
QueryFails ==
    /\ result = "none"
    /\ backend = "postgres"
    /\ result' = "error"
    /\ UNCHANGED <<backend, stored, filters, loaded>>

-----------------------------------------------------------------------------
\* Every variable has the values its comment says; an answer is about a prefix
\* of what is stored.
QueryTypeOK ==
    /\ backend \in Backends
    /\ stored \in Seq(Event)
    /\ filters \in Seq(Filter)
    /\ result \in {"none", "ok", "error"}
    /\ loaded \in Seq(Nat)
    /\ Len(loaded) <= Len(stored)

\* All filters for a kind ask for the same positions, as those of a projection
\* (no positions) and of an aggregate's load (its snapshot's) do.
Agreeing ==
    \A i, j \in DOMAIN filters :
        filters[i].kind = filters[j].kind => filters[i].after = filters[j].after

\* load_events returns the events that match a filter and no others: the Postgres
\* store always, the in-memory store whenever its filters agree on positions.
LoadsMatching ==
    result = "ok" /\ (backend = "postgres" \/ Agreeing) =>
        \A p \in DOMAIN loaded :
            loaded[p] > 0 <=> \E i \in DOMAIN filters : Matches(filters[i], p)

\* load_events returns no event twice: the in-memory store never ("Skip events
\* we've already loaded for specific aggregates"), the Postgres store if no two
\* filters are for the same kind, as in an aggregate's load.
LoadsOnce ==
    result = "ok" /\ (backend = "inmemory"
                      \/ \A i, j \in DOMAIN filters :
                           filters[i].kind = filters[j].kind => i = j) =>
        \A p \in DOMAIN loaded : loaded[p] <= 1

\* Filters that overlap are deduplicated, as the guide to SQL stores asks.
OverlapsDeduplicated ==
    result = "ok" => \A p \in DOMAIN loaded : loaded[p] <= 1
=============================================================================
