----------------------------- MODULE Projection -----------------------------
(***************************************************************************)
(* ProjectionBuilder: a client registers event kinds and event enums, for  *)
(* all aggregates or for one, then loads.  Each registration adds filters  *)
(* to the one query that load makes, and handlers, one per event kind.  Or *)
(* the client does without a builder and asks the store directly.          *)
(***************************************************************************)
EXTENDS LoadEvents

CONSTANTS
    Enums,             \* the event sum types: their EVENT_KINDS
    EnumOf,            \* [Streams -> Enums]: A::Event of the stream's aggregate
    Single,            \* an event decoded as its own type, not as part of a sum
    NoHandler,         \* no handler registered
    MaxRegistrations   \* bound on the calls made on a builder

ASSUME ProjectionAssumption ==
    /\ Enums \subseteq Seq(Kinds)
    /\ EnumOf \in [Streams -> Enums]
    /\ Single \notin Enums
    /\ NoHandler \notin Enums \cup {Single}
    /\ MaxRegistrations \in Nat

VARIABLES
    handlers,     \* [Kinds -> what the kind's handler decodes an event as]
    registered,   \* history: the calls made on the builder
    applied       \* how often each event was applied, and decoded as what

vars == <<queryVars, handlers, registered, applied>>

\* What one call on the builder asks for.
Registration == [kinds : Seq(Kinds), from : Streams \cup {Anywhere}, as : Enums \cup {Single}]

Init ==
    /\ QueryInit
    /\ handlers = [k \in Kinds |-> NoHandler]
    /\ registered = <<>>
    /\ applied = <<>>

\* Handlers are kept by kind: a later registration of the kind replaces them.
\* Mutants: a call drops the handlers of earlier ones; its handler is for all kinds.
HandlersForgetting(kinds, as) ==
    [k \in Kinds |-> IF \E i \in DOMAIN kinds : kinds[i] = k THEN as ELSE NoHandler]
HandlersForAll(kinds, as) == [k \in Kinds |-> as]
HandlersWith(kinds, as) ==
    [k \in Kinds |-> IF \E i \in DOMAIN kinds : kinds[i] = k THEN as ELSE handlers[k]]

Register(kinds, from, as) ==
    /\ result = "none"
    /\ registered = <<>> => filters = <<>>
    /\ Len(registered) < MaxRegistrations
    /\ filters' = filters \o [i \in DOMAIN kinds |->
                      IF from = Anywhere THEN ForEvent(kinds[i]) ELSE ForAggregate(kinds[i], from)]
    /\ handlers' = HandlersWith(kinds, as)
    /\ registered' = Append(registered, [kinds |-> kinds, from |-> from, as |-> as])
    /\ UNCHANGED <<backend, stored, result, loaded, applied>>

EventOf(k) == Register(<<k>>, Anywhere, Single)
EventsOf(E) == Register(E, Anywhere, E)
EventFor(s, k) == Register(<<k>>, s, Single)
EventsFor(s) == Register(EnumOf[s], s, EnumOf[s])

\* EventStore::load_events without a builder, with filters for later positions.
AskDirectly(f) ==
    /\ registered = <<>>
    /\ Ask(f)
    /\ UNCHANGED <<handlers, registered, applied>>

\* The query is answered and each event goes to the handler of its kind.
LoadProjection ==
    /\ Answer
    /\ applied' = [p \in DOMAIN loaded' |->
                     [times |-> IF handlers[stored[p].kind] = NoHandler THEN 0 ELSE loaded'[p],
                      as    |-> handlers[stored[p].kind]]]
    /\ UNCHANGED <<handlers, registered>>

\* The query fails, or an event of its answer does not decode.
LoadFails ==
    /\ \/ QueryFails
       \/ /\ \E p \in DOMAIN stored :
                Copies(p) > 0 /\ handlers[stored[p].kind] # NoHandler
          /\ result = "none"
          /\ result' = "error"
          /\ UNCHANGED <<backend, stored, filters, loaded>>
    /\ UNCHANGED <<handlers, registered, applied>>

\* A builder borrows the store, which shuts out writers of the in-memory store
\* (they need it mutably), but not those of another clone of the Postgres store.
StoresElsewhere(e) ==
    /\ Stores(e)
    /\ backend = "postgres" \/ registered = <<>> \/ result # "none"
    /\ UNCHANGED <<handlers, registered, applied>>

Next ==
    \/ \E e \in Event : StoresElsewhere(e)
    \/ \E f \in Filter : AskDirectly(f)
    \/ \E k \in Kinds : EventOf(k)
    \/ \E E \in Enums : EventsOf(E)
    \/ \E s \in Streams, k \in Kinds : EventFor(s, k)
    \/ \E s \in Streams : EventsFor(s)
    \/ LoadProjection
    \/ LoadFails

Spec == Init /\ [][Next]_vars

-----------------------------------------------------------------------------
\* The i-th kind of a registration asks for e.
AsksAs(reg, i, e) == reg.kinds[i] = e.kind /\ reg.from \in {Anywhere, e.stream}
AsksFor(reg, e) == \E i \in DOMAIN reg.kinds : AsksAs(reg, i, e)

\* Every variable has the values its comment says; every filter of the query
\* has a handler.
TypeOK ==
    /\ QueryTypeOK
    /\ handlers \in [Kinds -> Enums \cup {Single, NoHandler}]
    /\ registered \in Seq(Registration)
    /\ applied \in Seq([times : Nat, as : Enums \cup {Single, NoHandler}])
    /\ registered # <<>> => \A i \in DOMAIN filters : handlers[filters[i].kind] # NoHandler

\* No event is asked for by two calls, nor twice by one (an enum two of whose
\* event types share a KIND).
Disjoint ==
    \A i, j \in DOMAIN registered, e \in Event :
        \A m \in DOMAIN registered[i].kinds, n \in DOMAIN registered[j].kinds :
            AsksAs(registered[i], m, e) /\ AsksAs(registered[j], n, e) => i = j /\ m = n

\* A projection is given each event it is registered for exactly once and no
\* others: on the in-memory store whatever the registrations, on the Postgres
\* store when no two of them overlap.
AppliedOnce ==
    result = "ok" /\ (backend = "inmemory" \/ Disjoint) =>
        \A p \in DOMAIN applied :
            applied[p].times =
                IF \E i \in DOMAIN registered : AsksFor(registered[i], stored[p]) THEN 1 ELSE 0

\* An event is decoded as a registration that asks for it says, provided calls
\* that share a kind decode it alike (handlers are kept by kind only).
HandledAsRegistered ==
    result = "ok" /\ (\A i, j \in DOMAIN registered, e \in Event :
                         /\ \E m \in DOMAIN registered[i].kinds : registered[i].kinds[m] = e.kind
                         /\ \E m \in DOMAIN registered[j].kinds : registered[j].kinds[m] = e.kind
                         => registered[i].as = registered[j].as) =>
        \A p \in DOMAIN applied : applied[p].times > 0 =>
            \E i \in DOMAIN registered :
                AsksFor(registered[i], stored[p]) /\ registered[i].as = applied[p].as
=============================================================================
