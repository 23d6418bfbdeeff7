-------------------------- MODULE ProjectionProofs --------------------------
(***************************************************************************)
(* load_events returns what matches, each event once where the stores      *)
(* promise it, and projections apply what they are registered for, for     *)
(* every set of filters and every sequence of registrations.               *)
(***************************************************************************)
EXTENDS Projection, FiniteSetTheorems, SequenceTheorems, WellFoundedInduction, TLAPS

-----------------------------------------------------------------------------
\* Numbers and finite sets.

LEMMA HighestIndex ==
    ASSUME NEW n \in Nat, NEW S \in SUBSET (1..n), S # {}
    PROVE  \E j \in S : \A i \in S : i <= j
<1> DEFINE T == {i \in Nat : \E j \in S : i = n - j}
<1>1. T \subseteq Nat /\ T # {}
  <2>1. PICK s \in S : TRUE
    OBVIOUS
  <2>2. n - s \in T
    BY <2>1
  <2>3. QED
    BY <2>2
<1>2. IsWellFoundedOn(OpToRel(<, Nat), Nat)
  BY NatLessThanWellFounded
<1>3. PICK x \in T : \A y \in T : ~(<<y, x>> \in OpToRel(<, Nat))
  BY <1>1, <1>2, WFMin
<1>4. \A y \in T : ~(y < x)
  BY <1>1, <1>3 DEF OpToRel
<1>5. QED
  BY <1>4

LEMMA AtMostOneElement ==
    ASSUME NEW n \in Nat, NEW S \in SUBSET (1..n)
    PROVE  /\ IsFiniteSet(S) /\ Cardinality(S) \in Nat
           /\ Cardinality(S) > 0 <=> S # {}
           /\ (\A i, j \in S : i = j) => Cardinality(S) <= 1
<1>1. IsFiniteSet(S)
  <2>1. IsFiniteSet(1..n)
    BY FS_Interval
  <2>2. QED
    BY <2>1, FS_Subset
<1>2. Cardinality(S) \in Nat /\ (Cardinality(S) = 0 <=> S = {})
  BY <1>1, FS_CardinalityType, FS_EmptySet
<1>3. ASSUME \A i, j \in S : i = j, S # {} PROVE Cardinality(S) = 1
  <2>1. PICK i \in S : TRUE
    BY <1>3
  <2>2. S = {i}
    BY <1>3, <2>1
  <2>3. QED
    BY <2>2, FS_Singleton
<1>4. QED
  BY <1>1, <1>2, <1>3

-----------------------------------------------------------------------------
\* Types.

\* What both filters of a kind and of an aggregate's kind say.
LEMMA FilterTypes ==
    ASSUME NEW k \in Kinds, NEW s \in Streams
    PROVE  ForEvent(k) \in Filter /\ ForAggregate(k, s) \in Filter
BY LoadAssumption DEF LoadAssumption, ForEvent, ForAggregate, Filter

LEMMA CopiesType == ASSUME QueryTypeOK, NEW p PROVE Copies(p) \in Nat
<1>1. InMemoryCopies(p) \in Nat
  BY DEF InMemoryCopies
<1>2. PostgresCopies(p) \in Nat
  <2>1. DOMAIN filters = 1..Len(filters) /\ Len(filters) \in Nat
    BY DEF QueryTypeOK
  <2>2. {i \in DOMAIN filters : Matches(filters[i], p)} \in SUBSET (1..Len(filters))
    BY <2>1
  <2>3. QED
    BY <2>1, <2>2, AtMostOneElement DEF PostgresCopies
<1>3. QED
  BY <1>1, <1>2 DEF Copies

\* The filters a call on the builder adds.
Added(kinds, from) ==
    [i \in DOMAIN kinds |->
        IF from = Anywhere THEN ForEvent(kinds[i]) ELSE ForAggregate(kinds[i], from)]

\* They have the kinds and the aggregate of the call and no position.
LEMMA AddedFilters ==
    ASSUME NEW kinds \in Seq(Kinds), NEW from \in Streams \cup {Anywhere}
    PROVE  /\ Added(kinds, from) \in Seq(Filter)
           /\ Len(Added(kinds, from)) = Len(kinds)
           /\ \A i \in 1..Len(kinds) :
                Added(kinds, from)[i] = [kind |-> kinds[i], stream |-> from, after |-> 0]
<1>1. DOMAIN kinds = 1..Len(kinds) /\ Len(kinds) \in Nat
  OBVIOUS
<1>2. \A i \in 1..Len(kinds) :
        Added(kinds, from)[i] = [kind |-> kinds[i], stream |-> from, after |-> 0]
  BY <1>1 DEF Added, ForEvent, ForAggregate
<1>3. ASSUME NEW i \in 1..Len(kinds) PROVE Added(kinds, from)[i] \in Filter
  <2>1. kinds[i] \in Kinds /\ 0 \in 0..MaxEvents
    BY LoadAssumption DEF LoadAssumption
  <2>2. [kind |-> kinds[i], stream |-> from, after |-> 0] \in Filter
    BY <2>1 DEF Filter
  <2>3. QED
    BY <1>2, <2>2
<1>4. Added(kinds, from) \in [1..Len(kinds) -> Filter]
  BY <1>1, <1>3 DEF Added
<1>5. QED
  BY <1>1, <1>2, <1>4

\* What a call on the builder leaves: its filters behind those there were.
Registered(kinds, from, as) ==
    /\ filters' \in Seq(Filter)
    /\ Len(filters') = Len(filters) + Len(kinds)
    /\ \A i \in 1..Len(filters) : filters'[i] = filters[i]
    /\ \A i \in 1..Len(kinds) :
         filters'[Len(filters) + i] = [kind |-> kinds[i], stream |-> from, after |-> 0]
    /\ registered' \in Seq(Registration)
    /\ Len(registered') = Len(registered) + 1
    /\ \A j \in 1..Len(registered) : registered'[j] = registered[j]
    /\ registered'[Len(registered) + 1] = [kinds |-> kinds, from |-> from, as |-> as]
    /\ handlers' \in [Kinds -> Enums \cup {Single, NoHandler}]
    /\ \A k \in Kinds :
         handlers'[k] = IF \E i \in 1..Len(kinds) : kinds[i] = k THEN as ELSE handlers[k]

LEMMA RegisterStep ==
    ASSUME TypeOK, NEW kinds \in Seq(Kinds), NEW from \in Streams \cup {Anywhere},
           NEW as \in Enums \cup {Single}, Register(kinds, from, as)
    PROVE  Registered(kinds, from, as)
<1>1. filters' = filters \o Added(kinds, from)
  BY DEF Register, Added
<1>2. /\ Added(kinds, from) \in Seq(Filter)
      /\ Len(Added(kinds, from)) = Len(kinds)
      /\ \A i \in 1..Len(kinds) :
           Added(kinds, from)[i] = [kind |-> kinds[i], stream |-> from, after |-> 0]
  BY AddedFilters
<1>3. filters \in Seq(Filter) /\ registered \in Seq(Registration)
  BY DEF TypeOK, QueryTypeOK
<1>4. /\ filters' \in Seq(Filter)
      /\ Len(filters') = Len(filters) + Len(kinds)
      /\ \A i \in 1..Len(filters) : filters'[i] = filters[i]
      /\ \A i \in 1..Len(kinds) : filters'[Len(filters) + i] = Added(kinds, from)[i]
  BY <1>1, <1>2, <1>3
<1>5. registered' = Append(registered, [kinds |-> kinds, from |-> from, as |-> as])
  BY DEF Register
<1>6. [kinds |-> kinds, from |-> from, as |-> as] \in Registration
  BY DEF Registration
<1>7. DOMAIN kinds = 1..Len(kinds)
  OBVIOUS
<1>8. handlers' = [k \in Kinds |->
                     IF \E i \in 1..Len(kinds) : kinds[i] = k THEN as ELSE handlers[k]]
  BY <1>7 DEF Register, HandlersWith
<1>9. handlers' \in [Kinds -> Enums \cup {Single, NoHandler}]
  BY <1>8 DEF TypeOK
<1>10. /\ registered' \in Seq(Registration)
       /\ Len(registered') = Len(registered) + 1
       /\ \A j \in 1..Len(registered) : registered'[j] = registered[j]
       /\ registered'[Len(registered) + 1] = [kinds |-> kinds, from |-> from, as |-> as]
  BY <1>3, <1>5, <1>6
<1>11. \A i \in 1..Len(kinds) :
         filters'[Len(filters) + i] = [kind |-> kinds[i], stream |-> from, after |-> 0]
  BY <1>2, <1>4
<1>12. \A k \in Kinds :
         handlers'[k] = IF \E i \in 1..Len(kinds) : kinds[i] = k THEN as ELSE handlers[k]
  BY <1>8
<1>13. QED
  BY <1>4, <1>9, <1>10, <1>11, <1>12 DEF Registered

\* event, events, event_for and events_for are such calls.
LEMMA RegisterCases ==
    ASSUME \/ \E k \in Kinds : EventOf(k)
           \/ \E E \in Enums : EventsOf(E)
           \/ \E s \in Streams, k \in Kinds : EventFor(s, k)
           \/ \E s \in Streams : EventsFor(s)
    PROVE  \E kinds \in Seq(Kinds), from \in Streams \cup {Anywhere}, as \in Enums \cup {Single} :
               Register(kinds, from, as)
<1>1. \A k \in Kinds : <<k>> \in Seq(Kinds)
  OBVIOUS
<1>2. Enums \subseteq Seq(Kinds) /\ \A s \in Streams : EnumOf[s] \in Enums
  BY ProjectionAssumption DEF ProjectionAssumption
<1>3. QED
  BY <1>1, <1>2 DEF EventOf, EventsOf, EventFor, EventsFor

\* The steps that neither register nor answer.
Rest ==
    \/ \E e \in Event : StoresElsewhere(e)
    \/ \E f \in Filter : AskDirectly(f)
    \/ LoadFails
    \/ UNCHANGED vars

LEMMA ProjectionTypeInit == Init => TypeOK
BY DEF Init, QueryInit, TypeOK, QueryTypeOK

LEMMA RegisterTypes ==
    ASSUME TypeOK, NEW kinds \in Seq(Kinds), NEW from \in Streams \cup {Anywhere},
           NEW as \in Enums \cup {Single}, Register(kinds, from, as)
    PROVE  TypeOK'
<1>0. Registered(kinds, from, as)
  BY RegisterStep
<1>1. UNCHANGED <<backend, stored, result, loaded, applied>>
  BY DEF Register
<1>2. QueryTypeOK'
  BY <1>0, <1>1 DEF Registered, TypeOK, QueryTypeOK
<1>3. registered = <<>> => filters = <<>>
  BY DEF Register
<1>4. ASSUME NEW i \in DOMAIN filters' PROVE handlers'[filters'[i].kind] # NoHandler
  <2>1. as # NoHandler
    BY ProjectionAssumption DEF ProjectionAssumption
  <2>2. DOMAIN filters' = 1..(Len(filters) + Len(kinds))
    <3>1. filters' \in Seq(Filter) /\ Len(filters') = Len(filters) + Len(kinds)
      BY <1>0 DEF Registered
    <3>2. QED
      BY <3>1
  <2>3. filters \in Seq(Filter) /\ Len(filters) \in Nat /\ Len(kinds) \in Nat
    BY DEF TypeOK, QueryTypeOK
  <2>4. CASE i \in 1..Len(filters)
    <3>1. filters'[i] = filters[i]
      BY <1>0, <2>4 DEF Registered
    <3>3. filters[i] \in Filter
      BY <2>3, <2>4
    <3>4. filters[i].kind \in Kinds
      BY <3>3 DEF Filter
    <3>5. \A k \in Kinds : handlers'[k] \in {as, handlers[k]}
      BY <1>0 DEF Registered
    <3>2. handlers[filters[i].kind] # NoHandler
      BY <1>3, <2>3, <2>4 DEF TypeOK
    <3>6. QED
      BY <2>1, <3>1, <3>2, <3>4, <3>5
  <2>5. CASE i \notin 1..Len(filters)
    <3>1. PICK m \in 1..Len(kinds) : i = Len(filters) + m
      <4>1. i - Len(filters) \in 1..Len(kinds) /\ i = Len(filters) + (i - Len(filters))
        BY <2>2, <2>3, <2>5
      <4>2. QED
        BY <4>1
    <3>2. filters'[i] = [kind |-> kinds[m], stream |-> from, after |-> 0]
      BY <1>0, <3>1 DEF Registered
    <3>3. kinds[m] \in Kinds
      OBVIOUS
    <3>4. handlers'[kinds[m]] = as
      BY <1>0, <3>3 DEF Registered
    <3>5. filters'[i].kind = kinds[m]
      BY <3>2
    <3>6. QED
      BY <2>1, <3>4, <3>5
  <2>6. QED
    BY <2>4, <2>5
<1>5. QED
  BY <1>0, <1>1, <1>2, <1>4 DEF Registered, TypeOK

LEMMA LoadTypes == ASSUME TypeOK, LoadProjection PROVE TypeOK'
<1>1. /\ loaded' = [p \in DOMAIN stored |-> Copies(p)]
      /\ UNCHANGED <<backend, stored, filters, handlers, registered>>
      /\ result' = "ok"
      /\ applied' = [p \in DOMAIN loaded' |->
                       [times |-> IF handlers[stored[p].kind] = NoHandler THEN 0 ELSE loaded'[p],
                        as    |-> handlers[stored[p].kind]]]
  BY DEF LoadProjection, Answer
<1>2. stored \in Seq(Event) /\ DOMAIN stored = 1..Len(stored) /\ Len(stored) \in Nat
  BY DEF TypeOK, QueryTypeOK
<1>3. \A p \in 1..Len(stored) : Copies(p) \in Nat
  BY CopiesType DEF TypeOK
<1>4. loaded' \in [1..Len(stored) -> Nat]
  BY <1>1, <1>2, <1>3
<1>5. loaded' \in Seq(Nat) /\ Len(loaded') = Len(stored)
  BY <1>2, <1>4
<1>6. \A p \in 1..Len(stored) : stored[p].kind \in Kinds
  <2>1. \A p \in 1..Len(stored) : stored[p] \in Event
    BY <1>2
  <2>2. QED
    BY <2>1 DEF Event
<1>7. applied' \in [1..Len(stored) -> [times : Nat, as : Enums \cup {Single, NoHandler}]]
  <2>1. \A p \in 1..Len(stored) : handlers[stored[p].kind] \in Enums \cup {Single, NoHandler}
    BY <1>6 DEF TypeOK
  <2>2. QED
    BY <1>1, <1>4, <2>1
<1>8. applied' \in Seq([times : Nat, as : Enums \cup {Single, NoHandler}])
  <2> DEFINE R == [times : Nat, as : Enums \cup {Single, NoHandler}]
  <2>1. applied' \in [1..Len(stored) -> R]
    BY <1>7
  <2> HIDE DEF R
  <2>2. applied' \in Seq(R)
    BY <1>2, <2>1
  <2>3. QED
    BY <2>2 DEF R
<1>9. QueryTypeOK'
  BY <1>1, <1>5 DEF TypeOK, QueryTypeOK
<1>10. QED
  BY <1>1, <1>8, <1>9 DEF TypeOK

LEMMA RestTypes == ASSUME TypeOK, Rest PROVE TypeOK'
<1>1. ASSUME NEW e \in Event, StoresElsewhere(e) PROVE TypeOK'
  <2>1. stored' \in Seq(Event) /\ Len(stored') = Len(stored) + 1
    BY <1>1 DEF StoresElsewhere, Stores, TypeOK, QueryTypeOK
  <2>2. QED
    BY <1>1, <2>1 DEF StoresElsewhere, Stores, TypeOK, QueryTypeOK
<1>2. ASSUME NEW f \in Filter, AskDirectly(f) PROVE TypeOK'
  BY <1>2 DEF AskDirectly, Ask, TypeOK, QueryTypeOK
<1>3. CASE LoadFails
  BY <1>3 DEF LoadFails, QueryFails, TypeOK, QueryTypeOK
<1>4. CASE UNCHANGED vars
  BY <1>4 DEF vars, queryVars, TypeOK, QueryTypeOK
<1>5. QED
  BY <1>1, <1>2, <1>3, <1>4 DEF Rest

\* One of the three is each step.
LEMMA ProjectionSteps ==
    ASSUME [Next]_vars
    PROVE  \/ Rest
           \/ LoadProjection
           \/ \E kinds \in Seq(Kinds), from \in Streams \cup {Anywhere}, as \in Enums \cup {Single} :
                  Register(kinds, from, as)
BY RegisterCases DEF Next, Rest

LEMMA ProjectionTypeNext == TypeOK /\ [Next]_vars => TypeOK'
BY ProjectionSteps, RestTypes, LoadTypes, RegisterTypes

\* Every variable has the values its comment says, and every filter of a
\* projection's query has a handler for the kind it asks for.
THEOREM ProjectionTypeCorrect == Spec => []TypeOK
BY ProjectionTypeInit, ProjectionTypeNext, PTL DEF Spec

-----------------------------------------------------------------------------
\* What a builder's query and handlers have to do with the calls made on it.

\* The j-th call's m-th kind is what the i-th filter asks for.
Origin(i, j, m) ==
    /\ registered[j].kinds[m] = filters[i].kind
    /\ registered[j].from = filters[i].stream

\* The kinds asked for by the j-th call.
Places(j) == DOMAIN registered[j].kinds

\* Every filter of a builder's query comes from a kind of a call, no two from the
\* same, and every kind of a call has a filter.
Filtered ==
    /\ registered # <<>> =>
         \A i \in DOMAIN filters :
             /\ filters[i].after = 0
             /\ \E j \in DOMAIN registered : \E m \in Places(j) : Origin(i, j, m)
    /\ registered # <<>> =>
         \A i1, i2 \in DOMAIN filters : i1 # i2 =>
             \E j1, j2 \in DOMAIN registered : \E m1 \in Places(j1), m2 \in Places(j2) :
                 Origin(i1, j1, m1) /\ Origin(i2, j2, m2) /\ ~(j1 = j2 /\ m1 = m2)
    /\ \A j \in DOMAIN registered : \A m \in Places(j) :
         \E i \in DOMAIN filters : Origin(i, j, m)

\* A handler is that of a call that asked for its kind.
Handled ==
    \A k \in Kinds : handlers[k] # NoHandler =>
        \E j \in DOMAIN registered :
            registered[j].as = handlers[k] /\ \E m \in Places(j) : registered[j].kinds[m] = k

\* Inductive together with TypeOK.
ProjectionInv == Filtered /\ Handled /\ DOMAIN applied = DOMAIN loaded

LEMMA FiltersOfRegistration ==
    ASSUME TypeOK, Filtered, NEW kinds \in Seq(Kinds), NEW from \in Streams \cup {Anywhere},
           NEW as \in Enums \cup {Single}, Register(kinds, from, as)
    PROVE  Filtered'
<1>0. PICK n \in Nat, l \in Nat : n = Len(filters) /\ l = Len(registered) + 1
  BY DEF TypeOK, QueryTypeOK
<1>1. Registered(kinds, from, as) /\ (registered = <<>> => filters = <<>>)
  BY RegisterStep DEF Register
<1>2. /\ n \in Nat /\ Len(kinds) \in Nat /\ Len(registered) \in Nat
      /\ DOMAIN filters = 1..n /\ DOMAIN kinds = 1..Len(kinds)
      /\ DOMAIN registered = 1..Len(registered)
      /\ registered = <<>> => n = 0
  BY <1>0, <1>1 DEF TypeOK, QueryTypeOK
<1>3. DOMAIN filters' = 1..(n + Len(kinds)) /\ DOMAIN registered' = 1..l
  <2>1. filters' \in Seq(Filter) /\ Len(filters') = n + Len(kinds)
    BY <1>0, <1>1 DEF Registered
  <2>2. registered' \in Seq(Registration) /\ Len(registered') = l
    BY <1>0, <1>1 DEF Registered
  <2>3. QED
    BY <2>1, <2>2
<1>4. /\ \A i \in 1..n : filters'[i] = filters[i]
      /\ \A m \in 1..Len(kinds) :
           filters'[n + m] = [kind |-> kinds[m], stream |-> from, after |-> 0]
      /\ \A j \in 1..Len(registered) : registered'[j] = registered[j]
      /\ registered'[l] = [kinds |-> kinds, from |-> from, as |-> as]
  BY <1>0, <1>1 DEF Registered
\* an index is that of an old filter, which keeps its origins, or of a new one
<1>5. /\ \A m : \A i \in 1..n, j \in 1..Len(registered) : Origin(i, j, m) => Origin(i, j, m)'
      /\ \A j \in 1..Len(registered) : Places(j)' = Places(j)
  BY <1>2, <1>4 DEF Origin, Places
<1>6. Places(l)' = 1..Len(kinds) /\ \A m \in 1..Len(kinds) : Origin(n + m, l, m)'
  <2>1. registered'[l].kinds = kinds /\ registered'[l].from = from
    BY <1>4
  <2>2. ASSUME NEW m \in 1..Len(kinds) PROVE Origin(n + m, l, m)'
    <3>1. filters'[n + m] = [kind |-> kinds[m], stream |-> from, after |-> 0]
      BY <1>4
    <3>2. filters'[n + m].kind = kinds[m] /\ filters'[n + m].stream = from
      BY <3>1
    <3>3. QED
      BY <2>1, <3>2 DEF Origin
  <2>3. QED
    BY <1>2, <2>1, <2>2 DEF Places
<1>7. \A i \in 1..(n + Len(kinds)) : i \in 1..n \/ \E m \in 1..Len(kinds) : i = n + m
  <2> SUFFICES ASSUME NEW i \in 1..(n + Len(kinds)), i \notin 1..n
               PROVE  \E m \in 1..Len(kinds) : i = n + m
    OBVIOUS
  <2>1. i - n \in 1..Len(kinds) /\ i = n + (i - n)
    BY <1>2
  <2>2. QED
    BY <2>1
<1>8. l \in 1..l /\ \A j \in 1..Len(registered) : j \in 1..l /\ j # l
  BY <1>0, <1>2
<1>9. \A i \in 1..n : /\ filters[i].after = 0
                      /\ \E j \in 1..Len(registered) : \E m \in Places(j) : Origin(i, j, m)
  <2>1. CASE registered = <<>>
    BY <1>2, <2>1
  <2>2. CASE registered # <<>>
    <3>1. \A i \in DOMAIN filters :
            /\ filters[i].after = 0
            /\ \E j \in DOMAIN registered : \E m \in Places(j) : Origin(i, j, m)
      BY <2>2 DEF Filtered
    <3>2. QED
      BY <1>2, <3>1
  <2>3. QED
    BY <2>1, <2>2
<1>10. ASSUME NEW i \in DOMAIN filters'
       PROVE  /\ filters'[i].after = 0
              /\ \E j \in DOMAIN registered' : \E m \in Places(j)' : Origin(i, j, m)'
  <2>1. CASE i \in 1..n
    <3>1. PICK j \in 1..Len(registered) : \E m \in Places(j) : Origin(i, j, m)
      BY <1>9, <2>1
    <3>2. \E m \in Places(j)' : Origin(i, j, m)'
      BY <1>5, <2>1, <3>1
    <3>3. QED
      BY <1>3, <1>4, <1>8, <1>9, <2>1, <3>2
  <2>2. CASE i \notin 1..n
    <3>1. PICK m \in 1..Len(kinds) : i = n + m
      BY <1>3, <1>7, <2>2
    <3>2. Origin(i, l, m)' /\ m \in Places(l)'
      BY <1>6, <3>1
    <3>3. filters'[i] = [kind |-> kinds[m], stream |-> from, after |-> 0]
      BY <1>4, <3>1
    <3>4. QED
      BY <1>3, <1>8, <3>2, <3>3
  <2>3. QED
    BY <2>1, <2>2
<1>11. ASSUME NEW i1 \in DOMAIN filters', NEW i2 \in DOMAIN filters', i1 # i2
       PROVE  \E j1, j2 \in DOMAIN registered' : \E m1 \in Places(j1)', m2 \in Places(j2)' :
                  Origin(i1, j1, m1)' /\ Origin(i2, j2, m2)' /\ ~(j1 = j2 /\ m1 = m2)
  <2>1. CASE i1 \in 1..n /\ i2 \in 1..n
    <3>0. registered # <<>> /\ i1 \in DOMAIN filters /\ i2 \in DOMAIN filters
      BY <1>2, <2>1
    <3>1. PICK j1 \in DOMAIN registered, j2 \in DOMAIN registered :
            \E m1 \in Places(j1), m2 \in Places(j2) :
                Origin(i1, j1, m1) /\ Origin(i2, j2, m2) /\ ~(j1 = j2 /\ m1 = m2)
      BY <1>11, <3>0 DEF Filtered
    <3>2. QED
      BY <1>2, <1>3, <1>5, <1>8, <2>1, <3>1
  <2>2. CASE i1 \in 1..n /\ i2 \notin 1..n
    <3>1. PICK j \in 1..Len(registered) : \E m \in Places(j) : Origin(i1, j, m)
      BY <1>9, <2>2
    <3>2. PICK m \in 1..Len(kinds) : i2 = n + m
      BY <1>3, <1>7, <2>2
    <3>3. (\E m1 \in Places(j)' : Origin(i1, j, m1)') /\ Origin(i2, l, m)' /\ m \in Places(l)'
      BY <1>5, <1>6, <2>2, <3>1, <3>2
    <3>4. QED
      BY <1>3, <1>8, <3>3
  <2>3. CASE i1 \notin 1..n /\ i2 \in 1..n
    <3>1. PICK j \in 1..Len(registered) : \E m \in Places(j) : Origin(i2, j, m)
      BY <1>9, <2>3
    <3>2. PICK m \in 1..Len(kinds) : i1 = n + m
      BY <1>3, <1>7, <2>3
    <3>3. (\E m2 \in Places(j)' : Origin(i2, j, m2)') /\ Origin(i1, l, m)' /\ m \in Places(l)'
      BY <1>5, <1>6, <2>3, <3>1, <3>2
    <3>4. QED
      BY <1>3, <1>8, <3>3
  <2>4. CASE i1 \notin 1..n /\ i2 \notin 1..n
    <3>1. PICK m1 \in 1..Len(kinds), m2 \in 1..Len(kinds) : i1 = n + m1 /\ i2 = n + m2
      BY <1>3, <1>7, <2>4
    <3>2. m1 # m2
      BY <1>11, <3>1
    <3>3. QED
      BY <1>3, <1>6, <1>8, <3>1, <3>2
  <2>5. QED
    BY <2>1, <2>2, <2>3, <2>4
<1>12. ASSUME NEW j \in DOMAIN registered', NEW m \in Places(j)'
       PROVE  \E i \in DOMAIN filters' : Origin(i, j, m)'
  <2>1. CASE j \in 1..Len(registered)
    <3>1. m \in Places(j)
      BY <1>5, <1>12, <2>1
    <3>2. PICK i \in 1..n : Origin(i, j, m)
      BY <1>2, <2>1, <3>1 DEF Filtered
    <3>3. Origin(i, j, m)' /\ i \in 1..(n + Len(kinds))
      BY <1>2, <1>5, <2>1, <3>2
    <3>4. QED
      BY <1>3, <3>3
  <2>2. CASE j = l
    <3>1. m \in 1..Len(kinds) /\ Origin(n + m, l, m)'
      BY <1>6, <1>12, <2>2
    <3>2. n + m \in 1..(n + Len(kinds))
      BY <1>2, <3>1
    <3>3. QED
      BY <1>3, <2>2, <3>1, <3>2
  <2>3. QED
    BY <1>0, <1>2, <1>3, <2>1, <2>2
<1>13. QED
  BY <1>10, <1>11, <1>12 DEF Filtered

LEMMA HandlersOfRegistration ==
    ASSUME TypeOK, Handled, NEW kinds \in Seq(Kinds), NEW from \in Streams \cup {Anywhere},
           NEW as \in Enums \cup {Single}, Register(kinds, from, as)
    PROVE  Handled'
<1>1. Registered(kinds, from, as)
  BY RegisterStep
<1>2. DOMAIN registered = 1..Len(registered) /\ Len(registered) \in Nat /\ DOMAIN kinds = 1..Len(kinds)
  BY DEF TypeOK
<1>3. DOMAIN registered' = 1..(Len(registered) + 1)
  <2>1. registered' \in Seq(Registration) /\ Len(registered') = Len(registered) + 1
    BY <1>1 DEF Registered
  <2>2. QED
    BY <2>1
<1>4. SUFFICES ASSUME NEW k \in Kinds, handlers'[k] # NoHandler
               PROVE  \E j \in DOMAIN registered' :
                        /\ registered'[j].as = handlers'[k]
                        /\ \E m \in DOMAIN registered'[j].kinds : registered'[j].kinds[m] = k
  BY DEF Handled, Places
<1>5. CASE \E m \in 1..Len(kinds) : kinds[m] = k
  <2>1. /\ handlers'[k] = as
        /\ registered'[Len(registered) + 1] = [kinds |-> kinds, from |-> from, as |-> as]
    BY <1>1, <1>5 DEF Registered
  <2>2. PICK l \in DOMAIN registered' : l = Len(registered) + 1
    BY <1>2, <1>3
  <2>3. registered'[l].as = as /\ registered'[l].kinds = kinds
    <3>1. registered'[l] = [kinds |-> kinds, from |-> from, as |-> as]
      BY <2>1, <2>2
    <3>2. QED
      BY <3>1
  <2>4. QED
    BY <1>2, <1>5, <2>1, <2>3
<1>6. CASE ~\E m \in 1..Len(kinds) : kinds[m] = k
  <2>1. handlers'[k] = handlers[k]
    BY <1>1, <1>6 DEF Registered
  <2>2. PICK j \in DOMAIN registered :
          registered[j].as = handlers[k] /\ \E m \in Places(j) : registered[j].kinds[m] = k
    BY <1>4, <2>1 DEF Handled
  <2>3. registered'[j] = registered[j] /\ j \in DOMAIN registered'
    BY <1>1, <1>2, <1>3 DEF Registered
  <2>4. QED
    BY <2>1, <2>2, <2>3 DEF Places
<1>7. QED
  BY <1>5, <1>6

LEMMA ProjectionInvInit == Init => ProjectionInv
BY DEF Init, QueryInit, ProjectionInv, Filtered, Handled

LEMMA ProjectionInvNext == TypeOK /\ ProjectionInv /\ [Next]_vars => ProjectionInv'
<1> SUFFICES ASSUME TypeOK, ProjectionInv, [Next]_vars PROVE ProjectionInv'
  OBVIOUS
<1>1. CASE UNCHANGED <<filters, registered, handlers, applied, loaded>>
  BY <1>1 DEF ProjectionInv, Filtered, Handled, Origin, Places
<1>2. CASE \E f \in Filter : AskDirectly(f)
  <2>1. registered = <<>> /\ UNCHANGED <<registered, handlers, applied, loaded>>
    BY <1>2 DEF AskDirectly, Ask
  <2>2. QED
    BY <2>1 DEF ProjectionInv, Filtered, Handled, Places
<1>3. CASE \E kinds \in Seq(Kinds), from \in Streams \cup {Anywhere}, as \in Enums \cup {Single} :
             Register(kinds, from, as)
  <2>1. UNCHANGED <<applied, loaded>>
    BY <1>3 DEF Register
  <2>2. QED
    BY <1>3, <2>1, FiltersOfRegistration, HandlersOfRegistration DEF ProjectionInv
<1>4. CASE LoadProjection
  <2>1. UNCHANGED <<filters, registered, handlers>> /\ DOMAIN applied' = DOMAIN loaded'
    BY <1>4 DEF LoadProjection, Answer
  <2>2. QED
    BY <2>1 DEF ProjectionInv, Filtered, Handled, Origin, Places
<1>5. (\E e \in Event : StoresElsewhere(e)) \/ LoadFails
        => UNCHANGED <<filters, registered, handlers, applied, loaded>>
  BY DEF StoresElsewhere, Stores, LoadFails, QueryFails
<1>6. UNCHANGED vars => UNCHANGED <<filters, registered, handlers, applied, loaded>>
  BY DEF vars, queryVars
<1>7. QED
  BY <1>1, <1>2, <1>3, <1>4, <1>5, <1>6, ProjectionSteps DEF Rest

LEMMA ProjectionInvHolds == Spec => [](TypeOK /\ ProjectionInv)
BY ProjectionTypeInit, ProjectionTypeNext, ProjectionInvInit, ProjectionInvNext, PTL DEF Spec

-----------------------------------------------------------------------------
\* What load_events returns.

\* Of the filters with one kind and aggregate the hash map keeps the last.
LEMMA KeptFilter ==
    ASSUME QueryTypeOK, NEW i \in DOMAIN filters
    PROVE  \E j \in DOMAIN filters :
             Kept(j) /\ filters[j].kind = filters[i].kind /\ filters[j].stream = filters[i].stream
<1> DEFINE Same == {j \in DOMAIN filters :
                      filters[j].kind = filters[i].kind /\ filters[j].stream = filters[i].stream}
<1>1. DOMAIN filters = 1..Len(filters) /\ Len(filters) \in Nat
  BY DEF QueryTypeOK
<1>2. Same \in SUBSET (1..Len(filters)) /\ i \in Same
  BY <1>1
<1>3. PICK j \in Same : \A k \in Same : k <= j
  BY <1>1, <1>2, HighestIndex
<1>4. \A k \in DOMAIN filters : k > j => k \notin Same
  BY <1>1, <1>3
<1>5. Kept(j)
  BY <1>3, <1>4 DEF Kept
<1>6. QED
  BY <1>3, <1>5

\* With agreeing filters the pass over all streams misses nothing by skipping
\* what has been seen: that was found under a filter of the same kind.
LEMMA InMemoryMatches ==
    ASSUME QueryTypeOK, Agreeing, NEW p \in DOMAIN stored,
           NEW i \in DOMAIN filters, Matches(filters[i], p)
    PROVE  ByAggregate(p) \/ FromAllKinds(p)
<1>1. PICK j \in DOMAIN filters :
        Kept(j) /\ filters[j].kind = filters[i].kind /\ filters[j].stream = filters[i].stream
  BY KeptFilter
<1>2. Matches(filters[j], p)
  BY <1>1 DEF Agreeing, Matches
<1>3. CASE filters[j].stream # Anywhere
  BY <1>1, <1>2, <1>3 DEF ByAggregate
<1>4. ASSUME filters[j].stream = Anywhere, Seen(p) PROVE ByAggregate(p)
  <2>1. PICK q \in DOMAIN stored : ByAggregate(q) /\ stored[q] = stored[p]
    BY <1>4 DEF Seen
  <2>2. PICK k \in DOMAIN filters :
          Kept(k) /\ filters[k].stream # Anywhere /\ Matches(filters[k], q)
    BY <2>1 DEF ByAggregate
  <2>3. filters[k].kind = filters[j].kind
    BY <1>2, <2>1, <2>2 DEF Matches
  <2>4. filters[k].after = filters[j].after
    BY <2>3 DEF Agreeing
  <2>5. Matches(filters[k], p)
    BY <1>2, <2>1, <2>2, <2>4 DEF Matches
  <2>6. QED
    BY <2>2, <2>5 DEF ByAggregate
<1>5. QED
  BY <1>1, <1>2, <1>3, <1>4 DEF FromAllKinds

LEMMA FiltersMatching ==
    ASSUME QueryTypeOK, NEW p
    PROVE  /\ {i \in DOMAIN filters : Matches(filters[i], p)} \in SUBSET (1..Len(filters))
           /\ Len(filters) \in Nat
BY DEF QueryTypeOK

LEMMA CopiesPositive ==
    ASSUME QueryTypeOK, NEW p, Copies(p) > 0
    PROVE  \E i \in DOMAIN filters : Matches(filters[i], p)
<1>1. CASE backend = "inmemory"
  BY <1>1 DEF Copies, InMemoryCopies, ByAggregate, FromAllKinds
<1>2. CASE backend # "inmemory"
  BY <1>2, FiltersMatching, AtMostOneElement DEF Copies, PostgresCopies
<1>3. QED
  BY <1>1, <1>2

LEMMA CopiesOfMatching ==
    ASSUME QueryTypeOK, backend = "postgres" \/ Agreeing, NEW p \in DOMAIN stored,
           NEW i \in DOMAIN filters, Matches(filters[i], p)
    PROVE  Copies(p) > 0
<1>1. CASE backend = "inmemory"
  BY <1>1, InMemoryMatches DEF Copies, InMemoryCopies
<1>2. CASE backend # "inmemory"
  BY <1>2, FiltersMatching, AtMostOneElement DEF Copies, PostgresCopies
<1>3. QED
  BY <1>1, <1>2

LEMMA CopiesOnce ==
    ASSUME QueryTypeOK, NEW p \in DOMAIN stored,
           \/ backend = "inmemory"
           \/ \A i, j \in DOMAIN filters :
                Matches(filters[i], p) /\ Matches(filters[j], p) => i = j
    PROVE  Copies(p) <= 1
<1>1. CASE backend = "inmemory"
  <2>1. ~(ByAggregate(p) /\ FromAllKinds(p))
    BY DEF FromAllKinds, Seen
  <2>2. QED
    BY <1>1, <2>1 DEF Copies, InMemoryCopies
<1>2. CASE backend # "inmemory"
  BY <1>2, FiltersMatching, AtMostOneElement DEF Copies, PostgresCopies
<1>3. QED
  BY <1>1, <1>2

\* After the answer its events and the query stay as they are; before it there is
\* nothing to say.
Settles ==
    /\ UNCHANGED <<backend, filters, result, loaded, registered, applied>>
    /\ \A p \in DOMAIN loaded : stored'[p] = stored[p]

LEMMA AnswerStays ==
    ASSUME TypeOK, [Next]_vars, result' = "ok", ~LoadProjection
    PROVE  Settles /\ result = "ok"
<1>1. Rest \/ \E kinds \in Seq(Kinds), from \in Streams \cup {Anywhere}, as \in Enums \cup {Single} :
                  Register(kinds, from, as)
  BY ProjectionSteps
<1>2. ASSUME NEW e \in Event, StoresElsewhere(e) PROVE Settles /\ result = "ok"
  <2>1. stored \in Seq(Event) /\ stored' = Append(stored, e)
    BY <1>2 DEF StoresElsewhere, Stores, TypeOK, QueryTypeOK
  <2>2. \A p \in 1..Len(stored) : stored'[p] = stored[p]
    BY <2>1
  <2>3. loaded \in Seq(Nat) /\ Len(loaded) <= Len(stored)
    BY DEF TypeOK, QueryTypeOK
  <2>4. \A p \in DOMAIN loaded : p \in 1..Len(stored)
    BY <2>1, <2>3
  <2>5. QED
    BY <1>2, <2>2, <2>4 DEF Settles, StoresElsewhere, Stores
<1>3. CASE UNCHANGED vars
  BY <1>3 DEF vars, queryVars, Settles
<1>4. ~LoadFails /\ (\A f \in Filter : ~AskDirectly(f))
  BY DEF LoadFails, QueryFails, AskDirectly, Ask
<1>5. \A kinds, from, as : ~Register(kinds, from, as)
  BY DEF Register
<1>6. QED
  BY <1>1, <1>2, <1>3, <1>4, <1>5 DEF Rest

\* The answer itself.
LEMMA AnswerStep ==
    ASSUME TypeOK, LoadProjection
    PROVE  /\ UNCHANGED <<backend, stored, filters, handlers, registered>>
           /\ DOMAIN loaded' = DOMAIN stored /\ DOMAIN applied' = DOMAIN stored
           /\ \A p \in DOMAIN stored :
                /\ loaded'[p] = Copies(p)
                /\ applied'[p].times = IF handlers[stored[p].kind] = NoHandler
                                       THEN 0 ELSE Copies(p)
                /\ applied'[p].as = handlers[stored[p].kind]
BY DEF LoadProjection, Answer

\* load_events returns the events that match a filter and no others: the Postgres
\* store always, the in-memory store whenever its filters agree on positions.
THEOREM MatchingLoaded == Spec => []LoadsMatching
<1>1. Init => LoadsMatching
  BY DEF Init, QueryInit, LoadsMatching
<1>2. TypeOK /\ LoadsMatching /\ [Next]_vars => LoadsMatching'
  <2> SUFFICES ASSUME TypeOK, LoadsMatching, [Next]_vars,
                      result' = "ok", backend' = "postgres" \/ Agreeing',
                      NEW p \in DOMAIN loaded'
               PROVE  loaded'[p] > 0 <=> \E i \in DOMAIN filters' : Matches(filters[i], p)'
    BY DEF LoadsMatching
  <2>1. CASE LoadProjection
    <3>1. QueryTypeOK /\ (backend = "postgres" \/ Agreeing) /\ p \in DOMAIN stored
      BY <2>1, AnswerStep DEF TypeOK, Agreeing
    <3>2. loaded'[p] = Copies(p)
      BY <2>1, <3>1, AnswerStep
    <3>3. Copies(p) > 0 <=> \E i \in DOMAIN filters : Matches(filters[i], p)
      BY <3>1, CopiesPositive, CopiesOfMatching
    <3>4. QED
      BY <2>1, <3>2, <3>3, AnswerStep DEF Matches
  <2>2. CASE ~LoadProjection
    <3>1. Settles /\ result = "ok"
      BY <2>2, AnswerStays
    <3>2. loaded[p] > 0 <=> \E i \in DOMAIN filters : Matches(filters[i], p)
      BY <3>1 DEF Settles, LoadsMatching, Agreeing
    <3>3. QED
      BY <3>1, <3>2 DEF Settles, Matches
  <2>3. QED
    BY <2>1, <2>2
<1>3. QED
  BY <1>1, <1>2, ProjectionTypeCorrect, PTL DEF Spec

\* load_events returns no event twice: the in-memory store never, the Postgres
\* store if no two filters are for the same kind, as in an aggregate's load.
THEOREM LoadedOnce == Spec => []LoadsOnce
<1>1. Init => LoadsOnce
  BY DEF Init, QueryInit, LoadsOnce
<1>2. TypeOK /\ LoadsOnce /\ [Next]_vars => LoadsOnce'
  <2> SUFFICES ASSUME TypeOK, LoadsOnce, [Next]_vars, result' = "ok",
                      \/ backend' = "inmemory"
                      \/ \A i, j \in DOMAIN filters' :
                           filters'[i].kind = filters'[j].kind => i = j,
                      NEW p \in DOMAIN loaded'
               PROVE  loaded'[p] <= 1
    BY DEF LoadsOnce
  <2>1. CASE LoadProjection
    <3>1. QueryTypeOK /\ p \in DOMAIN stored /\ loaded'[p] = Copies(p)
      BY <2>1, AnswerStep DEF TypeOK
    <3>2. \/ backend = "inmemory"
          \/ \A i, j \in DOMAIN filters :
               Matches(filters[i], p) /\ Matches(filters[j], p) => i = j
      BY <2>1, AnswerStep DEF Matches
    <3>3. QED
      BY <3>1, <3>2, CopiesOnce
  <2>2. CASE ~LoadProjection
    BY <2>2, AnswerStays DEF Settles, LoadsOnce
  <2>3. QED
    BY <2>1, <2>2
<1>3. QED
  BY <1>1, <1>2, ProjectionTypeCorrect, PTL DEF Spec

-----------------------------------------------------------------------------
\* What a projection is given.

LEMMA StoredEvent ==
    ASSUME TypeOK, NEW p \in DOMAIN stored
    PROVE  stored[p] \in Event /\ stored[p].kind \in Kinds /\ QueryTypeOK
<1>1. stored[p] \in Event
  BY DEF TypeOK, QueryTypeOK
<1>2. QED
  BY <1>1 DEF TypeOK, Event

\* A builder's query matches the events its calls ask for.
LEMMA MatchesAsked ==
    ASSUME TypeOK, Filtered, registered # <<>>, NEW p \in DOMAIN stored
    PROVE  /\ Agreeing
           /\ \A i \in DOMAIN filters, j \in DOMAIN registered : \A m \in Places(j) :
                Origin(i, j, m) =>
                  (Matches(filters[i], p) <=> AsksAs(registered[j], m, stored[p]))
           /\ (\E i \in DOMAIN filters : Matches(filters[i], p))
                <=> \E j \in DOMAIN registered : AsksFor(registered[j], stored[p])
<1>1. \A i \in DOMAIN filters : filters[i].after = 0
  BY DEF Filtered
<1>2. p > 0
  BY DEF TypeOK, QueryTypeOK
<1>3. ASSUME NEW i \in DOMAIN filters, NEW j \in DOMAIN registered, NEW m \in Places(j),
             Origin(i, j, m)
      PROVE  Matches(filters[i], p) <=> AsksAs(registered[j], m, stored[p])
  BY <1>1, <1>2, <1>3 DEF Origin, Matches, AsksAs
<1>4. ASSUME NEW i \in DOMAIN filters, Matches(filters[i], p)
      PROVE  \E j \in DOMAIN registered : AsksFor(registered[j], stored[p])
  <2>1. PICK j \in DOMAIN registered : \E m \in Places(j) : Origin(i, j, m)
    BY DEF Filtered
  <2>2. QED
    BY <1>3, <1>4, <2>1 DEF AsksFor, Places
<1>5. ASSUME NEW j \in DOMAIN registered, AsksFor(registered[j], stored[p])
      PROVE  \E i \in DOMAIN filters : Matches(filters[i], p)
  <2>1. PICK m \in Places(j) : AsksAs(registered[j], m, stored[p])
    BY <1>5 DEF AsksFor, Places
  <2>2. PICK i \in DOMAIN filters : Origin(i, j, m)
    BY DEF Filtered
  <2>3. QED
    BY <1>3, <2>1, <2>2
<1>6. QED
  BY <1>1, <1>3, <1>4, <1>5 DEF Agreeing

\* Calls that do not overlap make filters that do not.
LEMMA DisjointMatches ==
    ASSUME TypeOK, Filtered, registered # <<>>, Disjoint, NEW p \in DOMAIN stored,
           NEW i1 \in DOMAIN filters, NEW i2 \in DOMAIN filters,
           Matches(filters[i1], p), Matches(filters[i2], p)
    PROVE  i1 = i2
<1> SUFFICES ASSUME i1 # i2 PROVE FALSE
  OBVIOUS
<1>1. PICK j1 \in DOMAIN registered, j2 \in DOMAIN registered :
        \E m1 \in Places(j1), m2 \in Places(j2) :
            Origin(i1, j1, m1) /\ Origin(i2, j2, m2) /\ ~(j1 = j2 /\ m1 = m2)
  BY DEF Filtered
<1>2. PICK m1 \in Places(j1), m2 \in Places(j2) :
        Origin(i1, j1, m1) /\ Origin(i2, j2, m2) /\ ~(j1 = j2 /\ m1 = m2)
  BY <1>1
<1>3. AsksAs(registered[j1], m1, stored[p]) /\ AsksAs(registered[j2], m2, stored[p])
  BY <1>2, MatchesAsked
<1>4. stored[p] \in Event
  BY DEF TypeOK, QueryTypeOK
<1>5. QED
  BY <1>2, <1>3, <1>4 DEF Disjoint, Places

\* A projection is given each event it is registered for exactly once and no
\* others: on the in-memory store whatever the registrations, on the Postgres
\* store when none of them overlap.
THEOREM ProjectionsApplyOnce == Spec => []AppliedOnce
<1>1. Init => AppliedOnce
  BY DEF Init, QueryInit, AppliedOnce
<1>2. TypeOK /\ ProjectionInv /\ AppliedOnce /\ [Next]_vars => AppliedOnce'
  <2> SUFFICES ASSUME TypeOK, ProjectionInv, AppliedOnce, [Next]_vars,
                      result' = "ok", backend' = "inmemory" \/ Disjoint',
                      NEW p \in DOMAIN applied'
               PROVE  applied'[p].times =
                        IF \E j \in DOMAIN registered' : AsksFor(registered'[j], stored'[p])
                        THEN 1 ELSE 0
    BY DEF AppliedOnce
  <2>1. CASE LoadProjection
    <3>1. /\ UNCHANGED <<backend, stored, registered>>
          /\ p \in DOMAIN stored
          /\ applied'[p].times = IF handlers[stored[p].kind] = NoHandler THEN 0 ELSE Copies(p)
      BY <2>1, AnswerStep
    <3>2. stored[p] \in Event /\ stored[p].kind \in Kinds /\ QueryTypeOK
      BY <3>1, StoredEvent
    <3>3. CASE registered = <<>>
      <4>1. handlers[stored[p].kind] = NoHandler
        BY <3>2, <3>3 DEF ProjectionInv, Handled
      <4>2. QED
        BY <3>1, <3>3, <4>1
    <3>4. CASE registered # <<>>
      <4>1. Filtered /\ (backend = "inmemory" \/ Disjoint)
        BY <3>1 DEF ProjectionInv, Disjoint
      <4>2. Copies(p) \in Nat /\ Copies(p) <= 1
        BY <3>1, <3>2, <3>4, <4>1, CopiesType, CopiesOnce, DisjointMatches
      <4>3. CASE \E i \in DOMAIN filters : Matches(filters[i], p)
        <5>1. Copies(p) > 0
          BY <3>1, <3>2, <3>4, <4>1, <4>3, MatchesAsked, CopiesOfMatching
        <5>2. handlers[stored[p].kind] # NoHandler
          BY <3>4, <4>3 DEF TypeOK, Matches
        <5>3. \E j \in DOMAIN registered : AsksFor(registered[j], stored[p])
          BY <3>1, <3>4, <4>1, <4>3, MatchesAsked
        <5>4. QED
          BY <3>1, <4>2, <5>1, <5>2, <5>3
      <4>4. CASE ~\E i \in DOMAIN filters : Matches(filters[i], p)
        <5>1. Copies(p) = 0
          BY <3>2, <4>2, <4>4, CopiesPositive
        <5>2. ~\E j \in DOMAIN registered : AsksFor(registered[j], stored[p])
          BY <3>1, <3>4, <4>1, <4>4, MatchesAsked
        <5>3. QED
          BY <3>1, <5>1, <5>2
      <4>5. QED
        BY <4>3, <4>4
    <3>5. QED
      BY <3>3, <3>4
  <2>2. CASE ~LoadProjection
    <3>1. Settles /\ result = "ok"
      BY <2>2, AnswerStays
    <3>2. DOMAIN applied = DOMAIN loaded
      BY DEF ProjectionInv
    <3>3. QED
      BY <3>1, <3>2 DEF Settles, AppliedOnce, Disjoint
  <2>3. QED
    BY <2>1, <2>2
<1>3. QED
  BY <1>1, <1>2, ProjectionInvHolds, PTL DEF Spec

\* An event is decoded as a registration that asks for it says, provided calls
\* that share a kind decode it alike.
THEOREM ProjectionsDecode == Spec => []HandledAsRegistered
<1>1. Init => HandledAsRegistered
  BY DEF Init, QueryInit, HandledAsRegistered
<1>2. TypeOK /\ ProjectionInv /\ HandledAsRegistered /\ [Next]_vars => HandledAsRegistered'
  <2> DEFINE Asks(j, k) == \E m \in DOMAIN registered[j].kinds : registered[j].kinds[m] = k
             Alike == \A i, j \in DOMAIN registered, e \in Event :
                        Asks(i, e.kind) /\ Asks(j, e.kind) => registered[i].as = registered[j].as
  <2> SUFFICES ASSUME TypeOK, ProjectionInv, HandledAsRegistered, [Next]_vars,
                      result' = "ok", Alike', NEW p \in DOMAIN applied', applied'[p].times > 0
               PROVE  \E j \in DOMAIN registered' :
                        /\ AsksFor(registered'[j], stored'[p])
                        /\ registered'[j].as = applied'[p].as
    BY DEF HandledAsRegistered
  <2>1. CASE LoadProjection
    <3>1. /\ UNCHANGED <<backend, stored, registered>>
          /\ p \in DOMAIN stored
          /\ applied'[p].times = IF handlers[stored[p].kind] = NoHandler THEN 0 ELSE Copies(p)
          /\ applied'[p].as = handlers[stored[p].kind]
      BY <2>1, AnswerStep
    <3>2. stored[p] \in Event /\ stored[p].kind \in Kinds /\ QueryTypeOK
      BY <3>1, StoredEvent
    <3>3. handlers[stored[p].kind] # NoHandler /\ Copies(p) > 0
      BY <3>1
    <3>4. PICK j \in DOMAIN registered :
            registered[j].as = handlers[stored[p].kind] /\ Asks(j, stored[p].kind)
      BY <3>2, <3>3 DEF ProjectionInv, Handled, Places
    <3>5. PICK i \in DOMAIN registered : AsksFor(registered[i], stored[p])
      <4>1. registered # <<>>
        BY <3>4
      <4>2. QED
        BY <3>1, <3>2, <3>3, <4>1, CopiesPositive, MatchesAsked DEF ProjectionInv
    <3>6. Asks(i, stored[p].kind)
      BY <3>5 DEF AsksFor, AsksAs
    <3>7. registered[i].as = registered[j].as
      BY <3>1, <3>2, <3>4, <3>6
    <3>8. QED
      BY <3>1, <3>4, <3>5, <3>7
  <2>2. CASE ~LoadProjection
    <3>1. Settles /\ result = "ok"
      BY <2>2, AnswerStays
    <3>2. DOMAIN applied = DOMAIN loaded
      BY DEF ProjectionInv
    <3>3. QED
      BY <3>1, <3>2 DEF Settles, HandledAsRegistered
  <2>3. QED
    BY <2>1, <2>2
<1>3. QED
  BY <1>1, <1>2, ProjectionInvHolds, PTL DEF Spec
=============================================================================
