----------------------------- MODULE CommandLog -----------------------------
(***************************************************************************)
(* What the library promises to those who execute commands, without loads, *)
(* snapshots, versions, conflicts or retries: a stream grows by whole      *)
(* batches, each written once, and a writer that checks versions writes a  *)
(* batch only if its aggregate permits it in the state that all the events *)
(* stored before the batch give.                                           *)
(***************************************************************************)
EXTENDS EventStream

CONSTANTS
    Writers,        \* everyone who appends
    Checked,        \* those of them that check versions
    Streams,
    Kinds,
    KindsOf,        \* [Writers -> SUBSET Kinds]: the kinds a writer knows
    Permits(_, _),  \* the aggregate's rule: may this state emit these kinds?
    MaxCalls,       \* [Writers -> Nat]: calls a writer makes
    MaxBatch        \* the largest batch

VARIABLE log        \* [Streams -> sequence of events]

Init == log = [s \in Streams |-> <<>>]

\* No event of call c of writer w is stored.
Unwritten(w, c) ==
    \A s \in Streams : \A e \in EventsOf(log[s]) : ~(e.by = w /\ e.call = c)

Write(w, s, c, kinds) ==
    /\ Unwritten(w, c)
    /\ log' = [log EXCEPT ![s] = @ \o Stamp(w, c, kinds)]

\* A command decided on the state the batch is appended to.
Decide(w) ==
    \E s \in Streams, c \in 1..MaxCalls[w], kinds \in Batches(KindsOf[w], MaxBatch) :
        /\ Permits(Replay(log[s], KindsOf[w], 0, Len(log[s])), kinds)
        /\ Write(w, s, c, kinds)

\* A command of a writer that does not check, decided on whatever it has read,
\* or a fixture written without any command.
Force(w) ==
    \E s \in Streams, c \in 1..MaxCalls[w], kinds \in Batches(Kinds, MaxBatch) :
        Write(w, s, c, kinds)

Next ==
    \/ \E w \in Checked : Decide(w)
    \/ \E w \in Writers \ Checked : Force(w)

Spec == Init /\ [][Next]_log
=============================================================================
