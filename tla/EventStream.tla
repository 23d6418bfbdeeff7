---------------------------- MODULE EventStream ----------------------------
(***************************************************************************)
(* The data every other module shares: the events of one aggregate stream, *)
(* what a writer appends to it and what an aggregate rebuilt from it holds. *)
(*                                                                         *)
(* A stream is the sequence of the events stored for one (aggregate kind,  *)
(* aggregate id).  The code orders a stream by StoredEvent::position, a    *)
(* number taken from one global counter; inside one stream only the order  *)
(* of positions matters, so here the position of an event is its index,    *)
(* and 0 stands for "no position" (Option::None).                          *)
(*                                                                         *)
(* An event is known by who wrote it, in which call, as which event of the *)
(* batch, and by its kind.  An aggregate is the set of the events applied  *)
(* to it: Apply is the user's code, and what the library answers for is    *)
(* which events reach it.                                                  *)
(***************************************************************************)
EXTENDS Integers, Sequences

\* The position of a stream that holds nothing, and the version it has.
NoPosition == 0

\* Event batches a command handler can return: 1 to max kinds out of K.
Batches(K, max) == UNION {[1..n -> K] : n \in 1..max}

\* What Transaction::append buffers for the kinds a handler returned.
Stamp(w, c, kinds) ==
    [i \in DOMAIN kinds |-> [by |-> w, call |-> c, n |-> i, kind |-> kinds[i]]]

\* Mutant: the first event after the position is skipped too.
MatchingLater(stream, K, from, to) ==
    {i \in (from + 2)..to : stream[i].kind \in K}

\* Positions after "from" and up to "to" whose event is of one of the kinds K:
\* one filter per kind, all restricted to this stream and to later positions.
Matching(stream, K, from, to) ==
    {i \in (from + 1)..to : stream[i].kind \in K}

\* The aggregate that applying those events to the default one gives.
Replay(stream, K, from, to) ==
    {stream[i] : i \in Matching(stream, K, from, to)}

\* Every event of a stream or batch.
EventsOf(stream) == {stream[i] : i \in DOMAIN stream}

\* Mutant: the first of them.
IsFirstMatch(v, stream, K, from, to) ==
    LET M == Matching(stream, K, from, to)
    IN  \/ M = {} /\ v = from
        \/ v \in M /\ \A i \in M : v <= i

\* v is the position of the last of the matching events, or "from" if none is.
IsLastMatch(v, stream, K, from, to) ==
    LET M == Matching(stream, K, from, to)
    IN  \/ M = {} /\ v = from
        \/ v \in M /\ \A i \in M : i <= v
=============================================================================
