----------------------------- MODULE AtomicStore -----------------------------
(***************************************************************************)
(* What EventStore::append and append_expecting_new promise: a batch is    *)
(* stored whole, behind the events of its stream, at one moment at which   *)
(* the stream has the version the caller expects; a conflict is reported   *)
(* only at a moment at which it has not.  An error leaves open whether the *)
(* batch is, or will still be, stored.                                     *)
(***************************************************************************)
EXTENDS Naturals, FiniteSets

CONSTANTS Clients, Requests, AnyVersion, NewStream

VARIABLES
    events,    \* the stored events
    pending,   \* requests that may still take effect
    answer     \* [Clients -> the answer to the client's last request]

vars == <<events, pending, answer>>

OfStream(s) == {e \in events : e.s = s}

Admits(q) ==
    \/ q.expect = AnyVersion
    \/ q.expect = NewStream /\ OfStream(q.s) = {}
    \/ \E e \in OfStream(q.s) : e.pos = q.expect /\ \A f \in OfStream(q.s) : f.pos <= e.pos

Init ==
    /\ events = {}
    /\ pending = {}
    /\ answer = [c \in Clients |-> "ok"]

Ask(c) ==
    /\ answer[c] # "waiting"
    /\ \E q \in pending' \ pending :
         q \in Requests /\ q.by = c /\ q.n > 0 /\ pending' = pending \cup {q}
    /\ answer' = [answer EXCEPT ![c] = "waiting"]
    /\ UNCHANGED events

AskNothing(c) ==
    /\ answer[c] # "waiting"
    /\ answer' = [answer EXCEPT ![c] = "ok"]
    /\ UNCHANGED <<events, pending>>

\* q takes effect; its caller hears of it, unless it has an error already.
Land(q) ==
    /\ q \in pending /\ Admits(q)
    /\ \E batch \in SUBSET {e \in events' : e.by = q.by /\ e.call = q.call} :
         /\ events' = events \cup batch
         /\ Cardinality(batch) = q.n
         /\ \A e \in batch : e.s = q.s /\ \A f \in OfStream(q.s) : e.pos > f.pos
    /\ pending' = pending \ {q}
    /\ \/ answer[q.by] = "waiting" /\ answer' = [answer EXCEPT ![q.by] = "ok"]
       \/ UNCHANGED answer

Refuse(q) ==
    /\ q \in pending /\ ~Admits(q)
    /\ pending' = pending \ {q}
    /\ answer' = [answer EXCEPT ![q.by] = "conflict"]
    /\ UNCHANGED events

Fail(q) ==
    /\ q \in pending /\ answer[q.by] = "waiting"
    /\ pending' \in {pending, pending \ {q}}
    /\ answer' = [answer EXCEPT ![q.by] = "error"]
    /\ UNCHANGED events

Next ==
    \/ \E c \in Clients : Ask(c) \/ AskNothing(c)
    \/ \E q \in pending : Land(q) \/ Refuse(q) \/ Fail(q)

Spec == Init /\ [][Next]_vars
=============================================================================
