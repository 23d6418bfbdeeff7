--------------------------- MODULE PostgresStore ---------------------------
(***************************************************************************)
(* sourcery-postgres: append and append_expecting_new as the statements of *)
(* their transactions, on connections of one pool, at READ COMMITTED.      *)
(*                                                                         *)
(* A transaction dropped before COMMIT (an error, a conflict, a future     *)
(* nobody polls any more) keeps its connection and its locks until the     *)
(* database has rolled it back.  The database executes what it was sent    *)
(* first: a statement that waits for a lock gets it, then is rolled back;  *)
(* a COMMIT commits.                                                       *)
(***************************************************************************)
EXTENDS Naturals, Sequences, FiniteSets

LOCAL INSTANCE FiniteSetsExt

CONSTANTS
    Clients,      \* clones of the store, each running one call at a time
    Streams,      \* the primary keys of es_streams
    PoolSize,     \* the connections of the pool
    AnyVersion,   \* append without an expected version
    NewStream,    \* append_expecting_new
    NoRow,        \* the stream has no row in es_streams
    Null,         \* its last_position is NULL
    NoTx,         \* the client has no transaction
    MaxCalls,     \* bound on the calls of all clients
    MaxBatch      \* bound on the events of a call

ASSUME PostgresAssumption ==
    /\ PoolSize \in Nat
    /\ MaxCalls \in Nat
    /\ MaxBatch \in Nat
    /\ \A x \in {AnyVersion, NewStream, NoRow, Null} : x \notin Nat
    /\ AnyVersion # NewStream

VARIABLES
    rows,      \* [Streams -> the committed last_position]: table es_streams
    events,    \* the committed events: table es_events
    drawn,     \* the last value drawn from the BIGSERIAL sequence
    pc,        \* [Clients -> the statement the client's call awaits]
    call,      \* [Clients -> the client's call]
    tx,        \* [Clients -> its open transaction]
    orphans,   \* dropped transactions the database has not ended yet
    ret        \* [Clients -> what its last call returned]

vars == <<rows, events, drawn, pc, call, tx, orphans, ret>>

Event == [pos : Nat, s : Streams, by : Clients, call : Nat]
Request == [by : Clients, call : Nat, s : Streams, n : Nat,
            expect : {AnyVersion, NewStream} \cup Nat]

\* created: the row of the stream is inserted by this transaction; locked: it
\* holds the row's lock; last: the last_position it has written.
Transaction == [of : Request, created : BOOLEAN, locked : BOOLEAN,
                positions : Seq(Nat), last : {Null} \cup Nat]

\* left: what the database has still to do for a dropped transaction.
Orphan == [t : Transaction, left : {"insert row", "select", "commit", "rollback"}]

ASSUME NoTxAssumption == NoTx \notin Transaction

Init ==
    /\ rows = [s \in Streams |-> NoRow]
    /\ events = {}
    /\ drawn = 0
    /\ pc = [c \in Clients |-> "idle"]
    /\ call \in [Clients -> {[by |-> c, call |-> 0, s |-> s, n |-> 0, expect |-> AnyVersion] :
                                c \in Clients, s \in Streams}]
    /\ \A c \in Clients : call[c].by = c
    /\ tx = [c \in Clients |-> NoTx]
    /\ orphans = {}
    /\ ret = [c \in Clients |-> "ok"]

-----------------------------------------------------------------------------
Goto(c, label) == pc' = [pc EXCEPT ![c] = label]
Return(c, answer) == Goto(c, "idle") /\ ret' = [ret EXCEPT ![c] = answer]

Live == {c \in Clients : tx[c] # NoTx}
Open == Cardinality(Live) + Cardinality(orphans)

\* The transactions of these clients and these dropped ones on stream s, and
\* those c's, or o, may have to wait for.
Working(clients, dropped, s) ==
    {t \in {tx[d] : d \in clients} \cup {o.t : o \in dropped} : t.of.s = s}
Others(c) == Working(Live \ {c}, orphans, call[c].s)
Rivals(o) == Working(Live, orphans \ {o}, o.t.of.s)

\* No transaction among them has inserted the row, or has its lock.  Mutant:
\* SELECT without FOR UPDATE.
KeyFree(others) == \A t \in others : ~t.created
UnlockedAlways(others) == TRUE
Unlocked(others) == \A t \in others : ~t.locked

\* What the first two statements make of a transaction.
Inserted(t) == [t EXCEPT !.created = (rows[t.of.s] = NoRow)]
Locked(t) == [t EXCEPT !.locked = TRUE]

\* c's call drops its transaction as t, and leaves the database this to do.
Drop(c, t, left) ==
    /\ orphans' = orphans \cup {[t |-> t, left |-> left]}
    /\ tx' = [tx EXCEPT ![c] = NoTx]

\* The database executes COMMIT.
Applies(t) ==
    /\ rows' = [rows EXCEPT ![t.of.s] = t.last]
    /\ events' = events \cup {[pos |-> t.positions[i], s |-> t.of.s,
                               by |-> t.of.by, call |-> t.of.call] : i \in DOMAIN t.positions}

-----------------------------------------------------------------------------
\* A call: the version it expects is the position of some event it has loaded.
Ask(c) ==
    /\ pc[c] = "idle"
    /\ MapThenSumSet(LAMBDA d : call[d].call, Clients) < MaxCalls
    /\ \E s \in Streams, n \in 0..MaxBatch :
       \E v \in {AnyVersion, NewStream} \cup {e.pos : e \in {f \in events : f.s = s}} :
         /\ call' = [call EXCEPT ![c] = [by |-> c, call |-> call[c].call + 1,
                                         s |-> s, n |-> n, expect |-> v]]
         \* an empty batch is not looked at any further
         /\ IF n = 0 THEN Return(c, "ok") ELSE Goto(c, "begin") /\ UNCHANGED ret
    /\ UNCHANGED <<rows, events, drawn, tx, orphans>>

\* The pool has a connection to give.  Mutant: it opens as many as are asked for.
ConnectionAlways == TRUE
ConnectionFree == Open < PoolSize

\* pool.begin()
Begin(c) ==
    /\ pc[c] = "begin"
    /\ ConnectionFree
    /\ tx' = [tx EXCEPT ![c] = [of |-> call[c], created |-> FALSE, locked |-> FALSE,
                                positions |-> <<>>, last |-> Null]]
    /\ Goto(c, "insert row")
    /\ UNCHANGED <<rows, events, drawn, call, orphans, ret>>

\* INSERT INTO es_streams ... ON CONFLICT DO NOTHING waits for a transaction that
\* has inserted the same key.
InsertRow(c) ==
    /\ pc[c] = "insert row"
    /\ KeyFree(Others(c))
    /\ tx' = [tx EXCEPT ![c] = Inserted(@)]
    /\ Goto(c, "select")
    /\ UNCHANGED <<rows, events, drawn, call, orphans, ret>>

\* What SELECT last_position returns, and the checks on it.
Current(c) == IF tx[c].created THEN Null ELSE rows[call[c].s]

Conflicts(c) ==
    CASE call[c].expect = AnyVersion -> FALSE
      [] call[c].expect = NewStream  -> Current(c) # Null
      [] OTHER                       -> Current(c) # call[c].expect

\* append_expecting_new does not expect the NULL of the row just inserted.
NullFails(c) == call[c].expect = NewStream /\ Current(c) = Null

\* SELECT ... FOR UPDATE waits for the row's lock; who fails the checks has it.
SelectForUpdate(c) ==
    /\ pc[c] = "select"
    /\ Unlocked(Others(c))
    /\ \/ Conflicts(c) /\ Return(c, "conflict") /\ Drop(c, Locked(tx[c]), "rollback")
       \/ NullFails(c) /\ Return(c, "error") /\ Drop(c, Locked(tx[c]), "rollback")
       \/ /\ ~Conflicts(c) /\ ~NullFails(c)
          /\ tx' = [tx EXCEPT ![c] = Locked(@)]
          /\ Goto(c, "insert events")
          /\ UNCHANGED <<orphans, ret>>
    /\ UNCHANGED <<rows, events, drawn, call>>

\* INSERT INTO es_events draws a position for each row, others drawing as well.
InsertEvent(c) ==
    /\ pc[c] = "insert events"
    /\ drawn' = drawn + 1
    /\ tx' = [tx EXCEPT ![c].positions = Append(@, drawn + 1)]
    /\ IF Len(tx[c].positions) + 1 < call[c].n THEN UNCHANGED pc ELSE Goto(c, "update")
    /\ UNCHANGED <<rows, events, call, orphans, ret>>

\* rows.last().  Mutant: the first position returned is taken for the last.
FirstReturned(c) == tx[c].positions[1]
LastReturned(c) == tx[c].positions[Len(tx[c].positions)]

Update(c) ==
    /\ pc[c] = "update"
    /\ tx' = [tx EXCEPT ![c].last = LastReturned(c)]
    /\ Goto(c, "commit")
    /\ UNCHANGED <<rows, events, drawn, call, orphans, ret>>

Commit(c) ==
    /\ pc[c] = "commit"
    /\ Applies(tx[c])
    /\ tx' = [tx EXCEPT ![c] = NoTx]
    /\ Return(c, "ok")
    /\ UNCHANGED <<drawn, call, orphans>>

-----------------------------------------------------------------------------
\* A statement fails, no connection is had in time, or the caller drops the
\* future; then the database may have the statement, and may execute it yet.
Abandon(c) ==
    /\ pc[c] # "idle"
    /\ Return(c, "error")
    /\ \/ pc[c] = "begin" /\ UNCHANGED <<tx, orphans>>
       \/ pc[c] # "begin" /\ Drop(c, tx[c], "rollback")
       \/ pc[c] \in {"insert row", "select", "commit"} /\ Drop(c, tx[c], pc[c])
    /\ UNCHANGED <<rows, events, drawn, call>>

\* The database executes the statement a dropped transaction waits in.  (What
\* the other two statements do nobody sees once it is rolled back.)
Executed(o, t) == orphans' = (orphans \ {o}) \cup {[t |-> t, left |-> "rollback"]}

Execute(o) ==
    /\ \/ o.left = "insert row" /\ KeyFree(Rivals(o)) /\ Executed(o, Inserted(o.t))
       \/ o.left = "select" /\ Unlocked(Rivals(o)) /\ Executed(o, Locked(o.t))
    /\ UNCHANGED <<rows, events, drawn, pc, call, tx, ret>>

\* Mutant: dropping a transaction does not roll it back.
EndCommitted(o) ==
    /\ o.left = "commit"
    /\ orphans' = orphans \ {o}
    /\ Applies(o.t)
    /\ UNCHANGED <<drawn, pc, call, tx, ret>>

\* The database ends a dropped transaction.
End(o) ==
    /\ o.left \in {"commit", "rollback"}
    /\ orphans' = orphans \ {o}
    /\ IF o.left = "commit" THEN Applies(o.t) ELSE UNCHANGED <<rows, events>>
    /\ UNCHANGED <<drawn, pc, call, tx, ret>>

Step(c) ==
    \/ Begin(c) \/ InsertRow(c) \/ SelectForUpdate(c)
    \/ InsertEvent(c) \/ Update(c) \/ Commit(c)

Next ==
    \/ \E c \in Clients : Ask(c) \/ Step(c) \/ Abandon(c)
    \/ \E o \in orphans : Execute(o) \/ End(o)

Spec == Init /\ [][Next]_vars

\* Statements that can run do, and the database ends what is dropped.  No lock is
\* granted out of turn for ever: there are finitely many calls.
FairSpec ==
    /\ Spec
    /\ \A c \in Clients : WF_vars(Step(c))
    /\ WF_vars(\E o \in orphans : Execute(o) \/ End(o))

-----------------------------------------------------------------------------
\* Every variable has the values its comment says, and no more transactions are
\* open than the pool has connections.
TypeOK ==
    /\ rows \in [Streams -> {NoRow, Null} \cup Nat]
    /\ events \subseteq Event
    /\ drawn \in Nat
    /\ pc \in [Clients -> {"idle", "begin", "insert row", "select", "insert events",
                           "update", "commit"}]
    /\ call \in [Clients -> Request]
    /\ tx \in [Clients -> Transaction \cup {NoTx}]
    /\ orphans \subseteq Orphan
    /\ ret \in [Clients -> {"ok", "conflict", "error"}]
    /\ Open <= PoolSize

OfStream(s) == {e \in events : e.s = s}

\* The two tables agree: a stream's last_position is the highest position among
\* its events, and a stream without events has no row.  append compares with the
\* one what load_events returned from the other.
VersionIsLastPosition ==
    \A s \in Streams :
        IF OfStream(s) = {} THEN rows[s] = NoRow
        ELSE (\E e \in OfStream(s) : e.pos = rows[s]) /\ \A e \in OfStream(s) : e.pos <= rows[s]

\* Events appear in a stream in the order of their positions: what is loaded
\* after some position of the stream, as a snapshot's, misses nothing.
StreamInPositionOrder ==
    [][\A e \in events' \ events, f \in events : e.s = f.s => e.pos > f.pos]_vars

\* The same over all streams: "Positions are global and monotonic".
GlobalInPositionOrder ==
    [][\A e \in events' \ events, f \in events : e.pos > f.pos]_vars

\* Every call returns, whatever the others and the pool do.
AppendsReturn == \A c \in Clients : pc[c] # "idle" ~> pc[c] = "idle"

\* The requests that may still take effect: those of open calls, and those whose
\* COMMIT nobody waits for any more.
Pending ==
    {call[c] : c \in {d \in Clients : pc[d] # "idle"}}
        \cup {o.t.of : o \in {p \in orphans : p.left = "commit"}}

Answer == [c \in Clients |-> IF pc[c] = "idle" THEN ret[c] ELSE "waiting"]

\* The calls are those of a store whose appends are atomic.
Atomic == INSTANCE AtomicStore WITH
    Requests <- Request, pending <- Pending, answer <- Answer

ImplementsAtomicStore == Atomic!Spec
=============================================================================
