---------------------------- MODULE MCRepository ----------------------------
(***************************************************************************)
(* Small instances of Repository: who works on the store, how, and what    *)
(* may fail.                                                               *)
(***************************************************************************)
EXTENDS Repository

CONSTANTS r1, r2, w,  \* repositories
          s1, s2,     \* streams
          k1, k2,     \* event kinds
          Cap         \* the most events an aggregate permits itself

\* A rule as in the examples: stock is limited, an aggregate may not oversell.
WithinCap(agg, kinds) == Cardinality(agg) + Len(kinds) <= Cap

\* Everybody checks versions, or all but w do.
AllOptimistic == [r \in Repos |-> "optimistic"]
AllButW == [r \in Repos |-> IF r = w THEN "unchecked" ELSE "optimistic"]

\* All builds know all kinds, or r1 runs an older build that knows only k1.
SameKinds == [r \in Repos |-> Kinds]
OlderR1 == [r \in Repos |-> IF r = r1 THEN {k1} ELSE Kinds]

\* Snapshot policies.
NoneSnapshots == [r \in Repos |-> "off"]
AllAlways == [r \in Repos |-> "always"]
AllEvery == [r \in Repos |-> "every"]

\* Each repository owns its snapshot store (InMemorySnapshotStore is a field).
OwnStore == [r \in Repos |-> r]

\* How many calls each repository gets.
TwoCalls == [r \in Repos |-> 2]
ThreeCalls == [r \in Repos |-> 3]
FourCalls == [r \in Repos |-> 4]
TwoCallsForR1 == [r \in Repos |-> IF r = r1 THEN 2 ELSE 1]
=============================================================================
