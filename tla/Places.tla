-------------------------------- MODULE Places --------------------------------
(* The rows of the thread pane are ids in the order of their dates: what its *)
(* models say of such rows.  Everything is counted, nothing recursive.       *)
EXTENDS Integers, FiniteSets, Sequences

\* A set of ids from the lowest to the highest.
InOrder(S) ==
    [i \in 1 .. Cardinality(S) |-> CHOOSE k \in S : Cardinality({j \in S : j < k}) = i - 1]

\* The n greatest and the n least of them, in the order the pane draws them.
NewestOf(S, n) == InOrder({k \in S : Cardinality({j \in S : j > k}) < n})
OldestOf(S, n) == InOrder({k \in S : Cardinality({j \in S : j < k}) < n})

\* The rows at some places; those up to an id, beyond one, other than one.
At(q, places) == [i \in 1 .. Cardinality(places) |-> q[InOrder(places)[i]]]
UpTo(q, id) == At(q, {i \in DOMAIN q : q[i] <= id})
Beyond(q, id) == At(q, {i \in DOMAIN q : q[i] > id})
Without(q, id) == At(q, {i \in DOMAIN q : q[i] # id})
=============================================================================
