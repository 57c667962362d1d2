------------------------- MODULE MCContinuationStore -------------------------
(***************************************************************************)
(* A small instance of ContinuationStore: three call IDs, so that turns    *)
(* overlap, follow one another under the same IDs and leave a turn apart;  *)
(* two requests that race for a lease; room for two records and for three  *)
(* bytes, so that either limit is met first, and fewer tombstones than IDs.*)
(***************************************************************************)
EXTENDS ContinuationStore, TLC

CONSTANTS c1, c2, c3

F(c) == [id |-> c, kind |-> "function"]

MCTurns ==
    {[calls |-> <<F(c1), F(c2)>>, bytes |-> 3, wellFormed |-> TRUE],
     [calls |-> <<F(c2)>>, bytes |-> 1, wellFormed |-> TRUE],
     [calls |-> <<F(c3)>>, bytes |-> 1, wellFormed |-> TRUE],
     [calls |-> <<F(c3), F(c3)>>, bytes |-> 1, wellFormed |-> TRUE]}

MCResultSets ==
    {<<F(c1), F(c2)>>, <<F(c2)>>, <<F(c3)>>, <<F(c1)>>,
     <<F(c2), F(c3)>>, <<[id |-> c3, kind |-> "custom"]>>}

\* Records nobody refers to can never be read again: states that differ only in
\* their remains are the same state.
StoreView ==
    <<[store EXCEPT !.heap =
         [r \in RecIds |-> IF r \in Unreferenced THEN BlankRecord ELSE store.heap[r]]],
      leases, clock>>

Symmetry == Permutations(RecIds) \cup Permutations(Requests)
=============================================================================
