-------------------------- MODULE MCResponsesHandler --------------------------
(***************************************************************************)
(* A small instance of ResponsesHandler: one tool turn with one call, so   *)
(* that requests save it, race for it and retry it.                        *)
(***************************************************************************)
EXTENDS ResponsesHandler, TLC

CONSTANTS c1

MCCall == [id |-> c1, kind |-> "function"]

MCTurns == {[calls |-> <<MCCall>>, bytes |-> 1, wellFormed |-> TRUE]}

MCResultSets == {<<MCCall>>}

\* As in MCContinuationStore: the remains of unreferenced records do not matter.
HandlerView ==
    <<[store EXCEPT !.heap =
         [r \in RecIds |-> IF r \in Unreferenced THEN BlankRecord ELSE store.heap[r]]],
      leases, clock, reqs, shuttingDown>>

Symmetry == Permutations(RecIds) \cup Permutations(Requests)
================================================================================
