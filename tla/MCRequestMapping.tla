--------------------------- MODULE MCRequestMapping ---------------------------
(***************************************************************************)
(* Three turns: one of a function call and an apply_patch call on the go   *)
(* backend; one of the function call alone on zen; one of the apply_patch  *)
(* call alone whose provider named a model that is neither backend's, so   *)
(* that it is retained but cannot be continued.  Each of the last two      *)
(* collides with the first on a call ID.  Two requests race for them.      *)
(* Inputs: every sequence of up to two items over the whole alphabet,      *)
(* every order of three of the five items that a complete continuation is  *)
(* made of, every order of its calls and results, with the user message    *)
(* anywhere among them; tools and options around a few item sequences.     *)
(***************************************************************************)
EXTENDS RequestMapping

CONSTANTS c1, c2, q1, q2

F(c) == [id |-> c, kind |-> "function"]

P(c) == [id |-> c, kind |-> "custom"]

ParallelTurn == [calls |-> <<F(c1), P(c2)>>, bytes |-> 2, wellFormed |-> TRUE]

SingleTurn == [calls |-> <<F(c1)>>, bytes |-> 1, wellFormed |-> TRUE]

AliasTurn == [calls |-> <<P(c2)>>, bytes |-> 1, wellFormed |-> TRUE]

MCTurns == {ParallelTurn, SingleTurn, AliasTurn}

MCBackends == [tag \in {"go", "zen"} |-> IF tag = "go" THEN "flash" ELSE "free"]

MCModelOf == [t \in MCTurns |-> CASE t = ParallelTurn -> "flash"
                                   [] t = SingleTurn -> "free"
                                   [] t = AliasTurn -> "flash-alias"]

Msg(role) == [type |-> "message", role |-> role]

Call_(c, kind, same) == [type |-> "call", id |-> c, kind |-> kind, same |-> same]

Out(c, kind) == [type |-> "output", id |-> c, kind |-> kind]

\* What a complete continuation of ParallelTurn is made of.
CoreItems ==
    {Msg("user"), Call_(c1, "function", TRUE), Call_(c2, "custom", TRUE),
     Out(c1, "function"), Out(c2, "custom")}

AllItems ==
    CoreItems \cup {Msg("developer"), Call_(c1, "function", FALSE),
                    Call_(c2, "function", TRUE), Out(c1, "custom"),
                    [type |-> "unsupported"]}

Default ==
    [field |-> "known", model |-> "go", instructions |-> FALSE, previous |-> FALSE,
     items |-> <<Msg("user")>>, tools |-> << >>, choice |-> "auto", effort |-> "",
     format |-> "text", formatBytes |-> 0, stream |-> TRUE, store |-> FALSE]

SomeItems == {<< >>, <<Msg("user")>>, <<Out(c1, "function")>>,
              <<Msg("user"), Out(c2, "custom"), Out(c1, "function")>>}

SomeTools ==
    {[type |-> "function", name |-> name, bytes |-> 1] :
        name \in {"f", "g", "not a name", ApplyPatchToolName, ApplyPatchUpstreamName}}
      \cup {[type |-> "function", name |-> "g", bytes |-> 2],
            [type |-> "custom", name |-> ApplyPatchToolName, bytes |-> 0],
            [type |-> "custom", name |-> "f", bytes |-> 0],
            [type |-> "namespace", name |-> "f", bytes |-> 0],
            [type |-> "web_search", name |-> "", bytes |-> 0],
            [type |-> "unsupported", name |-> "", bytes |-> 0]}

FittingTools ==
    {[type |-> "function", name |-> "f", bytes |-> 1], [type |-> "function", name |-> "g", bytes |-> 2],
     [type |-> "custom", name |-> ApplyPatchToolName, bytes |-> 0],
     [type |-> "web_search", name |-> "", bytes |-> 0]}

\* The calls and results of ParallelTurn in any order; with a user message anywhere
\* among them where the calls keep their order; and one item more than allowed.
WholeReplays ==
    LET orders == SetToSeqs(CoreItems \ {Msg("user")})
        inOrder == {s \in orders : \E i, j \in 1..4 :
                      /\ i < j
                      /\ s[i] = Call_(c1, "function", TRUE)
                      /\ s[j] = Call_(c2, "custom", TRUE)}
    IN  orders \cup {InsertAt(s, i, Msg("user")) : s \in inOrder, i \in 1..5}
               \cup {<<Msg("user")>> \o s \o <<Msg("user")>> : s \in inOrder}

ItemInputs ==
    {[Default EXCEPT !.items = items] :
        items \in BoundedSeq(AllItems, 2) \cup WholeReplays \cup
                 UNION {SetToSeqs(S) : S \in kSubset(3, CoreItems)}}

ToolInputs ==
    {[Default EXCEPT !.tools = tools] :
        tools \in BoundedSeq(SomeTools, 2) \cup TupleOf(FittingTools, 3)}
      \cup
    {[Default EXCEPT !.tools = tools, !.choice = "f"] :
        tools \in BoundedSeq(FittingTools, 2) \cup SetToSeqs(FittingTools)}
      \cup
    {[Default EXCEPT !.items = <<Out(c2, "custom"), Out(c1, "function")>>, !.tools = tools] :
        tools \in TupleOf(FittingTools, 2)}

OptionInputs ==
    {[Default EXCEPT !.items = items, !.model = model, !.instructions = instructions,
                     !.previous = previous] :
        items \in SomeItems, model \in {"go", "zen", "untagged"},
        instructions \in BOOLEAN, previous \in BOOLEAN}
      \cup
    {[Default EXCEPT !.items = items, !.model = model, !.effort = effort] :
        items \in SomeItems, model \in {"go", "zen"}, effort \in {"high", "odd"}}
      \cup
    {[Default EXCEPT !.items = items, !.format = format, !.formatBytes = n, !.choice = choice] :
        items \in {<< >>, <<Msg("user")>>}, n \in {1, 4}, choice \in {"none", "required", "h"},
        format \in {"text", "json_object", "json_schema", "unsupported"}}
      \cup
    {[Default EXCEPT !.items = items, !.field = field, !.stream = stream, !.store = ~stream] :
        items \in {<< >>, <<Msg("user")>>}, field \in {"known", "deferred", "unknown"},
        stream \in BOOLEAN}
      \cup {[Default EXCEPT !.store = TRUE]}

\* One client sends anything, the other competes for the turns.
MCInputs ==
    (q1 :> ItemInputs \cup ToolInputs \cup OptionInputs) @@
    (q2 :> {[Default EXCEPT !.items = <<Out(c1, "function"), Out(c2, "custom")>>],
            [Default EXCEPT !.items = <<Out(c1, "function")>>, !.model = "zen"]})

MCResultSets == {<<F(c1), P(c2)>>}

\* What an idle request was last asked and answered, and what a sent one carries, is
\* read by no later step; the properties look at it in the step that sets it.
MappingView ==
    <<[store EXCEPT !.heap =
         [r \in RecIds |-> IF r \in Unreferenced THEN BlankRecord ELSE store.heap[r]]],
      leases, clock,
      [q \in Requests |-> IF reqs[q].pc = "leased" THEN reqs[q]
                         ELSE [Blank EXCEPT !.pc = reqs[q].pc]]>>

Symmetry == Permutations(RecIds)
=============================================================================
