--------------------------- MODULE MCGatewayStream ---------------------------
(***************************************************************************)
(* A provider that may send these chunks in any order: text, reasoning and *)
(* usage, two tool calls in fragments (one of them custom, one without an  *)
(* identifier), colliding, overlong, unprintable and undeclared calls,     *)
(* agreeing and disagreeing finish reasons, and lines of every kind.       *)
(***************************************************************************)
EXTENDS GatewayStream

MCArguments == <<"x", "x", "x">>

MCTool(index, id, name, arguments) ==
    [index |-> index, function |-> TRUE, id |-> id, name |-> name, arguments |-> arguments]

MCChoice(index, finishReason, content, tools) ==
    [index |-> index, finish |-> finishReason, content |-> content, reasoning |-> 0,
     tools |-> tools]

MCChunk(choices) == [choices |-> choices, idBytes |-> 0, usage |-> FALSE]

MCTools(tool) == MCChunk(<<MCChoice(0, "", 0, <<tool>>)>>)

MCFinish(c, reason) == MCChunk(<<MCChoice(c, reason, 0, << >>)>>)

MCChunkOf == [
    text     |-> MCChunk(<<MCChoice(0, "", 1, << >>)>>),
    thinking |-> [MCChunk(<<[MCChoice(0, "", 0, << >>) EXCEPT !.reasoning = 1]>>) EXCEPT !.usage = TRUE],
    call     |-> MCTools(MCTool(0, <<"a">>, <<"f">>, << >>)),
    more     |-> MCTools(MCTool(0, <<"a", "b">>, <<"n">>, << >>)),
    patch    |-> MCChunk(<<MCChoice(0, "tool_calls", 0, <<MCTool(1, << >>, <<"p">>, MCArguments)>>)>>),
    clash    |-> MCTools(MCTool(1, <<"a">>, <<"f", "n">>, << >>)),
    long     |-> MCTools(MCTool(1, <<"a", "b", "c", "d">>, <<"p">>, MCArguments)),
    odd      |-> MCChunk(<<MCChoice(0, "tool_calls", 0, <<MCTool(1, <<"\n">>, <<"p">>, MCArguments)>>)>>),
    unknown  |-> MCTools(MCTool(0, <<"a">>, <<"z">>, << >>)),
    stop     |-> MCFinish(0, "stop"),
    calls    |-> MCFinish(0, "tool_calls"),
    length   |-> MCFinish(0, "length"),
    both     |-> MCChunk(<<MCChoice(1, "", 1, << >>), MCChoice(0, "tool_calls", 0, <<MCTool(0, << >>, << >>, MCArguments)>>)>>)]

MCPayloads == DOMAIN MCChunkOf \cup {"[DONE]", "error"}

MCEmpty == "empty"

MCLine(field, value, bytes) ==
    [field |-> field, value |-> value, bytes |-> bytes,
     valueBytes |-> IF field = "data" THEN bytes - 1 ELSE 0, utf8 |-> TRUE, terminated |-> TRUE]

MCLines ==
    {MCLine("data", p, 2) : p \in MCPayloads}
       \cup {MCLine("blank", MCEmpty, 0), MCLine("comment", MCEmpty, 1),
             MCLine("data", MCEmpty, 1), MCLine("retry", MCEmpty, 1), MCLine("data", "text", 5)}
       \cup {[MCLine("data", "[DONE]", 2) EXCEPT !.terminated = FALSE],
             [MCLine("data", "text", 2) EXCEPT !.utf8 = FALSE]}

MCAllowed == {<<"f", "n">>, <<"p">>}
MCCustom == {<<"p">>}
MCInbound == <<"ap">>
MCPatchInput == (MCArguments :> 2)

MCUnprintable == {"\n"}

\* Once the stream is over only the error of the SSE decoder matters; of the last line,
\* whether it was blank and whether it ended; of the events returned and of the
\* client's events, only those about tools and the last.
MCView ==
    <<IF decoder.terminal THEN sse.err ELSE sse, decoder,
      lastLine.field = "blank", lastLine.terminated,
      SelectSeq(out, LAMBDA e : e.type \in ToolEvents \cup Terminals),
      [session EXCEPT !.wire = IF @ = << >> THEN << >> ELSE <<Last(@).type>>],
      ClosedTools, saved>>
=============================================================================
