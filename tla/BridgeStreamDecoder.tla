------------------------- MODULE BridgeStreamDecoder -------------------------
(***************************************************************************)
(* The provider side of a response: internal/opencodego/stream.go turns    *)
(* the lines of an upstream stream (SSEDecoder) into chat-completion       *)
(* chunks and these into the semantic events the HTTP handler consumes.    *)
(*                                                                         *)
(* The stream is whatever the provider sends, in any order: chunks for     *)
(* several choices, tool calls in fragments, finish reasons that disagree, *)
(* a cut in the middle of an event.  Tool calls stay private until [DONE]  *)
(* and come out whole or not at all.                                       *)
(*                                                                         *)
(* Strings the code compares or measures (names, identifiers, arguments)   *)
(* are sequences of pieces, one unit of length each; text and reasoning    *)
(* are lengths.                                                            *)
(***************************************************************************)
EXTENDS SSEDecoder, FiniteSets

CONSTANTS
    Lines,                \* the lines a provider may send
    ChunkOf,              \* the chunk a data payload encodes, by payload
    AllowedToolNames,     \* declared names, those of the registry included
    CustomNames,          \* upstream names registered as custom tools
    InboundName,          \* the public name of a custom tool
    PatchInput,           \* the argument strings unwrapApplyPatchArguments accepts,
                          \* each with the length of the patch it wraps
    MaxChoices, MaxToolCalls, MaxToolNameBytes, MaxProviderCallIDBytes,
    MaxToolCallArgumentBytes, MaxAggregateBytes,
    MaxOutputBytes, MaxTextBytes, MaxReasoningBytes,
    EventOverhead         \* bridgeStreamEventOverhead

Strings == Seq(STRING)

\* What a provider may send: any index, any finish reason, calls in any fragments.
ToolFragment == [index : Int, function : BOOLEAN, id : Strings, name : Strings,
                 arguments : Strings]

ChunkChoice == [index : Int, finish : STRING \cup {""}, content : Nat, reasoning : Nat,
                tools : Seq(ToolFragment)]

Chunk == [choices : Seq(ChunkChoice), idBytes : Nat, usage : BOOLEAN]

ASSUME DecoderAssumption ==
    /\ \A l \in Lines : l \in Line /\ (l.field = "blank" <=> l.bytes = 0)
                        /\ (l.field = "blank" => l.terminated) /\ l.valueBytes =< l.bytes
    /\ DOMAIN ChunkOf \subseteq Payloads \ {"[DONE]"}
    /\ \A p \in DOMAIN ChunkOf : ChunkOf[p] \in Chunk
    /\ CustomNames \subseteq AllowedToolNames
    /\ AllowedToolNames \subseteq Strings \ {<< >>} /\ InboundName \in Strings
    /\ \A arguments \in DOMAIN PatchInput : PatchInput[arguments] \in Nat
    /\ \A n \in {MaxChoices, MaxToolCalls, MaxToolNameBytes, MaxProviderCallIDBytes,
                 MaxToolCallArgumentBytes, MaxAggregateBytes, MaxOutputBytes,
                 MaxTextBytes, MaxReasoningBytes, EventOverhead} : n \in Nat \ {0}

VARIABLES
    sse,        \* the SSEDecoder
    decoder,    \* the BridgeStreamDecoder
    out,        \* the events Next has returned, in order
    lastLine    \* the last line read, or NoLine

decoderVars == <<sse, decoder, out, lastLine>>

-----------------------------------------------------------------------------

ChoiceIndexes == 0..(MaxChoices - 1)

Keys == ChoiceIndexes \X (0..(MaxToolCalls - 1))

Terminals == {"completed", "incomplete", "failed"}

ToolEvents == {"tool_started", "tool_arguments", "tool_completed"}

\* An event and what it is about: a tool call's key and call ID, a choice, or
\* nothing; and the length of the text or arguments it carries.
Event(type, key, callID, bytes) ==
    [type |-> type, key |-> key, callID |-> callID, bytes |-> bytes]

Plain(type) == Event(type, << >>, << >>, 0)

NoLine == [field |-> "comment", value |-> Empty, bytes |-> 1, valueBytes |-> 0,
           utf8 |-> TRUE, terminated |-> TRUE]

NewBridgeStreamDecoder ==
    [pending |-> << >>, calls |-> << >>, started |-> FALSE, terminal |-> FALSE,
     finishReason |-> "", finishConflict |-> FALSE,
     choiceFinishReasons |-> [c \in ChoiceIndexes |-> ""],
     aggregateBytes |-> 0, outputBytes |-> 0, textBytes |-> 0, reasoningBytes |-> 0,
     finalized |-> FALSE, toolTurn |-> FALSE, err |-> ""]

\* The methods return on the first error: what is done to a decoder that already
\* has one leaves it alone.
Then(d, next(_)) == IF d.err # "" THEN d ELSE next(d)

Fails(d, e) == [d EXCEPT !.err = e]

Require(d, cond, e) == IF d.err = "" /\ ~cond THEN Fails(d, e) ELSE d

reserveAggregateBytes(d, n) ==
    IF d.aggregateBytes > MaxAggregateBytes - n THEN Fails(d, "limit")
    ELSE [d EXCEPT !.aggregateBytes = @ + n]

queue(d, event, payloadBytes) ==
    IF \/ EventOverhead > MaxAggregateBytes
       \/ payloadBytes > MaxAggregateBytes - EventOverhead
       \/ d.aggregateBytes > MaxAggregateBytes - (EventOverhead + payloadBytes)
    THEN Fails(d, "limit")
    ELSE [d EXCEPT !.aggregateBytes = @ + EventOverhead + payloadBytes,
                   !.pending = Append(@, event)]

Queue(d, event, payloadBytes) == Then(d, LAMBDA x : queue(x, event, payloadBytes))

-----------------------------------------------------------------------------
(* Tool calls.                                                             *)

syntheticToolCallID(key) == <<ToString(key)>>

FirstCallID(key, id) == IF id = << >> THEN syntheticToolCallID(key) ELSE id

appendProviderCallID(existing, fragment) ==
    IF fragment = << >> \/ existing = fragment THEN existing
    ELSE IF IsPrefix(existing, fragment) THEN fragment
    ELSE existing \o fragment

providerCallIDGrowth(existing, fragment) ==
    Len(appendProviderCallID(existing, fragment)) - Len(existing)

validToolNamePrefix(name) ==
    name = << >> \/ \E allowed \in AllowedToolNames : IsPrefix(name, allowed)

\* Apply a step to each index of a sequence, up to the first error.
Each(d, seq, step(_, _)) ==
    LET upTo[n \in 0..Len(seq)] ==
          IF n = 0 THEN d ELSE Then(upTo[n - 1], LAMBDA x : step(x, n))
    IN upTo[Len(seq)]

\* The keys of a chunk that have no call yet.
NewKeys(d, chunk) ==
    (UNION {{<<c.index, t.index>> : t \in ToSet(c.tools)} : c \in ToSet(chunk.choices)})
       \ DOMAIN d.calls

\* Fault: the identifier of a new call is not measured.
MetadataFitsOpen(d, key, t) ==
    IF key \in DOMAIN d.calls
    THEN /\ Len(t.name) =< MaxToolNameBytes - Len(d.calls[key].name)
         /\ providerCallIDGrowth(d.calls[key].providerCallID, t.id)
               =< MaxProviderCallIDBytes - Len(d.calls[key].providerCallID)
    ELSE Len(t.name) =< MaxToolNameBytes

\* The metadata of a fragment fits beside what its call already holds.
MetadataFits(d, key, t) ==
    IF key \in DOMAIN d.calls
    THEN /\ Len(t.name) =< MaxToolNameBytes - Len(d.calls[key].name)
         /\ providerCallIDGrowth(d.calls[key].providerCallID, t.id)
               =< MaxProviderCallIDBytes - Len(d.calls[key].providerCallID)
    ELSE /\ Len(FirstCallID(key, t.id)) =< MaxProviderCallIDBytes
         /\ Len(t.name) =< MaxToolNameBytes

validateTool(d, c, i) ==
    LET t == c.tools[i]
        indexed == Require(Require(d, t.index >= 0, "malformed"), t.function, "malformed")
        bounded == Require(indexed, t.index < MaxToolCalls, "limit")
        fresh == Require(bounded, \A j \in 1..(i - 1) : c.tools[j].index # t.index, "malformed")
    IN Then(fresh, LAMBDA x : Require(x, MetadataFits(x, <<c.index, t.index>>, t), "limit"))

validateChoice(d, chunk, i) ==
    LET c == chunk.choices[i]
        indexed == Require(Require(d, c.index >= 0, "malformed"), c.index < MaxChoices, "limit")
        fresh == Require(indexed, \A j \in 1..(i - 1) : chunk.choices[j].index # c.index, "malformed")
        few == Require(fresh, Len(c.tools) =< MaxToolCalls, "limit")
    IN Then(few, LAMBDA x : Each(x, c.tools, LAMBDA y, j : validateTool(y, c, j)))

\* Nothing of a chunk is applied before all of it is within bounds.
validateChunkToolBounds(d, chunk) ==
    LET few == Require(d, Len(chunk.choices) =< MaxChoices, "limit")
        each == Then(few, LAMBDA x :
                   Each(x, chunk.choices, LAMBDA y, i : validateChoice(y, chunk, i)))
    IN Require(each, Cardinality(NewKeys(d, chunk)) =< MaxToolCalls - Cardinality(DOMAIN d.calls),
               "limit")

NewCall(key, t) ==
    [callID |-> FirstCallID(key, t.id), providerCallID |-> << >>, name |-> << >>,
     arguments |-> << >>, started |-> FALSE, completed |-> FALSE]

addName(d, key, t) ==
    LET named == Require(d, validToolNamePrefix(d.calls[key].name \o t.name), "undeclared")
        charged == Then(named, LAMBDA x : reserveAggregateBytes(x,
                      providerCallIDGrowth(x.calls[key].providerCallID, t.id)))
    IN Then(charged, LAMBDA x :
          [x EXCEPT !.calls[key].providerCallID = appendProviderCallID(@, t.id),
                    !.calls[key].name = @ \o t.name])

\* Fault: arguments do not count as output.
addArgumentsUncounted(d, key, t) ==
    LET n == Len(t.arguments)
        short == Require(d, n =< MaxToolCallArgumentBytes - Len(d.calls[key].arguments), "limit")
        charged == Then(short, LAMBDA x : reserveAggregateBytes(x, n))
    IN Then(charged, LAMBDA x : [x EXCEPT !.calls[key].arguments = @ \o t.arguments])

addArguments(d, key, t) ==
    LET n == Len(t.arguments)
        short == Require(d, n =< MaxToolCallArgumentBytes - Len(d.calls[key].arguments), "limit")
        fits == Require(short, n =< MaxOutputBytes - d.outputBytes, "limit")
        charged == Then(fits, LAMBDA x : reserveAggregateBytes(x, n))
    IN Then(charged, LAMBDA x :
          [x EXCEPT !.calls[key].arguments = @ \o t.arguments, !.outputBytes = @ + n])

\* The bounds validateChunkToolBounds has just checked are not repeated.
consumeToolCall(d, c, t) ==
    LET key == <<c.index, t.index>>
        known == IF key \in DOMAIN d.calls THEN d
                 ELSE [d EXCEPT !.calls = [k \in DOMAIN @ \cup {key} |->
                                             IF k = key THEN NewCall(key, t) ELSE @[k]]]
    IN Then(addName(known, key, t), LAMBDA x : addArguments(x, key, t))

-----------------------------------------------------------------------------
(* Chunks.                                                                 *)

recordFinishReason(d, reason) ==
    IF d.finishReason = "" THEN [d EXCEPT !.finishReason = reason]
    ELSE IF d.finishReason # reason THEN [d EXCEPT !.finishConflict = TRUE]
    ELSE d

\* Fault: a finished choice may open further tool calls.
AcceptsAnyTrailing(d, c) ==
    LET previous == d.choiceFinishReasons[c.index]
    IN previous # "" =>
         /\ c.finish \in {"", previous}
         /\ previous = "tool_calls"
         /\ c.content = 0
         /\ c.reasoning = 0

\* What a choice that has reported its finish reason may still send: trailing
\* fragments of calls that exist.
AcceptsTrailing(d, c) ==
    LET previous == d.choiceFinishReasons[c.index]
    IN previous # "" =>
         /\ c.finish \in {"", previous}
         /\ previous = "tool_calls"
         /\ c.content = 0
         /\ c.reasoning = 0
         /\ \A t \in ToSet(c.tools) : <<c.index, t.index>> \in DOMAIN d.calls

addText(d, c) ==
    LET fits == Require(d, /\ c.content =< MaxTextBytes - d.textBytes
                           /\ c.content =< MaxOutputBytes - d.outputBytes, "limit")
        queued == Queue(fits, Event("text", <<c.index>>, << >>, c.content), c.content)
    IN IF c.content = 0 THEN d
       ELSE Then(queued, LAMBDA x : [x EXCEPT !.textBytes = @ + c.content,
                                              !.outputBytes = @ + c.content])

addReasoning(d, c) ==
    LET fits == Require(d, c.reasoning =< MaxReasoningBytes - d.reasoningBytes, "limit")
        queued == Queue(fits, Event("reasoning", <<c.index>>, << >>, c.reasoning), c.reasoning)
    IN IF c.reasoning = 0 THEN d
       ELSE Then(queued, LAMBDA x : [x EXCEPT !.reasoningBytes = @ + c.reasoning])

consumeChoice(d, c) ==
    LET open == Require(d, AcceptsTrailing(d, c), "malformed")
        recorded == Then(open, LAMBDA x : IF c.finish = "" THEN x ELSE recordFinishReason(x, c.finish))
        text == Then(recorded, LAMBDA x : addText(x, c))
        reasoned == Then(text, LAMBDA x : addReasoning(x, c))
        called == Then(reasoned, LAMBDA x :
                     Each(x, c.tools, LAMBDA y, i : consumeToolCall(y, c, c.tools[i])))
    IN Then(called, LAMBDA x : IF c.finish = "" THEN x
                               ELSE [x EXCEPT !.choiceFinishReasons[c.index] = c.finish])

consumeChunk(d, chunk) ==
    LET valid == validateChunkToolBounds(d, chunk)
        started == Then(valid, LAMBDA x : IF x.started THEN x
                      ELSE queue([x EXCEPT !.started = TRUE], Plain("started"), chunk.idBytes))
        consumed == Then(started, LAMBDA x :
                       Each(x, chunk.choices, LAMBDA y, i : consumeChoice(y, chunk.choices[i])))
    IN IF chunk.usage THEN Queue(consumed, Plain("usage"), 0) ELSE consumed

-----------------------------------------------------------------------------
(* The end of the stream.                                                  *)

toolKeyLess(a, b) == a[1] < b[1] \/ (a[1] = b[1] /\ a[2] < b[2])

sortedToolKeys(calls) ==
    CHOOSE keys \in [1..Cardinality(DOMAIN calls) -> DOMAIN calls] :
       \A i, j \in DOMAIN keys : i < j => toolKeyLess(keys[i], keys[j])

publicName(name) == IF name \in CustomNames THEN InboundName ELSE name

ensureToolStarted(d, key) ==
    LET call == d.calls[key]
        started == queue(d, Event("tool_started", key, call.callID, 0),
                         Len(call.callID) + Len(publicName(call.name)))
        marked == Then(started, LAMBDA x : [x EXCEPT !.calls[key].started = TRUE])
    IN IF call.name \notin AllowedToolNames THEN d
       ELSE IF call.name \notin CustomNames /\ call.arguments # << >>
       THEN Queue(marked, Event("tool_arguments", key, call.callID, Len(call.arguments)), 0)
       ELSE marked

startCall(d, key) ==
    LET started == ensureToolStarted(d, key)
        named == Require(started, d.calls[key].name # << >>, "malformed")
    IN Require(named, d.calls[key].name \in AllowedToolNames, "undeclared")

completeCall(d, keys, i) ==
    LET key == keys[i]
        call == d.calls[key]
        unique == Require(d, \A j \in 1..(i - 1) : d.calls[keys[j]].callID # call.callID, "malformed")
        marked == Then(unique, LAMBDA x : [x EXCEPT !.calls[key].completed = TRUE])
        custom == call.name \in CustomNames
        accepted == Require(marked, custom => call.arguments \in DOMAIN PatchInput, "custom")
        size == IF custom THEN PatchInput[call.arguments] ELSE Len(call.arguments)
    IN Then(accepted, LAMBDA x :
          Queue(IF custom THEN queue(x, Event("tool_arguments", key, call.callID, size), 0) ELSE x,
                Event("tool_completed", key, call.callID, size),
                Len(call.callID) + Len(publicName(call.name))))

\* Fault: a call whose name never arrived is skipped.
finishNamedCalls(d) ==
    LET keys == SelectSeq(sortedToolKeys(d.calls), LAMBDA k : d.calls[k].name # << >>)
        started == Each(d, keys, LAMBDA x, i : startCall(x, keys[i]))
        completed == Then(started, LAMBDA x : Each(x, keys, LAMBDA y, i : completeCall(y, keys, i)))
        final == Then(completed, LAMBDA x :
                    [x EXCEPT !.finalized = TRUE, !.toolTurn = DOMAIN x.calls # {}])
    IN Queue(final, Plain("completed"), 0)

finishToolCalls(d) ==
    LET keys == sortedToolKeys(d.calls)
        started == Each(d, keys, LAMBDA x, i : startCall(x, keys[i]))
        completed == Then(started, LAMBDA x : Each(x, keys, LAMBDA y, i : completeCall(y, keys, i)))
        final == Then(completed, LAMBDA x :
                    [x EXCEPT !.finalized = TRUE, !.toolTurn = DOMAIN x.calls # {}])
    IN Queue(final, Plain("completed"), 0)

finish(d) ==
    IF d.finishConflict \/ d.finishReason = "" THEN queue(d, Plain("failed"), 0)
    ELSE CASE d.finishReason = "tool_calls" -> finishToolCalls(d)
           [] d.finishReason = "stop" ->
                 IF DOMAIN d.calls # {} THEN queue(d, Plain("failed"), 0)
                 ELSE queue([d EXCEPT !.finalized = TRUE], Plain("completed"), 0)
           [] d.finishReason \in {"length", "content_filter", "refusal"} ->
                 queue(d, Plain("incomplete"), 0)
           [] OTHER -> queue(d, Plain("failed"), 0)

\* PendingTurn returns the call IDs of a finalized tool turn, or nothing.
HasPendingTurn(d) ==
    /\ d.finalized /\ d.toolTurn
    /\ \A key \in DOMAIN d.calls : d.calls[key].completed /\ d.calls[key].started

PendingCallIDs(d) ==
    LET keys == sortedToolKeys(d.calls)
    IN [i \in 1..Len(keys) |-> d.calls[keys[i]].callID]

-----------------------------------------------------------------------------
(* Next, one line of the stream or one returned event at a time.  After    *)
(* the terminal event it returns io.EOF and changes nothing.               *)

\* ChatCompletionStreamDecoder.Next: the joined data lines are the end marker, a
\* provider error, a chunk, or malformed. Empty lines around them do not matter.
Decode(data) ==
    LET solid == SelectSeq(data, LAMBDA p : p # Empty)
    IN IF Len(solid) = 1 THEN solid[1] ELSE "garbage"

Failure(d) == [d EXCEPT !.terminal = TRUE, !.pending = << >>]

\* Fault: a chunk that yields no event costs nothing.
TranslateFree(d, payload) ==
    CASE payload = "[DONE]" -> [finish(d) EXCEPT !.terminal = TRUE]
      [] payload \in DOMAIN ChunkOf -> consumeChunk(d, ChunkOf[payload])
      [] OTHER -> Fails(d, "malformed")

\* What one provider event does to the decoder. A chunk that yields no event is
\* charged, so that a stream of them ends.
Translate(d, payload) ==
    CASE payload = "[DONE]" -> [finish(d) EXCEPT !.terminal = TRUE]
      [] payload \in DOMAIN ChunkOf ->
            Then(consumeChunk(d, ChunkOf[payload]), LAMBDA x :
               IF x.pending = << >> THEN reserveAggregateBytes(x, EventOverhead) ELSE x)
      [] OTHER -> Fails(d, "malformed")

\* Fault: events queued before the failure are still returned.
SettleKeepsPending(d) ==
    IF d.err = "" THEN decoder' = d /\ UNCHANGED out
    ELSE /\ decoder' = [d EXCEPT !.terminal = TRUE]
         /\ out' = Append(out, Plain("failed"))

\* The decoder after a provider event: an error drops what is queued and is
\* returned as the one Failed event.
Settle(d) ==
    IF d.err = "" THEN decoder' = d /\ UNCHANGED out
    ELSE decoder' = Failure(d) /\ out' = Append(out, Plain("failed"))

Reading == decoder.pending = << >> /\ ~decoder.terminal

ReadLine(l) ==
    /\ Reading
    /\ lastLine.terminated
    /\ sse' = AfterLine(sse, l)
    /\ IF sse'.err # "" THEN Settle(Fails(decoder, "stream"))
       ELSE IF Dispatches(sse, l) THEN Settle(Translate(decoder, Decode(sse.data)))
       ELSE UNCHANGED <<decoder, out>>
    /\ lastLine' = l

\* Fault: an event without its blank line is dispatched when the stream ends.
ReadEOFDispatches ==
    /\ Reading
    /\ sse' = dispatch(sse)
    /\ IF sse.data # << >> THEN Settle(Translate(decoder, Decode(sse.data)))
                           ELSE Settle(Fails(decoder, "stream"))
    /\ UNCHANGED lastLine

ReadEOF ==
    /\ Reading
    /\ sse' = AfterEOF(sse)
    /\ Settle(Fails(decoder, "stream"))
    /\ UNCHANGED lastLine

\* The body fails: closed by the watcher, timed out, or cut. classifyStreamReadError
\* tells these apart only for the code of the Failed event.
ReadFails ==
    /\ Reading
    /\ sse' = rememberError(sse, "transport")
    /\ Settle(Fails(decoder, "stream"))
    /\ UNCHANGED lastLine

ReturnPending ==
    /\ decoder.pending # << >>
    /\ out' = Append(out, Head(decoder.pending))
    /\ decoder' = [decoder EXCEPT !.pending = Tail(@)]
    /\ UNCHANGED <<sse, lastLine>>

DecoderInit ==
    /\ sse = NewSSEDecoder
    /\ decoder = NewBridgeStreamDecoder
    /\ out = << >>
    /\ lastLine = NoLine

DecoderNext ==
    \/ \E l \in Lines : ReadLine(l)
    \/ ReadEOF
    \/ ReadFails
    \/ ReturnPending

DecoderSpec == DecoderInit /\ [][DecoderNext]_decoderVars

-----------------------------------------------------------------------------
(* Properties.                                                             *)

EventTypes == {"started", "text", "reasoning", "usage"} \cup ToolEvents \cup Terminals

Errors == {"", "limit", "malformed", "undeclared", "custom", "stream"}

Reasons == STRING \cup {""}

\* A call ID is the provider's, or synthetic.
CallIDs == Strings \cup {syntheticToolCallID(key) : key \in Keys} \cup {<< >>}

EventRecord == [type : EventTypes, key : Seq(Int), callID : CallIDs, bytes : Nat]

Call == [callID : CallIDs, providerCallID : Strings, name : Strings, arguments : Strings,
         started : BOOLEAN, completed : BOOLEAN]

\* A decoder that holds one of these maps of calls.
DecoderWith(calls) ==
    [pending : Seq(EventRecord), calls : calls,
     started : BOOLEAN, terminal : BOOLEAN, finishReason : Reasons, finishConflict : BOOLEAN,
     choiceFinishReasons : [ChoiceIndexes -> Reasons],
     aggregateBytes : Nat, outputBytes : Nat, textBytes : Nat, reasoningBytes : Nat,
     finalized : BOOLEAN, toolTurn : BOOLEAN, err : Errors]

\* Type correctness; every call is at a key within MaxChoices and MaxToolCalls.
DecoderTypeOK ==
    /\ sse \in SSE
    /\ decoder \in DecoderWith({decoder.calls})
    /\ DOMAIN decoder.calls \subseteq Keys
    /\ \A key \in DOMAIN decoder.calls : decoder.calls[key] \in Call
    /\ out \in Seq(EventRecord)

\* Every event of the stream so far, the queued ones included.
Events == out \o decoder.pending

\* Next (fail-closed, no read-ahead) returns exactly one terminal event: nothing
\* comes after it, whatever was queued when the stream failed, and io.EOF is
\* all that is left only once it is out.
TerminalOnceLast ==
    /\ \A i \in 1..Len(Events) : Events[i].type \in Terminals => i = Len(Events)
    /\ decoder.terminal /\ decoder.pending = << >> =>
          out # << >> /\ Last(out).type \in Terminals

\* The indices of the events of one type about one call.
At(type, key) == {i \in 1..Len(Events) : Events[i].type = type /\ Events[i].key = key}

\* Tool calls come out whole or not at all (finishToolCalls, PendingTurn): if one
\* tool event exists, the turn completed, every call was started and then
\* completed exactly once under a call ID of its own, and the pending turn the
\* handler saves names exactly these call IDs in this order. A turn that failed, or was
\* cut off by length, exposes none.
ToolTurnWhole ==
    (\E i \in 1..Len(Events) : Events[i].type \in ToolEvents) =>
       /\ Last(Events).type = "completed"
       /\ \A key \in DOMAIN decoder.calls :
             /\ Cardinality(At("tool_started", key)) = 1
             /\ Cardinality(At("tool_completed", key)) = 1
             /\ \A i \in At("tool_started", key), j \in At("tool_completed", key) : i < j
       /\ HasPendingTurn(decoder)
       /\ IsInjective(PendingCallIDs(decoder))
       /\ \A i \in 1..Len(Events) : Events[i].type \in ToolEvents =>
             /\ Events[i].key \in DOMAIN decoder.calls
             /\ Events[i].callID = decoder.calls[Events[i].key].callID
       /\ LET keys == sortedToolKeys(decoder.calls)
          IN \A m, n \in DOMAIN keys : m < n =>
                \A i \in At("tool_completed", keys[m]), j \in At("tool_completed", keys[n]) : i < j

CallsOf(d, c) == {key \in DOMAIN d.calls : key[1] = c}

\* A finished choice is frozen (consumeChunk): its reason never changes, it gains
\* no call and no text, and unless it ended in tool calls its calls do not change.
FinishedChoiceFrozen ==
    [][\A c \in ChoiceIndexes : decoder.choiceFinishReasons[c] # "" =>
          /\ decoder'.choiceFinishReasons[c] = decoder.choiceFinishReasons[c]
          /\ CallsOf(decoder', c) = CallsOf(decoder, c)
          /\ decoder.choiceFinishReasons[c] # "tool_calls" =>
                \A key \in CallsOf(decoder, c) : decoder'.calls[key].arguments = decoder.calls[key].arguments
          /\ \A i \in 1..Len(decoder'.pending) :
                decoder'.pending[i].key = <<c>> =>
                   decoder'.pending[i] \in ToSet(decoder.pending)]_decoderVars

\* Every provider event is paid for: it ends the stream or takes at least the
\* event overhead from the aggregate budget, so that a stream of chunks that
\* mean nothing ends as well.
EventCharged ==
    [][sse.data \notin {<< >>, <<Empty>>} /\ sse'.data = << >> /\ sse'.err = "" =>
          \/ decoder'.terminal
          \/ decoder'.aggregateBytes >= decoder.aggregateBytes + EventOverhead]_decoderVars

\* The arguments a set of calls holds.
ArgumentBytes(calls) ==
    LET n == [key \in DOMAIN calls |-> Len(calls[key].arguments)]
    IN MapThenSumSet(LAMBDA key : n[key], DOMAIN calls)

\* The budgets hold across any fragmentation, and the running output total is
\* exactly the text and arguments retained.
BudgetsHeld ==
    /\ decoder.outputBytes = decoder.textBytes + ArgumentBytes(decoder.calls)
    /\ decoder.aggregateBytes =< MaxAggregateBytes
    /\ decoder.outputBytes =< MaxOutputBytes
    /\ decoder.textBytes =< MaxTextBytes
    /\ decoder.reasoningBytes =< MaxReasoningBytes
    /\ Cardinality(DOMAIN decoder.calls) =< MaxToolCalls
    /\ \A key \in DOMAIN decoder.calls :
          /\ Len(decoder.calls[key].name) =< MaxToolNameBytes
          /\ Len(decoder.calls[key].providerCallID) =< MaxProviderCallIDBytes
          /\ Len(decoder.calls[key].arguments) =< MaxToolCallArgumentBytes

\* A stream that is cut anywhere, even inside the end marker, never looks
\* finished: a turn completes only on the blank line that dispatches [DONE].
CutNeverCompletes ==
    (\E i \in 1..Len(Events) : Events[i].type \in {"completed", "incomplete"}) =>
       lastLine.field = "blank" /\ sse.err = ""
=============================================================================
