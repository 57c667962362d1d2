---------------------------- MODULE RequestMapping ----------------------------
(***************************************************************************)
(* What POST /v1/responses accepts and what it then sends upstream: the    *)
(* request decoder (internal/codex/request.go), the tool registry and the  *)
(* tool-result translation, the continuation store, the handler's checks   *)
(* and the mapping to a Chat Completions request                           *)
(* (internal/opencodego/request.go).                                       *)
(*                                                                         *)
(* A follow-up request repeats, at will, the calls of the turn it answers; *)
(* the turn itself is replayed from the store.  The retained turn is the   *)
(* authority and what the client sent is only compared with it, in one     *)
(* pass over the input items that must hold for every order of messages,   *)
(* calls and results.                                                      *)
(*                                                                         *)
(* Decoding and mapping touch nothing another goroutine sees, so each is   *)
(* one step with the store operation next to it.  Messages are reduced to  *)
(* their role; a call item says whether its name and arguments equal the   *)
(* retained call's; result texts, statuses and error markers travel        *)
(* unchanged and are left out.                                             *)
(***************************************************************************)
EXTENDS ContinuationStore, SequencesExt

CONSTANTS
    Inputs,            \* the requests each client may send
    Backends,          \* the upstream model of each backend tag, go and zen
    ModelOf,           \* the model a turn's provider named (PendingTurn.Model)
    ThinkingMode,      \* "enabled" or "disabled"
    MaxInputItems, MaxTools, MaxSchemaBytes,
    WrapperBytes,      \* ApplyPatchWrapperSchemaBytes
    NoTurn

ASSUME MappingAssumption ==
    /\ DOMAIN Backends = {"go", "zen"}
    /\ DOMAIN ModelOf = Turns
    /\ \A t \in Turns : ModelOf[t] = "" => ~t.wellFormed  \* normalizePendingTurn
    /\ ThinkingMode \in {"enabled", "disabled"}
    /\ MaxInputItems \in Nat \ {0}
    /\ MaxTools \in Nat \ {0}
    /\ MaxSchemaBytes \in Nat \ {0}
    /\ WrapperBytes \in Nat
    /\ NoTurn \notin Turns

ApplyPatchToolName == "apply_patch"

ApplyPatchUpstreamName == "__ocg_apply_patch"

\* Names a function may have: ASCII letters, digits, '_' and '-'.
validFunctionName(name) == name # "not a name"

\* An input item: a message with its role, a call, a result, or anything else.
Item ==
    [type : {"message"}, role : {"system", "developer", "user", "assistant"}]
      \cup [type : {"call"}, id : CallIDs, kind : Kinds, same : BOOLEAN]
      \cup [type : {"output"}, id : CallIDs, kind : Kinds]
      \cup [type : {"unsupported"}]

\* A declared tool: its type, its name and the size of its schema.
Tool ==
    [type : {"function", "custom", "namespace", "web_search", "unsupported"},
     name : {"", "f", "g", "not a name", ApplyPatchToolName, ApplyPatchUpstreamName},
     bytes : Nat]

Input ==
    [field        : {"known", "deferred", "unknown"},  \* of the top-level fields
     model        : {"go", "zen", "untagged"},
     instructions : BOOLEAN,
     previous     : BOOLEAN,                           \* previous_response_id
     items        : Seq(Item),
     tools        : Seq(Tool),
     choice       : {"auto", "none", "required", "f", "h"},  \* the last two name one
     effort       : {"", "high", "odd"},
     format       : {"text", "json_object", "json_schema", "unsupported"},
     formatBytes  : Nat,
     stream       : BOOLEAN,
     store        : BOOLEAN]

ASSUME InputsAssumption == Inputs \in [Requests -> SUBSET Input]

VARIABLE reqs   \* per request: its input, its lease's copy of the turn, its wire

mappingVars == <<store, leases, clock, reqs>>

Outputs(items) == SelectSeq(items, LAMBDA i : i.type = "output")

Messages(items) == SelectSeq(items, LAMBDA i : i.type = "message")

FunctionTools(tools) == SelectSeq(tools, LAMBDA t : t.type = "function")

Customs(tools) == SelectSeq(tools, LAMBDA t : t.type = "custom")

SchemaBytes(tools) == FoldLeft(LAMBDA n, t : n + t.bytes, 0, FunctionTools(tools))

\* The first error of a sequence of checks; "" is none.
First(errors) ==
    LET bad == {i \in 1..Len(errors) : errors[i] # ""}
    IN IF bad = {} THEN "" ELSE errors[Min(bad)]

Fails(code, condition) == IF condition THEN code ELSE ""

-----------------------------------------------------------------------------
(* The decoder.                                                            *)

\* Every item is decoded in turn; a call_id may be declared by one call only.
decodeInputItems(items) ==
    First(<<Fails("request_too_large", Len(items) > MaxInputItems)>> \o
          [i \in 1..Len(items) |->
             IF items[i].type = "unsupported" THEN "unsupported_item_type"
             ELSE Fails("invalid_request",
                    /\ items[i].type = "call"
                    /\ \E j \in 1..(i - 1) : items[j].type = "call" /\ items[j].id = items[i].id)])

\* Tools are decoded in turn: each schema must fit in what the ones before it
\* have left, and a name is declared once, whatever the type of the tool.
decodeTools(tools) ==
    First(<<Fails("request_too_large", Len(tools) > MaxTools)>> \o
          [i \in 1..Len(tools) |->
             First(<<Fails("unsupported_tool_type", tools[i].type = "unsupported"),
                     Fails("request_too_large",
                           /\ tools[i].type = "function"
                           /\ SchemaBytes(SubSeq(tools, 1, i)) > MaxSchemaBytes),
                     Fails("invalid_request",
                           /\ tools[i].name # ""
                           /\ \E j \in 1..(i - 1) : tools[j].name = tools[i].name)>>)])

\* The schema of the text format shares the budget with the tools' schemas.
decodeText(in) ==
    First(<<Fails("invalid_request", in.format = "unsupported"),
            Fails("request_too_large",
                  /\ in.format = "json_schema"
                  /\ in.formatBytes > MaxSchemaBytes - SchemaBytes(in.tools))>>)

validateToolChoice(in) ==
    Fails("invalid_request",
          /\ in.choice \notin {"auto", "none", "required"}
          /\ \A i \in 1..Len(in.tools) :
                ~(in.tools[i].type = "function" /\ in.tools[i].name = in.choice))

\* decodeRequestWire: the fields in the order the code looks at them.
Decode(in) ==
    First(<<Fails("unsupported_field", in.field # "known"),
            decodeInputItems(in.items),
            decodeTools(in.tools),
            decodeText(in),
            Fails("unsupported_field", ~in.stream),
            Fails("unsupported_field", in.store),
            validateToolChoice(in)>>)

-----------------------------------------------------------------------------
(* Before the lease.                                                       *)

\* No function may pose as an adapter-owned one; the only custom tool is
\* apply_patch, declared at most once.
validateToolNameCollisions(tools) ==
    Fails("invalid_request",
          \/ \E i \in 1..Len(tools) :
                /\ tools[i].type = "function"
                /\ tools[i].name \in {ApplyPatchToolName, ApplyPatchUpstreamName}
          \/ \E i \in 1..Len(Customs(tools)) : Customs(tools)[i].name # ApplyPatchToolName
          \/ Len(Customs(tools)) > 1)

\* A call and a result of the same call_id must agree on the kind, whichever comes
\* first; a call or a result that comes twice is refused.
ToolResultError(items, i) ==
    LET item == items[i]
        Before(type) == {j \in 1..(i - 1) : items[j].type = type /\ items[j].id = item.id}
        Clash(type) == \E j \in Before(type) : items[j].kind # item.kind
    IN CASE item.type = "call" ->
              First(<<Fails("invalid_request", Before("call") # {}),
                      Fails("continuation_kind_mismatch", Clash("output"))>>)
         [] item.type = "output" ->
              First(<<Fails("continuation_kind_mismatch", Clash("call")),
                      Fails("continuation_duplicate", Before("output") # {})>>)
         [] OTHER -> ""

TranslateToolResults(items) ==
    First([i \in 1..Len(items) |-> ToolResultError(items, i)])

Results(items) ==
    [i \in 1..Len(Outputs(items)) |->
       [id |-> Outputs(items)[i].id, kind |-> Outputs(items)[i].kind]]

\* The error of recordForCallLocked.
CallError(s, c) ==
    IF RecordForCall(s, c) # NoRecord THEN ""
    ELSE IF s.expiredCallIDs[c] # NoTime THEN "continuation_expired"
    ELSE "continuation_unknown"

\* Fault: the status is looked at before the other results are.
BeginErrorEager(s, results) ==
    LET r == RecordForCall(s, results[1].id)
    IN First(<<CallError(s, results[1].id),
               Fails("continuation_busy", r # NoRecord /\ s.heap[r].status # "pending"),
               "continuation_mixed">>)

\* Why Begin refuses results that it cannot reserve, s being the store after its
\* cleanup: the results are looked up in turn, then the turn they share.
BeginError(s, results) ==
    LET r == RecordForCall(s, results[1].id)
        looked == First([i \in 1..Len(results) |->
                     First(<<CallError(s, results[i].id),
                             Fails("continuation_mixed",
                                   RecordForCall(s, results[i].id) # r)>>)])
    IN IF looked # "" THEN looked
       ELSE First(<<Fails("continuation_busy", s.heap[r].status = "consuming"),
                    Fails("continuation_consumed", s.heap[r].status = "consumed"),
                    Fails("continuation_incomplete",
                          Len(results) # Len(s.heap[r].turn.calls)),
                    "continuation_kind_mismatch">>)

-----------------------------------------------------------------------------
(* After the lease: the handler's checks and the provider's mapping.       *)

\* Every function, and the wrapper for apply_patch that every request carries,
\* takes a slot and its schema's bytes.  Deferred tools are not sent.
ValidateProviderToolBudget(tools) ==
    Fails("request_too_large",
          \/ Len(FunctionTools(tools)) + 1 > MaxTools
          \/ SchemaBytes(tools) + WrapperBytes > MaxSchemaBytes)

\* Calls and results belong to a continuation; structured output and forced tool
\* choices are not supported.
validateResponsesRequest(in, continuation) ==
    First(<<Fails("continuation_unknown", in.previous /\ ~continuation),
            ValidateProviderToolBudget(in.tools),
            Fails("not_implemented",
                  /\ ~continuation
                  /\ \E i \in 1..Len(in.items) : in.items[i].type \in {"call", "output"}),
            Fails("invalid_request", in.choice \notin {"auto", "none"}),
            Fails("not_implemented", in.format # "text")>>)

\* The tag alone selects the backend.
resolveUpstream(in) == Fails("invalid_request", in.model \notin DOMAIN Backends)

\* The Chat Completions message of a role; the provider has no developer role.
mapRole(role) == IF role = "developer" THEN "system" ELSE role

Message(role, calls, id) == [role |-> role, calls |-> calls, id |-> id]

Plain(role) == Message(role, << >>, NoCall)

\* A tool call as the provider knows it.
ProviderCallID(c) == <<"provider", c>>

\* continuationMessages: the assistant turn with all its calls in order, then one
\* tool message per result in the order of the request.
continuationMessages(turn, results) ==
    <<Message("assistant",
              [i \in 1..Len(turn.calls) |-> ProviderCallID(turn.calls[i].id)], NoCall)>> \o
    [i \in 1..Len(results) |-> Message("tool", << >>, ProviderCallID(results[i].id))]

\* A call item must be the retained call, a result item one of its results, and
\* either may come once.
validateContinuationItem(item, turn, seenCalls, seenResults) ==
    /\ \E i \in 1..Len(turn.calls) : turn.calls[i] = [id |-> item.id, kind |-> item.kind]
    /\ item.type = "call" => item.same /\ item.id \notin seenCalls
    /\ item.type = "output" => item.id \notin seenResults

\* Fault: a result that follows a call is replayed again.
ReplayStepAgain(turn, results, pass, item) ==
    IF item.type = "message"
    THEN [pass EXCEPT !.messages = Append(@, Plain(mapRole(item.role)))]
    ELSE IF ~validateContinuationItem(item, turn, pass.seenCalls, pass.seenResults)
    THEN [pass EXCEPT !.err = TRUE]
    ELSE [pass EXCEPT
            !.messages = IF pass.replayed /\ item.type = "call" THEN @
                         ELSE @ \o continuationMessages(turn, results),
            !.replayed = TRUE,
            !.seenCalls = IF item.type = "call" THEN @ \cup {item.id} ELSE @,
            !.seenResults = IF item.type = "output" THEN @ \cup {item.id} ELSE @]

\* One item of the pass.  The whole turn goes where its first item stands.
ReplayStep(turn, results, pass, item) ==
    IF item.type = "message"
    THEN [pass EXCEPT !.messages = Append(@, Plain(mapRole(item.role)))]
    ELSE IF ~validateContinuationItem(item, turn, pass.seenCalls, pass.seenResults)
    THEN [pass EXCEPT !.err = TRUE]
    ELSE [pass EXCEPT
            !.messages = IF pass.replayed THEN @ ELSE @ \o continuationMessages(turn, results),
            !.replayed = TRUE,
            !.seenCalls = IF item.type = "call" THEN @ \cup {item.id} ELSE @,
            !.seenResults = IF item.type = "output" THEN @ \cup {item.id} ELSE @]

NoPass == [messages |-> << >>, replayed |-> FALSE, err |-> FALSE,
           seenCalls |-> {}, seenResults |-> {}]

\* Fault: a client may repeat some of the calls and leave out others.
IncompletePassPartial(pass, turn) ==
    \/ ~pass.replayed
    \/ Cardinality(pass.seenResults) # Len(turn.calls)

\* The check after the loop: all results, and none or all of the calls.
IncompletePass(pass, turn) ==
    \/ ~pass.replayed
    \/ pass.seenCalls # {} /\ Cardinality(pass.seenCalls) # Len(turn.calls)
    \/ Cardinality(pass.seenResults) # Len(turn.calls)

\* mapContinuationInputItems, with the messages it returns; << >> is an error.
mapContinuationInputItems(items, turn, model) ==
    LET results == Results(items)
        pass == FoldLeft(LAMBDA p, item : ReplayStep(turn, results, p, item), NoPass, items)
    IN IF ModelOf[turn] # model \/ Len(results) # Len(turn.calls)
          \/ pass.err \/ IncompletePass(pass, turn)
       THEN << >> ELSE pass.messages

\* mapInputItems: contiguous calls form one assistant message.  (Without a lease
\* the handler has refused calls and results already.)
mapInputItems(items) ==
    LET Step(messages, i) ==
          CASE items[i].type = "message" -> Append(messages, Plain(mapRole(items[i].role)))
            [] items[i].type = "output" ->
                 Append(messages, Message("tool", << >>, items[i].id))
            [] items[i].type = "call" /\ i > 1 /\ items[i - 1].type = "call" ->
                 [messages EXCEPT ![Len(messages)].calls = Append(@, items[i].id)]
            [] OTHER -> Append(messages, Message("assistant", <<items[i].id>>, NoCall))
    IN FoldLeft(Step, << >>, [i \in 1..Len(items) |-> i])

\* The declarations sent: functions in order, then the wrapper.
mapTools(tools) ==
    [i \in 1..Len(FunctionTools(tools)) |-> FunctionTools(tools)[i].name] \o
    <<ApplyPatchUpstreamName>>

\* MapRequestWithThinking: what is sent, or the error in its place.
MapRequest(in, turn) ==
    LET model == Backends[in.model]
        mapped == IF turn = NoTurn THEN mapInputItems(in.items)
                  ELSE mapContinuationInputItems(in.items, turn, model)
        messages == (IF in.instructions THEN <<Plain("system")>> ELSE << >>) \o mapped
    IN [err |-> First(<<
          Fails("invalid_request", ThinkingMode = "disabled" /\ in.effort # ""),
          ValidateProviderToolBudget(in.tools),
          Fails("invalid_request", turn # NoTurn /\ mapped = << >>),
          Fails("invalid_request", messages = << >>),
          Fails("invalid_request",
                \E i \in 1..Len(in.tools) : in.tools[i].type = "function"
                                            /\ ~validFunctionName(in.tools[i].name)),
          Fails("invalid_request", in.effort = "odd")>>),
        model |-> model,
        messages |-> messages,
        tools |-> mapTools(in.tools)]

-----------------------------------------------------------------------------
(* The handler's steps that matter here.                                   *)

Blank == [pc |-> "idle", in |-> CHOOSE in \in UNION {Inputs[q] : q \in Requests} : TRUE,
          turn |-> NoTurn, answer |-> "", wire |-> << >>]

Answer(q, in, code) ==
    reqs' = [reqs EXCEPT ![q] = [Blank EXCEPT !.in = in, !.answer = code]]

\* Decoder, registry and TranslateToolResults.
Screen(in) ==
    First(<<Decode(in), validateToolNameCollisions(in.tools), TranslateToolResults(in.items)>>)

\* validateResponsesRequest, resolveUpstream and BuildRequest.
Build(in, turn) ==
    LET checked == First(<<validateResponsesRequest(in, turn # NoTurn), resolveUpstream(in)>>)
    IN IF checked # "" THEN [err |-> checked] ELSE MapRequest(in, turn)

Send(q, in, turn, wire) ==
    reqs' = [reqs EXCEPT ![q] = [Blank EXCEPT !.pc = "sent", !.in = in, !.turn = turn,
                                              !.wire = wire]]

\* A request that is refused before the store is asked.
Reject(q, in) ==
    /\ reqs[q].pc = "idle"
    /\ Screen(in) # ""
    /\ Answer(q, in, Screen(in))
    /\ UNCHANGED <<store, leases, clock>>

\* A request without results has no lease and does not meet the store.
SubmitPlain(q, in) ==
    LET wire == Build(in, NoTurn)
    IN /\ reqs[q].pc = "idle"
       /\ Results(in.items) = << >>
       /\ Screen(in) = ""
       /\ IF wire.err = "" THEN Send(q, in, NoTurn, wire) ELSE Answer(q, in, wire.err)
       /\ UNCHANGED <<store, leases, clock>>

\* A request with results: Begin reserves the turn, and the lease keeps a copy of it.
SubmitResults(q, in) ==
    LET results == Results(in.items)
    IN /\ reqs[q].pc = "idle"
       /\ results # << >>
       /\ Screen(in) = ""
       /\ \/ /\ Begin(q, results)
             /\ IF leases'[q] # NoRecord
                THEN reqs' = [reqs EXCEPT ![q] =
                                [Blank EXCEPT !.pc = "leased", !.in = in,
                                              !.turn = store'.heap[leases'[q]].turn]]
                ELSE Answer(q, in, BeginError(store', results))
          \/ /\ store.closed
             /\ Answer(q, in, "continuation_closed")
             /\ UNCHANGED <<store, leases, clock>>

\* The deferred Abort, if there is a lease.
Release(q) ==
    IF leases[q] # NoRecord THEN Abort(q) ELSE UNCHANGED <<store, leases, clock>>

\* The request goes out on the lease's copy, or an error gives the lease back.
Forward(q) ==
    LET wire == Build(reqs[q].in, reqs[q].turn)
    IN /\ reqs[q].pc = "leased"
       /\ IF wire.err = ""
          THEN /\ Send(q, reqs[q].in, reqs[q].turn, wire)
               /\ UNCHANGED <<store, leases, clock>>
          ELSE Answer(q, reqs[q].in, wire.err) /\ Release(q)

\* The provider starts its response: the continuation is accepted.  What the rest of
\* the stream does no longer concerns the turn.
Accepted(q) ==
    /\ reqs[q].pc = "sent"
    /\ IF leases[q] # NoRecord THEN CommitContext(q) ELSE UNCHANGED <<store, leases, clock>>
    /\ Answer(q, reqs[q].in, "stream")

\* The upstream call fails, or the client leaves, before the response starts.
Failed(q) ==
    /\ reqs[q].pc = "sent"
    /\ Release(q)
    /\ Answer(q, reqs[q].in, "upstream_error")

-----------------------------------------------------------------------------

MappingInit == Init /\ reqs = [q \in Requests |-> Blank]

MappingNext ==
    \/ \E q \in Requests : \E in \in Inputs[q] : Reject(q, in)
    \/ \E q \in Requests : \E in \in Inputs[q] : SubmitPlain(q, in)
    \/ \E q \in Requests : \E in \in Inputs[q] : SubmitResults(q, in)
    \/ \E q \in Requests : Forward(q)
    \/ \E q \in Requests : Accepted(q)
    \/ \E q \in Requests : Failed(q)
    \/ (\E t \in Turns : SaveContext(t, FALSE)) /\ UNCHANGED reqs
    \/ (CleanupTick \/ Close \/ Tick) /\ UNCHANGED reqs

MappingSpec == MappingInit /\ [][MappingNext]_mappingVars

-----------------------------------------------------------------------------
(* Properties.                                                             *)

\* The order of the messages of a request, as the client gave it.
Roles(in) ==
    (IF in.instructions THEN <<"system">> ELSE << >>) \o
    [i \in 1..Len(Messages(in.items)) |-> mapRole(Messages(in.items)[i].role)]

\* The conversation a provider may see: tool messages stand only directly after the
\* assistant message whose calls they answer, one for each call of it.
WellFormed(messages) ==
    /\ \A i \in 1..Len(messages) : messages[i].calls # << >> =>
          /\ i + Len(messages[i].calls) =< Len(messages)
          /\ ToSet(messages[i].calls) =
                {messages[i + k].id : k \in 1..Len(messages[i].calls)}
    /\ \A i \in 1..Len(messages) : messages[i].role = "tool" =>
          \E j \in 1..(i - 1) : i =< j + Len(messages[j].calls)

\* The step in which a request goes to the provider.
Sends(q) == reqs[q].pc # "sent" /\ reqs'[q].pc = "sent"

\* Whatever the order of the input items, a continuation is sent as the
\* retained turn itself, replayed once with the provider's own call IDs and one
\* result for each call, to the model that produced it, between the client's other
\* messages in their order; a request without a lease carries no tool traffic.
ReplayExact ==
    [][\A q \in Requests : Sends(q) =>
       LET wire == reqs'[q].wire
           turn == reqs'[q].turn
           own == SelectSeq(wire.messages, LAMBDA m : m.role # "tool" /\ m.calls = << >>)
           replayed == SelectSeq(wire.messages, LAMBDA m : m.calls # << >>)
       IN /\ WellFormed(wire.messages)
          /\ [i \in 1..Len(own) |-> own[i].role] = Roles(reqs'[q].in)
          /\ IF turn = NoTurn THEN replayed = << >>
             ELSE /\ Len(replayed) = 1
                  /\ replayed[1].calls =
                        [i \in 1..Len(turn.calls) |-> ProviderCallID(turn.calls[i].id)]
                  /\ wire.model = ModelOf[turn]]_mappingVars

\* What the documentation promises to accept (docs/opencodego-contract.md,
\* "Tool-result continuation state"), without regard to the order of the items:
\* every result of the turn once, none or all of its calls, unaltered.
Answers(items, turn) ==
    LET calls == ToSet(turn.calls)
        Is(i) == [id |-> items[i].id, kind |-> items[i].kind]
        At(type) == {i \in 1..Len(items) : items[i].type = type}
    IN /\ Cardinality(At("output")) = Len(turn.calls)
       /\ {Is(i) : i \in At("output")} = calls
       /\ \/ At("call") = {}
          \/ /\ Cardinality(At("call")) = Len(turn.calls)
             /\ {Is(i) : i \in At("call")} = calls
             /\ \A i \in At("call") : items[i].same

\* The declarations fit: distinct valid names, none of them the adapter's, and room
\* for the wrapper.
Declarable(tools) ==
    LET f == FunctionTools(tools)
    IN /\ \A i \in 1..Len(tools) : tools[i].type # "unsupported"
       /\ \A i, j \in 1..Len(tools) :
             tools[i].name # "" /\ tools[i].name = tools[j].name => i = j
       /\ \A i \in 1..Len(f) :
             f[i].name \notin {"not a name", ApplyPatchToolName, ApplyPatchUpstreamName}
       /\ \A i \in 1..Len(Customs(tools)) : Customs(tools)[i].name = ApplyPatchToolName
       /\ Len(tools) =< MaxTools
       /\ Len(f) + 1 =< MaxTools
       /\ SchemaBytes(tools) + WrapperBytes =< MaxSchemaBytes

Acceptable(in, turn) ==
    /\ in.field = "known" /\ in.stream /\ ~in.store
    /\ in.choice \in {"auto", "none"} /\ in.format = "text"
    /\ in.effort \in (IF ThinkingMode = "disabled" THEN {""} ELSE {"", "high"})
    /\ in.model \in DOMAIN Backends
    /\ Len(in.items) =< MaxInputItems
    /\ \A i \in 1..Len(in.items) : in.items[i].type # "unsupported"
    /\ Declarable(in.tools)
    /\ IF turn = NoTurn
       THEN /\ ~in.previous
            /\ \A i \in 1..Len(in.items) : in.items[i].type = "message"
            /\ in.instructions \/ in.items # << >>
       ELSE Answers(in.items, turn) /\ ModelOf[turn] = Backends[in.model]

\* Decoder, registry, store, handler and mapping, each with its own checks,
\* refuse together exactly what the reference definition excludes: nothing that is
\* acceptable is refused by one of them, nothing else gets past all of them.
AcceptanceExact ==
    [][\A q \in Requests : reqs'[q] # reqs[q] =>
         LET in == reqs'[q].in
         IN /\ reqs'[q].pc = "sent" => Acceptable(in, reqs'[q].turn)
            /\ reqs[q].pc = "leased" /\ reqs'[q].pc = "idle" => ~Acceptable(in, reqs[q].turn)
            /\ reqs[q].pc = "idle" /\ reqs'[q].pc = "idle" =>
                  /\ ~Acceptable(in, NoTurn)
                  /\ \A r \in Live(store') : store'.heap[r].status = "pending" =>
                        ~Acceptable(in, store'.heap[r].turn)]_mappingVars

\* The code a continuation is refused with tells the client what is true of
\* the turns it named: busy only while another request holds the turn, consumed only
\* after a commit, expired and unknown only when no turn can be had for a call, and
\* incomplete only when results are really missing.
AnswerTruthful ==
    [][\A q \in Requests :
         reqs[q].pc = "idle" /\ reqs'[q].pc = "idle" /\ reqs'[q] # reqs[q] =>
           LET ids == {Results(reqs'[q].in.items)[i].id : i \in 1..Len(Results(reqs'[q].in.items))}
               code == reqs'[q].answer
               named == {r \in Live(store') : IdsOf(store', r) \cap ids # {}}
           IN /\ code = "continuation_busy" =>
                    \E p \in Requests \ {q} : leases[p] # NoRecord /\ named = {leases[p]}
              /\ code = "continuation_consumed" =>
                    \E r \in named : named = {r} /\ store.heap[r].status = "consumed"
              /\ code \in {"continuation_expired", "continuation_unknown"} /\ ids # {} =>
                    \E c \in ids : \A r \in Live(store') : c \notin IdsOf(store', r)
              /\ code = "continuation_mixed" => Cardinality(named) > 1
              /\ code = "continuation_incomplete" =>
                    \E r \in named : named = {r} /\ ids # IdsOf(store', r)]_mappingVars
=============================================================================
