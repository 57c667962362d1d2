----------------------------- MODULE GatewayStream -----------------------------
(***************************************************************************)
(* The event loop of handleResponses (internal/server/responses.go): every *)
(* event of the upstream decoder goes to the client's stream session, and  *)
(* the tool turn is retained before its completion is announced.           *)
(*                                                                         *)
(* Decoder and session were written against one vocabulary of events, each *)
(* with its own bookkeeping and its own tests of the same strings and the  *)
(* same limits.  Here the events of the one are the calls of the other.    *)
(* The races of the loop with its watcher are in ResponsesHandler.         *)
(***************************************************************************)
EXTENDS BridgeStreamDecoder

CONSTANTS
    Unprintable,       \* pieces of a call ID that hold control characters
    StreamValueBytes,  \* the longest string validStreamValue takes
    ItemCost           \* as in StreamSession

\* A call ID the decoder keeps is never too long for the session: 256 bytes both
\* (DefaultMaxProviderCallIDBytes, validStreamValue).
ASSUME GatewayAssumption ==
    /\ StreamValueBytes \in Nat /\ MaxProviderCallIDBytes =< StreamValueBytes
    /\ ItemCost \in Nat \ {0}
    /\ InboundName # << >>

VARIABLES
    session,           \* the client's StreamSession
    saved              \* the keys of the tool turn SaveContext has taken

gatewayVars == <<sse, decoder, out, lastLine, session, saved>>

\* Both get MaxAggregateBytes and the other limits from the same configuration.
S == INSTANCE StreamSession WITH
        TextKeys <- {<<c>> : c \in ChoiceIndexes}, ToolKeys <- Keys, NoKey <- << >>,
        Sizes <- {}, MetaCost <- 1

KindOf == [started |-> "ResponseStarted", text |-> "TextDelta", reasoning |-> "ReasoningDelta",
           usage |-> "UsageUpdated", tool_started |-> "ToolCallStarted",
           tool_arguments |-> "ToolCallArgumentsDelta", tool_completed |-> "ToolCallCompleted",
           completed |-> "Completed", incomplete |-> "Incomplete", failed |-> "Failed"]

\* validOptionalStreamValue.
validCallID(id) == Len(id) =< StreamValueBytes /\ ToSet(id) \cap Unprintable = {}

\* A decoder event as the session reads it.  The call ID must be the one the call was
\* announced under.
SessionEvent(e) ==
    LET tool == e.type \in ToolEvents
        name == IF tool THEN publicName(decoder.calls[e.key].name) ELSE << >>
    IN [kind |-> KindOf[e.type],
        key |-> IF tool \/ e.type = "text" THEN e.key ELSE << >>,
        bytes |-> e.bytes,
        meta |-> Len(e.callID) + Len(name),
        valid |-> validCallID(e.callID),
        sameID |-> \A i \in 1..Len(out) :
                      out[i].type = "tool_started" /\ out[i].key = e.key => out[i].callID = e.callID,
        named |-> name # << >>]

\* handleResponses returns after the terminal event and after any error.
Returned == session.TerminalEmitted \/ session.err # "nil"

Serving == session.started /\ ~Returned

StartSession ==
    /\ ~session.started
    /\ S!Start
    /\ UNCHANGED <<decoderVars, saved>>

\* A turn that cannot be retained ends the response.
SaveRefused == S!Handle(SessionEvent(Plain("failed"))) /\ UNCHANGED saved

\* Fault: the turn is not retained.
DeliverUnsaved(e) == S!Handle(SessionEvent(e)) /\ UNCHANGED saved

\* One event of the loop.
Deliver(e) ==
    IF e.type = "completed" /\ HasPendingTurn(decoder)
    THEN \/ saved' = DOMAIN decoder.calls /\ S!Handle(SessionEvent(e))
         \/ SaveRefused
    ELSE S!Handle(SessionEvent(e)) /\ UNCHANGED saved

\* Next reads on without an event, or returns one.
Step ==
    /\ Serving
    /\ DecoderNext
    /\ IF out' = out THEN UNCHANGED <<session, saved>> ELSE Deliver(Last(out'))

GatewayInit == DecoderInit /\ session = S!NewStreamSession /\ saved = {}

GatewayNext == StartSession \/ Step

GatewaySpec == GatewayInit /\ [][GatewayNext]_gatewayVars

-----------------------------------------------------------------------------
(* Properties.                                                             *)

\* Whatever the provider sends, the session takes every event the decoder derives
\* from it: no delta without its item, no item twice, no call ID that changes or is
\* too long.  The one exception is a call ID with control characters, which only the
\* session refuses.
EventsLegal ==
    session.err = "transition" =>
       \E key \in DOMAIN decoder.calls : ToSet(decoder.calls[key].callID) \cap Unprintable # {}

ClosedTools == {w.key : w \in {v \in ToSet(session.wire) : v.type = "item.done" /\ v.key \in Keys}}

\* The turn that the store retains is the turn the client saw: when SaveContext takes
\* it every call of it, and no other, has been announced and closed on the wire, and
\* nothing but a failed write keeps the completion from following.  A client that was
\* told of a completed response with tool calls can continue it.
SavedTurnSeen ==
    /\ saved # {} =>
          /\ ClosedTools = saved
          /\ session.writeFailure \/ Last(session.wire).type = "completed"
    /\ session.wire # << >> /\ Last(session.wire).type = "completed" => ClosedTools = saved
================================================================================
