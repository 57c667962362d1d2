----------------------------- MODULE StreamSession -----------------------------
(***************************************************************************)
(* codex.StreamSession (internal/codex/stream.go): the state machine that  *)
(* turns bridge events into the Responses event stream of one HTTP reply.  *)
(*                                                                         *)
(* Every call runs under session.mu and may write several events; any of   *)
(* the writes may be the one that fails, after which the session is dead.  *)
(* A call is therefore a function from a session to the set of sessions it *)
(* may leave behind, each carrying the call's error.  Event payloads are   *)
(* reduced to their sizes and the validity of their strings; the events    *)
(* written are kept in order, because their order is the contract.         *)
(***************************************************************************)
EXTENDS Integers, Sequences, SequencesExt

CONSTANTS
    TextKeys, ToolKeys,   \* choice indexes, and (choice, tool) indexes
    NoKey,
    Sizes,                \* lengths of the deltas offered
    ItemCost,             \* len(itemID) + streamStateOverhead
    MetaCost,             \* len(callID) + len(name) of the events offered
    MaxAggregateBytes, MaxToolCallArgumentBytes, MaxOutputBytes,
    MaxTextBytes, MaxReasoningBytes

Keys == TextKeys \cup ToolKeys

ASSUME SessionAssumption ==
    /\ TextKeys \cap ToolKeys = {}
    /\ NoKey \notin Keys
    /\ Sizes \subseteq Nat
    /\ ItemCost \in Nat \ {0} /\ MetaCost \in Nat \ {0}
    /\ MaxAggregateBytes \in Nat /\ MaxToolCallArgumentBytes \in Nat
    /\ MaxOutputBytes \in Nat /\ MaxTextBytes \in Nat /\ MaxReasoningBytes \in Nat

VARIABLE session

Item == [key : Keys, named : BOOLEAN, bytes : Nat, contentDone : BOOLEAN, itemDone : BOOLEAN]

TerminalTypes == {"completed", "incomplete", "failed"}

WireTypes == {"created", "in_progress", "item.added", "part.added", "delta", "content.done",
              "part.done", "item.done"} \cup TerminalTypes

Errors == {"nil", "write", "limit", "transition", "terminal"}

Session ==
    [started : BOOLEAN, TerminalEmitted : BOOLEAN, writeFailure : BOOLEAN,
     itemOrder : Seq(Item),
     aggregateBytes : 0..MaxAggregateBytes, outputBytes : 0..MaxOutputBytes,
     textBytes : 0..MaxTextBytes, reasoningBytes : 0..MaxReasoningBytes,
     wire : Seq([type : WireTypes, key : Keys \cup {NoKey}]),
     err : Errors]                    \* what the last call returned

\* Every counter stays within its configured limit.
SessionTypeOK == session \in Session

\* A bridge event: valid covers the encodings and the bounded strings, sameID that a
\* repeated call ID is the item's own, named that it carries a tool name, meta the
\* length of both, bytes that of a delta or of the arguments.
Event == [kind : {"ResponseStarted", "TextDelta", "ToolCallStarted", "ToolCallMetadataDelta",
                  "ToolCallArgumentsDelta", "ToolCallCompleted", "ReasoningDelta",
                  "UsageUpdated", "Completed", "Incomplete", "Failed"},
          key : Keys \cup {NoKey}, bytes : Nat, meta : Nat,
          valid : BOOLEAN, sameID : BOOLEAN, named : BOOLEAN]

-----------------------------------------------------------------------------
(* Sequencing: a call goes on only while it has no error.                  *)

Then(S, F(_)) == UNION {IF s.err = "nil" THEN F(s) ELSE {s} : s \in S}

Error(s, err) == {[s EXCEPT !.err = err]}

\* writeEventLocked: the event is on the wire, or the session is broken for good.
Emit(s, type, key) ==
    {[s EXCEPT !.wire = Append(@, [type |-> type, key |-> key])],
     [s EXCEPT !.writeFailure = TRUE, !.err = "write"]}

startLocked(s) ==
    Then(Emit([s EXCEPT !.started = TRUE], "created", NoKey),
         LAMBDA x : Emit(x, "in_progress", NoKey))

ensureStartedLocked(s) == IF s.started THEN {s} ELSE startLocked(s)

\* TerminalEmitted is set before the terminal event is written.
writeTerminalLocked(s, type) == Emit([s EXCEPT !.TerminalEmitted = TRUE], type, NoKey)

invalidTransitionLocked(s) ==
    Then(ensureStartedLocked(s),
         LAMBDA x : Then(writeTerminalLocked(x, "failed"), LAMBDA y : Error(y, "transition")))

-----------------------------------------------------------------------------
(* Finishing items.                                                        *)

Has(s, k) == \E i \in 1..Len(s.itemOrder) : s.itemOrder[i].key = k

At(s, k) == CHOOSE i \in 1..Len(s.itemOrder) : s.itemOrder[i].key = k

ItemOf(s, k) == s.itemOrder[At(s, k)]

finishTextItemLocked(s, i) ==
    LET k == s.itemOrder[i].key
    IN Then(Emit(s, "content.done", k),
            LAMBDA x : Then(Emit([x EXCEPT !.itemOrder[i].contentDone = TRUE], "part.done", k),
            LAMBDA y : Emit([y EXCEPT !.itemOrder[i].itemDone = TRUE], "item.done", k)))

finishToolItemLocked(s, i) ==
    LET k == s.itemOrder[i].key
    IN Then(Emit(s, "content.done", k),
            LAMBDA x : Emit([x EXCEPT !.itemOrder[i].itemDone = TRUE], "item.done", k))

\* Fault: an item that is done is finished again.
finishItemAgain(s, i, requireIdentity) ==
    IF s.itemOrder[i].key \in TextKeys THEN finishTextItemLocked(s, i)
    ELSE finishToolItemLocked(s, i)

finishItemLocked(s, i, requireIdentity) ==
    LET item == s.itemOrder[i]
    IN IF item.itemDone THEN {s}
       ELSE IF item.key \in TextKeys THEN finishTextItemLocked(s, i)
       ELSE IF requireIdentity /\ ~item.named THEN invalidTransitionLocked(s)
       ELSE finishToolItemLocked(s, i)

\* Fault: only the newest item is finished.
finishNewestLocked(s, requireIdentity) ==
    IF s.itemOrder = << >> THEN {s}
    ELSE finishItemLocked(s, Len(s.itemOrder), requireIdentity)

\* Every unfinished item, in output order.
finishItemsLocked(s, requireIdentity) ==
    LET upTo[n \in 0..Len(s.itemOrder)] ==
          IF n = 0 THEN {s}
          ELSE Then(upTo[n - 1], LAMBDA x : finishItemLocked(x, n, requireIdentity))
    IN upTo[Len(s.itemOrder)]

-----------------------------------------------------------------------------
(* Limits and items.                                                       *)

\* The stream fails, but in order: items first.
limitLocked(s) ==
    Then(ensureStartedLocked(s),
         LAMBDA x : Then(finishItemsLocked(x, FALSE),
         LAMBDA y : Then(writeTerminalLocked(y, "failed"), LAMBDA z : Error(z, "limit"))))

\* reserveAggregateLocked's test, and its charge.
Fits(s, n) == s.aggregateBytes =< MaxAggregateBytes - n

Charge(s, n) == [s EXCEPT !.aggregateBytes = @ + n]

newItemLocked(s, k) ==
    IF ~Fits(s, ItemCost) THEN limitLocked(s)
    ELSE {[Charge(s, ItemCost) EXCEPT !.itemOrder =
             Append(@, [key |-> k, named |-> FALSE, bytes |-> 0,
                        contentDone |-> FALSE, itemDone |-> FALSE])]}

\* Fault: only the content part is announced.
newTextItemSilent(s, k) ==
    Then(newItemLocked(s, k), LAMBDA x : Emit(x, "part.added", k))

newTextItemLocked(s, k) ==
    Then(newItemLocked(s, k),
         LAMBDA x : Then(Emit(x, "item.added", k), LAMBDA y : Emit(y, "part.added", k)))

-----------------------------------------------------------------------------
(* The handlers of Handle.                                                 *)

responseStartedLocked(s, e) ==
    IF s.started THEN {s}
    ELSE IF ~e.valid THEN invalidTransitionLocked(s)
    ELSE startLocked(s)

\* The second half of textDeltaLocked.
appendText(s, k, n) ==
    IF n > MaxTextBytes - s.textBytes \/ n > MaxOutputBytes - s.outputBytes \/ ~Fits(s, n)
    THEN limitLocked(s)
    ELSE Emit([Charge(s, n) EXCEPT !.itemOrder[At(s, k)].bytes = @ + n,
                                   !.textBytes = @ + n, !.outputBytes = @ + n], "delta", k)

textDeltaLocked(s, e) ==
    Then(ensureStartedLocked(s),
         LAMBDA x : IF ~e.valid \/ (Has(x, e.key) /\ ItemOf(x, e.key).itemDone)
                    THEN invalidTransitionLocked(x)
                    ELSE IF e.bytes = 0 THEN {x}
                    ELSE IF Has(x, e.key) THEN appendText(x, e.key, e.bytes)
                    ELSE Then(newTextItemLocked(x, e.key),
                              LAMBDA y : appendText(y, e.key, e.bytes)))

toolCallStartedLocked(s, e) ==
    IF ~e.valid THEN invalidTransitionLocked(s)
    ELSE Then(ensureStartedLocked(s),
           LAMBDA x : IF Has(x, e.key) THEN invalidTransitionLocked(x)
                      ELSE Then(newItemLocked(x, e.key),
           LAMBDA y : IF ~Fits(y, e.meta) THEN limitLocked(y)
                      ELSE Emit([Charge(y, e.meta) EXCEPT
                                    !.itemOrder[At(y, e.key)].named = e.named],
                                "item.added", e.key)))

\* An item that metadata, arguments or a completion may still change.
Active(s, k) == Has(s, k) /\ ~ItemOf(s, k).itemDone

toolCallMetadataLocked(s, e) ==
    IF ~Active(s, e.key) \/ ~e.valid THEN invalidTransitionLocked(s)
    ELSE IF ~Fits(s, e.bytes) THEN limitLocked(s)
    ELSE IF ~e.sameID THEN invalidTransitionLocked(Charge(s, e.bytes))
    ELSE {[Charge(s, e.bytes) EXCEPT !.itemOrder[At(s, e.key)].named = @ \/ e.named]}

toolCallArgumentsLocked(s, e) ==
    IF ~Active(s, e.key) \/ ~e.valid THEN invalidTransitionLocked(s)
    ELSE IF e.bytes = 0 THEN {s}
    ELSE IF \/ e.bytes > MaxOutputBytes - s.outputBytes
            \/ e.bytes > MaxToolCallArgumentBytes - ItemOf(s, e.key).bytes
            \/ ~Fits(s, e.bytes)
    THEN limitLocked(s)
    ELSE Emit([Charge(s, e.bytes) EXCEPT !.itemOrder[At(s, e.key)].bytes = @ + e.bytes,
                                         !.outputBytes = @ + e.bytes], "delta", e.key)

\* Fault: the arguments a completion replaces are not given back.
toolCallCompletedTwice(s, e) ==
    IF ~Active(s, e.key) \/ ~e.valid \/ ~e.sameID THEN invalidTransitionLocked(s)
    ELSE IF \/ e.bytes > MaxToolCallArgumentBytes
            \/ e.bytes > MaxOutputBytes - s.outputBytes
            \/ ~Fits(s, e.meta + e.bytes)
    THEN limitLocked(s)
    ELSE finishToolItemLocked(
           [Charge(s, e.meta + e.bytes) EXCEPT !.itemOrder[At(s, e.key)].bytes = e.bytes,
                                                 !.outputBytes = @ + e.bytes], At(s, e.key))

\* A completion carries the whole arguments, which replace the retained ones.
toolCallCompletedLocked(s, e) ==
    IF ~Active(s, e.key) \/ ~e.valid THEN invalidTransitionLocked(s)
    ELSE LET i == At(s, e.key)
             held == s.itemOrder[i].bytes
         IN IF \/ e.bytes > MaxToolCallArgumentBytes
               \/ e.bytes > 0 /\ e.bytes > MaxOutputBytes - (s.outputBytes - held)
               \/ ~Fits(s, e.meta + e.bytes)
            THEN limitLocked(s)
            ELSE IF ~e.sameID THEN invalidTransitionLocked(Charge(s, e.meta + e.bytes))
            ELSE LET c == Charge(s, e.meta + e.bytes)
                     d == IF e.bytes = 0 THEN c
                          ELSE [c EXCEPT !.itemOrder[i].bytes = e.bytes,
                                         !.outputBytes = @ + e.bytes - held]
                     f == [d EXCEPT !.itemOrder[i].named = @ \/ e.named]
                 IN IF f.itemOrder[i].named THEN finishToolItemLocked(f, i)
                    ELSE invalidTransitionLocked(f)

reasoningDeltaLocked(s, e) ==
    IF ~e.valid THEN invalidTransitionLocked(s)
    ELSE Then(ensureStartedLocked(s),
           LAMBDA x : IF e.bytes > MaxReasoningBytes - x.reasoningBytes \/ ~Fits(x, e.bytes)
                      THEN limitLocked(x)
                      ELSE {[Charge(x, e.bytes) EXCEPT !.reasoningBytes = @ + e.bytes]})

\* completedLocked, incompleteLocked and failedLocked.
endLocked(s, type) ==
    Then(ensureStartedLocked(s),
         LAMBDA x : Then(finishItemsLocked(x, type = "completed"),
         LAMBDA y : writeTerminalLocked(y, type)))

Handled(s, e) ==
    CASE e.kind = "ResponseStarted" -> responseStartedLocked(s, e)
      [] e.kind = "TextDelta" -> textDeltaLocked(s, e)
      [] e.kind = "ToolCallStarted" -> toolCallStartedLocked(s, e)
      [] e.kind = "ToolCallMetadataDelta" -> toolCallMetadataLocked(s, e)
      [] e.kind = "ToolCallArgumentsDelta" -> toolCallArgumentsLocked(s, e)
      [] e.kind = "ToolCallCompleted" -> toolCallCompletedLocked(s, e)
      [] e.kind = "ReasoningDelta" -> reasoningDeltaLocked(s, e)
      [] e.kind = "UsageUpdated" -> ensureStartedLocked(s)
      [] e.kind = "Completed" -> endLocked(s, "completed")
      [] e.kind = "Incomplete" -> endLocked(s, "incomplete")
      [] e.kind = "Failed" -> endLocked(s, "failed")

-----------------------------------------------------------------------------
(* Calls.                                                                  *)

\* The tests every call starts with.
Refused(s) ==
    IF s.writeFailure THEN Error(s, "write") ELSE Error(s, "terminal")

Ended(s) == s.writeFailure \/ s.TerminalEmitted

NewStreamSession ==
    [started |-> FALSE, TerminalEmitted |-> FALSE, writeFailure |-> FALSE, itemOrder |-> << >>,
     aggregateBytes |-> 0, outputBytes |-> 0, textBytes |-> 0, reasoningBytes |-> 0,
     wire |-> << >>, err |-> "nil"]

Start ==
    LET s == [session EXCEPT !.err = "nil"]
    IN session' \in IF Ended(s) THEN Refused(s)
                    ELSE IF s.started THEN invalidTransitionLocked(s)
                    ELSE startLocked(s)

\* Fault: a session whose terminal event is out still takes events.
HandleAgain(e) ==
    LET s == [session EXCEPT !.err = "nil"]
    IN session' \in IF s.writeFailure THEN Refused(s) ELSE Handled(s, e)

Handle(e) ==
    LET s == [session EXCEPT !.err = "nil"]
    IN session' \in IF Ended(s) THEN Refused(s) ELSE Handled(s, e)

\* The events a caller may offer.  Events of a kind that names no item carry no key.
Plain(kinds) == [kind : kinds, key : {NoKey}, bytes : {0}, meta : {0}, valid : BOOLEAN,
                 sameID : {TRUE}, named : {TRUE}]

Sized(kind, ks, ids, names) ==
    [kind : {kind}, key : ks, bytes : Sizes, meta : {MetaCost}, valid : {TRUE},
     sameID : ids, named : names]

Garbled(kinds, ks) == [kind : kinds, key : ks, bytes : {1}, meta : {MetaCost}, valid : {FALSE},
                       sameID : {TRUE}, named : {TRUE}]

Offers ==
    Plain({"ResponseStarted", "UsageUpdated", "Completed", "Incomplete", "Failed"})
    \cup Sized("TextDelta", TextKeys, {TRUE}, {TRUE})
    \cup Sized("ToolCallStarted", ToolKeys, {TRUE}, BOOLEAN)
    \cup Sized("ToolCallMetadataDelta", ToolKeys, BOOLEAN, BOOLEAN)
    \cup Sized("ToolCallArgumentsDelta", ToolKeys, {TRUE}, {TRUE})
    \cup Sized("ToolCallCompleted", ToolKeys, BOOLEAN, BOOLEAN)
    \cup Sized("ReasoningDelta", {NoKey}, {TRUE}, {TRUE})
    \cup Garbled({"TextDelta"}, TextKeys)
    \cup Garbled({"ReasoningDelta"}, {NoKey})
    \cup Garbled({"ToolCallStarted", "ToolCallMetadataDelta", "ToolCallArgumentsDelta",
                  "ToolCallCompleted"}, ToolKeys)

SessionInit == session = NewStreamSession

SessionNext == Start \/ \E e \in Offers : Handle(e)

SessionSpec == SessionInit /\ [][SessionNext]_session

-----------------------------------------------------------------------------
(* Properties.                                                             *)

Wire == session.wire

\* The places of the events of item k.
EventsOf(k) == {i \in 1..Len(Wire) : Wire[i].key = k}

Positions(type) == {i \in 1..Len(Wire) : Wire[i].type = type}

\* docs/codex-streaming.md: "one response.created, one response.in_progress ... and
\* exactly one of" the terminal events; they come first, second and last, and a call
\* after the end or after a failed write adds nothing.
OneEnvelope ==
    /\ Positions("created") \subseteq {1}
    /\ Positions("in_progress") \subseteq {2}
    /\ \A i \in 1..Len(Wire) : Wire[i].type \in TerminalTypes => i = Len(Wire)
    /\ Wire # << >> => Wire[1].type = "created"
    /\ session.TerminalEmitted /\ ~session.writeFailure => Last(Wire).type \in TerminalTypes

\* An item ends once: after its item.done nothing of the item follows, its content is
\* closed before that, and closed once, and no delta comes after its content is closed.
ItemsCloseOnce ==
    \A k \in Keys : \A i, j \in EventsOf(k) :
       /\ Wire[i].type = "item.done" =>
             /\ j =< i
             /\ \E h \in EventsOf(k) : h < i /\ Wire[h].type = "content.done"
       /\ Wire[i].type = "content.done" /\ Wire[j].type \in {"delta", "content.done"} => j =< i

\* A response is reported completed, incomplete or over its limit only when every item
\* announced before is closed, and completed only if every tool call has its identity
\* (finishItemsLocked before every such terminal event).
TerminalClosesItems ==
    session.TerminalEmitted /\ ~session.writeFailure /\ session.err \in {"nil", "limit"} =>
       /\ \A i \in 1..Len(session.itemOrder) : session.itemOrder[i].itemDone
       /\ Last(Wire).type = "completed" =>
             \A i \in 1..Len(session.itemOrder) :
                session.itemOrder[i].key \in ToolKeys => session.itemOrder[i].named

\* What the items of these keys retain, in output order.
Retained(items, ks) ==
    [i \in 1..Len(items) |-> IF items[i].key \in ks THEN items[i].bytes ELSE 0]

SumBytes(ks) ==
    LET n == Retained(session.itemOrder, ks)
    IN MapThenSumSet(LAMBDA i : n[i], DOMAIN n)

\* The counters the limits are tested against never drift from what the session really
\* retains, also when a completion replaces the arguments sent so far; everything
\* retained has been charged to the aggregate budget; and no limit is passed.
BytesExact ==
    /\ session.textBytes =< MaxTextBytes /\ session.reasoningBytes =< MaxReasoningBytes
    /\ session.outputBytes =< MaxOutputBytes /\ session.aggregateBytes =< MaxAggregateBytes
    /\ \A i \in 1..Len(session.itemOrder) :
          session.itemOrder[i].key \in ToolKeys =>
             session.itemOrder[i].bytes =< MaxToolCallArgumentBytes
    /\ session.textBytes = SumBytes(TextKeys)
    /\ session.outputBytes = SumBytes(Keys)
    /\ session.aggregateBytes >= session.outputBytes + session.reasoningBytes
                                    + Len(session.itemOrder) * ItemCost

\* docs/codex-streaming.md: "ordered item/content events": an item's other events follow
\* its response.output_item.added.  The one item without an announcement is the newest
\* one, registered and then refused by a limit: it is closed without content on the way
\* to response.failed, and never in a response that is reported completed or incomplete.
AnnouncedUnlessLimit ==
    \A k \in Keys :
       \/ \A i \in EventsOf(k) : \E h \in EventsOf(k) : h =< i /\ Wire[h].type = "item.added"
       \/ /\ \A i \in EventsOf(k) : Wire[i].type \in {"content.done", "item.done"}
          /\ k = Last(session.itemOrder).key
          /\ Positions("completed") \cup Positions("incomplete") = {}
================================================================================
