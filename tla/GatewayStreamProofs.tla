------------------------- MODULE GatewayStreamProofs -------------------------
(***************************************************************************)
(* Proofs about GatewayStream: the stream session takes every event that   *)
(* the upstream decoder derives from the provider, and the tool turn that  *)
(* is retained is the one the client saw.                                  *)
(*                                                                         *)
(* Decoder and session keep books of their own.  The argument ties the     *)
(* session's items and the events on the wire to the events the decoder    *)
(* has returned (Tracks), and shows that the next event finds what it      *)
(* needs (Due).  From there each kind of event either keeps the two in     *)
(* step or ends the response (Over).                                       *)
(***************************************************************************)
EXTENDS GatewayStream, BridgeStreamDecoderProofs

-----------------------------------------------------------------------------
(* The session and the events returned so far.                             *)

\* A session, its counters left open.
ClientItem == [key : S!Keys, named : BOOLEAN, bytes : Int, contentDone : BOOLEAN, itemDone : BOOLEAN]

WireEvent == [type : S!WireTypes, key : S!Keys \cup {<< >>}]

Client ==
    [started : BOOLEAN, TerminalEmitted : BOOLEAN, writeFailure : BOOLEAN, itemOrder : Seq(ClientItem),
     aggregateBytes : Int, outputBytes : Int, textBytes : Int, reasoningBytes : Int,
     wire : Seq(WireEvent), err : S!Errors]

\* Call key has been announced, and completed, by the events o.
Started(o, key) == \E i \in 1..Len(o) : o[i].type = "tool_started" /\ o[i].key = key

Completed(o, key) == \E i \in 1..Len(o) : o[i].type = "tool_completed" /\ o[i].key = key

\* The item of a call is closed on the wire w.
Closed(w, key) == \E v \in ToSet(w) : v.type = "item.done" /\ v.key = key

\* The wire does not end with a completion.
NoEnd(w) == w # << >> => Last(w).type # "completed"

\* A session that takes events.
Open(s) ==
    /\ s \in Client /\ s.started = TRUE /\ s.err = "nil"
    /\ s.TerminalEmitted = FALSE /\ s.writeFailure = FALSE
    /\ NoEnd(s.wire)

\* Every call that was announced has its item, and this is done, and closed on the wire,
\* as soon as the call is completed.
Tracks(items, w, o) ==
    /\ \A i, j \in 1..Len(items) : items[i].key = items[j].key => i = j
    /\ \A i \in 1..Len(items) : items[i].key \in Keys =>
          /\ items[i].named = TRUE /\ Started(o, items[i].key)
          /\ items[i].itemDone = TRUE <=> Completed(o, items[i].key)
    /\ \A i \in 1..Len(items) : items[i].key \notin Keys => items[i].itemDone = FALSE
    /\ \A key \in Keys : Started(o, key) => \E i \in 1..Len(items) : items[i].key = key
    /\ \A key \in Keys : Closed(w, key) <=> Completed(o, key)

Follows(s, o) == Open(s) /\ Tracks(s.itemOrder, s.wire, o)

\* A response that has ended, and not as completed.
Over(t) == t.started = TRUE /\ NoEnd(t.wire) /\ (t.err # "nil" \/ t.TerminalEmitted = TRUE)

\* A response that has ended because a write failed.
Broken(t) == Over(t) /\ t.err = "write" /\ t.writeFailure = TRUE

\* The inductive invariant: nothing yet, in step, or ended as it should.
GatewayInv ==
    /\ DecoderInv
    /\ \/ session = S!NewStreamSession /\ out = << >> /\ saved = {}
       \/ Follows(session, out) /\ saved = {}
       \/ session.started = TRUE /\ Returned /\ EventsLegal /\ SavedTurnSeen

-----------------------------------------------------------------------------
(* Events on the wire.                                                     *)

\* The keys of the session: those of the calls, and the choices.
LEMMA SessionKeys ==
    /\ S!Keys = Keys \cup {<<c>> : c \in ChoiceIndexes}
    /\ \A c : <<c>> \notin Keys /\ << >> \notin Keys
    /\ << >> \in S!Keys \cup {<< >>}
    /\ \A key : key \in {<<c>> : c \in ChoiceIndexes} => key \notin Keys
<1>1. S!Keys = Keys \cup {<<c>> : c \in ChoiceIndexes}
  BY DEF S!Keys
<1>2. \A key, c : key \in Keys => key # <<c>>
  BY KeyNotChoice
<1>3. << >> \notin Keys
  <2>1. ASSUME << >> \in Keys
        PROVE  FALSE
    <3>1. << >> = << <<>>[1], <<>>[2] >>
      BY <2>1 DEF Keys
    <3>2. Len(<< <<>>[1], <<>>[2] >>) = 2 /\ Len(<< >>) = 0
      OBVIOUS
    <3>. QED
      BY <3>1, <3>2
  <2>. QED
    BY <2>1
<1>. QED
  BY <1>1, <1>2, <1>3

\* One more event on the wire.
LEMMA WireGrows ==
    ASSUME NEW w \in Seq(WireEvent), NEW e \in WireEvent
    PROVE  /\ Append(w, e) \in Seq(WireEvent) /\ Append(w, e) # << >> /\ Last(Append(w, e)) = e
           /\ NoEnd(w) /\ e.type # "completed" => NoEnd(Append(w, e))
           /\ \A key : Closed(Append(w, e), key) <=> Closed(w, key) \/ (e.type = "item.done" /\ e.key = key)
<1>. DEFINE v == Append(w, e)
            n == Len(w)
<1>1. /\ v \in Seq(WireEvent) /\ n \in Nat /\ Len(v) = n + 1 /\ v[n + 1] = e /\ v # << >>
      /\ \A i \in 1..n : v[i] = w[i]
  BY AppendProperties
<1>2. Last(v) = e
  BY <1>1 DEF Last
<1>3. ToSet(v) = ToSet(w) \cup {e}
  <2>1. DOMAIN v = 1..(n + 1) /\ DOMAIN w = 1..n
    BY <1>1
  <2>2. 1..(n + 1) = 1..n \cup {n + 1}
    BY <1>1
  <2>. HIDE DEF v, n
  <2>. QED
    BY <1>1, <2>1, <2>2 DEF ToSet
<1>. HIDE DEF v, n
<1>4. e.type # "completed" => NoEnd(v)
  BY <1>2 DEF NoEnd
<1>5. ASSUME NEW key
      PROVE  Closed(v, key) <=> Closed(w, key) \/ (e.type = "item.done" /\ e.key = key)
  BY <1>3 DEF Closed
<1>. QED
  BY <1>1, <1>2, <1>4, <1>5 DEF v

\* The fields of a session that takes events.
LEMMA ClientFields ==
    ASSUME NEW s \in Client
    PROVE  /\ s.itemOrder \in Seq(ClientItem) /\ s.wire \in Seq(WireEvent) /\ Len(s.itemOrder) \in Nat
           /\ s.aggregateBytes \in Int /\ s.outputBytes \in Int
           /\ s.textBytes \in Int /\ s.reasoningBytes \in Int
           /\ \A i \in 1..Len(s.itemOrder) :
                 /\ s.itemOrder[i] \in ClientItem
                 /\ s.itemOrder[i].key \in Keys \/ s.itemOrder[i].key \in {<<c>> : c \in ChoiceIndexes}
                 /\ s.itemOrder[i].key \in S!Keys
<1>1. /\ s.itemOrder \in Seq(ClientItem) /\ s.wire \in Seq(WireEvent)
      /\ s.aggregateBytes \in Int /\ s.outputBytes \in Int
      /\ s.textBytes \in Int /\ s.reasoningBytes \in Int
  BY DEF Client
<1>2. \A i \in 1..Len(s.itemOrder) : s.itemOrder[i] \in ClientItem
  BY <1>1
<1>3. \A i \in 1..Len(s.itemOrder) : s.itemOrder[i].key \in S!Keys
  BY <1>2 DEF ClientItem
<1>4. Len(s.itemOrder) \in Nat
  BY <1>1
<1>. QED
  BY <1>1, <1>2, <1>3, <1>4, SessionKeys

\* An event is written, or the response is broken.
LEMMA EmitOpen ==
    ASSUME NEW s, Open(s), NEW type \in S!WireTypes, type # "completed",
           NEW key \in S!Keys \cup {<< >>}, NEW t \in S!Emit(s, type, key)
    PROVE  \/ Broken(t) /\ t.wire = s.wire
           \/ /\ Open(t) /\ t.itemOrder = s.itemOrder
              /\ t.wire = Append(s.wire, [type |-> type, key |-> key])
              /\ t.aggregateBytes = s.aggregateBytes /\ t.outputBytes = s.outputBytes
              /\ t.textBytes = s.textBytes /\ t.reasoningBytes = s.reasoningBytes
<1>. DEFINE e == [type |-> type, key |-> key]
<1>1. e \in WireEvent /\ e.type = type
  BY DEF WireEvent
<1>. HIDE DEF e
<1>2. s \in Client /\ s.wire \in Seq(WireEvent)
  BY ClientFields DEF Open
<1>3. Append(s.wire, e) \in Seq(WireEvent) /\ NoEnd(Append(s.wire, e))
  BY <1>1, <1>2, WireGrows DEF Open
<1>4. \/ t = [s EXCEPT !.wire = Append(s.wire, e)]
      \/ t = [s EXCEPT !.writeFailure = TRUE, !.err = "write"]
  BY DEF S!Emit, e
<1>5. CASE t = [s EXCEPT !.wire = Append(s.wire, e)]
  <2>1. t \in Client
    BY <1>2, <1>3, <1>5 DEF Client
  <2>2. /\ t.itemOrder = s.itemOrder /\ t.wire = Append(s.wire, e) /\ t.started = s.started
        /\ t.err = s.err /\ t.TerminalEmitted = s.TerminalEmitted /\ t.writeFailure = s.writeFailure
        /\ t.aggregateBytes = s.aggregateBytes /\ t.outputBytes = s.outputBytes
        /\ t.textBytes = s.textBytes /\ t.reasoningBytes = s.reasoningBytes
    BY <1>2, <1>5 DEF Client
  <2>. QED
    BY <1>3, <2>1, <2>2 DEF Open, e
<1>6. CASE t = [s EXCEPT !.writeFailure = TRUE, !.err = "write"]
  <2>1. t.wire = s.wire /\ t.started = s.started /\ t.err = "write" /\ t.writeFailure = TRUE
    BY <1>2, <1>6 DEF Client
  <2>. QED
    BY <2>1 DEF Open, Broken, Over
<1>. QED
  BY <1>4, <1>5, <1>6

-----------------------------------------------------------------------------
(* Items.                                                                  *)

\* q is p with item i replaced.
ReplacedBy(q, p, i, item) ==
    /\ q \in Seq(ClientItem) /\ Len(q) = Len(p) /\ Len(p) \in Nat
    /\ q[i] = item
    /\ \A j \in 1..Len(p) : j # i => q[j] = p[j]

LEMMA ReplaceClientItem ==
    ASSUME NEW p \in Seq(ClientItem), NEW i \in 1..Len(p), NEW item \in ClientItem,
           NEW q, q = [p EXCEPT ![i] = item]
    PROVE  ReplacedBy(q, p, i, item)
BY DEF ReplacedBy

\* Another item i, and other counters.
PutItem(s, i, item, a, o, x) ==
    [s EXCEPT !.itemOrder = [s.itemOrder EXCEPT ![i] = item],
              !.aggregateBytes = a, !.outputBytes = o, !.textBytes = x]

LEMMA PutItemOpen ==
    ASSUME NEW s, Open(s), NEW i \in 1..Len(s.itemOrder), NEW item \in ClientItem,
           NEW a \in Int, NEW o \in Int, NEW x \in Int, NEW t, t = PutItem(s, i, item, a, o, x)
    PROVE  Open(t) /\ t.wire = s.wire /\ ReplacedBy(t.itemOrder, s.itemOrder, i, item)
<1>. DEFINE q == [s.itemOrder EXCEPT ![i] = item]
<1>1. s \in Client /\ s.itemOrder \in Seq(ClientItem)
  BY DEF Open, Client
<1>2. ReplacedBy(q, s.itemOrder, i, item)
  BY <1>1, ReplaceClientItem
<1>3. t = [s EXCEPT !.itemOrder = q, !.aggregateBytes = a, !.outputBytes = o, !.textBytes = x]
  BY DEF PutItem
<1>. HIDE DEF q
<1>4. q \in Seq(ClientItem)
  BY <1>2 DEF ReplacedBy
<1>5. t \in Client
  BY <1>1, <1>3, <1>4 DEF Client
<1>6. /\ t.itemOrder = q /\ t.wire = s.wire /\ t.started = s.started /\ t.err = s.err
      /\ t.TerminalEmitted = s.TerminalEmitted /\ t.writeFailure = s.writeFailure
  BY <1>1, <1>3 DEF Client
<1>. QED
  BY <1>2, <1>5, <1>6 DEF Open

\* A part of the item, or the whole of it, is marked as done.
LEMMA MarkOpen ==
    ASSUME NEW s, Open(s), NEW i \in 1..Len(s.itemOrder), NEW t,
           \/ t = [s EXCEPT !.itemOrder[i].contentDone = TRUE]
           \/ t = [s EXCEPT !.itemOrder[i].itemDone = TRUE]
    PROVE  /\ Open(t) /\ t.wire = s.wire
           /\ \E item \in ClientItem :
                 /\ ReplacedBy(t.itemOrder, s.itemOrder, i, item)
                 /\ item.key = s.itemOrder[i].key /\ item.named = s.itemOrder[i].named
                 /\ s.itemOrder[i].itemDone = TRUE => item.itemDone = TRUE
                 /\ t = [s EXCEPT !.itemOrder[i].itemDone = TRUE] => item.itemDone = TRUE
<1>. DEFINE old == s.itemOrder[i]
            content == [old EXCEPT !.contentDone = TRUE]
            done == [old EXCEPT !.itemDone = TRUE]
            P(item) == t = PutItem(s, i, item, s.aggregateBytes, s.outputBytes, s.textBytes)
<1>1. s \in Client
  BY DEF Open
<1>2. old \in ClientItem /\ s.aggregateBytes \in Int /\ s.outputBytes \in Int /\ s.textBytes \in Int
  BY <1>1, ClientFields
<1>3. /\ content \in ClientItem /\ content.key = old.key /\ content.named = old.named
      /\ content.itemDone = old.itemDone
  BY <1>2 DEF ClientItem
<1>4. /\ done \in ClientItem /\ done.key = old.key /\ done.named = old.named
      /\ done.itemDone = TRUE
  BY <1>2 DEF ClientItem
<1>5. t = [s EXCEPT !.itemOrder[i].contentDone = TRUE] => P(content)
  BY <1>1 DEF Client, PutItem
<1>6. t = [s EXCEPT !.itemOrder[i].itemDone = TRUE] => P(done)
  BY <1>1 DEF Client, PutItem
<1>. HIDE DEF content, done
<1>7. CASE t = [s EXCEPT !.itemOrder[i].itemDone = TRUE]
  <2>0. t = PutItem(s, i, done, s.aggregateBytes, s.outputBytes, s.textBytes)
    BY <1>6, <1>7
  <2>1. Open(t) /\ t.wire = s.wire /\ ReplacedBy(t.itemOrder, s.itemOrder, i, done)
    <3>. HIDE DEF P, old
    <3>1. done \in ClientItem
      BY <1>4
    <3>2. s.aggregateBytes \in Int /\ s.outputBytes \in Int /\ s.textBytes \in Int
      BY <1>2
    <3>. QED
      BY <2>0, <3>1, <3>2, PutItemOpen
  <2>. QED
    BY <1>4, <2>1
<1>8. CASE t = [s EXCEPT !.itemOrder[i].contentDone = TRUE] /\ t # [s EXCEPT !.itemOrder[i].itemDone = TRUE]
  <2>0. t = PutItem(s, i, content, s.aggregateBytes, s.outputBytes, s.textBytes)
    BY <1>5, <1>8
  <2>1. Open(t) /\ t.wire = s.wire /\ ReplacedBy(t.itemOrder, s.itemOrder, i, content)
    <3>. HIDE DEF P, old
    <3>1. content \in ClientItem
      BY <1>3
    <3>2. s.aggregateBytes \in Int /\ s.outputBytes \in Int /\ s.textBytes \in Int
      BY <1>2
    <3>. QED
      BY <2>0, <3>1, <3>2, PutItemOpen
  <2>. QED
    BY <1>3, <1>8, <2>1
<1>. QED
  BY <1>7, <1>8

\* Every call's item is done.
ToolsDone(items) == \A i \in 1..Len(items) : items[i].key \in Keys => items[i].itemDone = TRUE

\* The same calls are closed on both wires.
SameClosed(w, v) == \A key \in Keys : Closed(v, key) <=> Closed(w, key)

\* Wire events by their type.
LEMMA WireTypesAre ==
    /\ "created" \in S!WireTypes /\ "in_progress" \in S!WireTypes /\ "item.added" \in S!WireTypes
    /\ "part.added" \in S!WireTypes /\ "delta" \in S!WireTypes /\ "content.done" \in S!WireTypes
    /\ "part.done" \in S!WireTypes /\ "item.done" \in S!WireTypes
    /\ "completed" \in S!WireTypes /\ "incomplete" \in S!WireTypes /\ "failed" \in S!WireTypes
BY DEF S!WireTypes, S!TerminalTypes

\* Another event on the wire closes no call, unless it is the item.done of one.
LEMMA EmitCloses ==
    ASSUME NEW w \in Seq(WireEvent), NEW type \in S!WireTypes, NEW key \in S!Keys \cup {<< >>},
           NEW v, v = Append(w, [type |-> type, key |-> key])
    PROVE  /\ type # "item.done" \/ key \notin Keys => SameClosed(w, v)
           /\ type = "item.done" => \A k : Closed(v, k) <=> Closed(w, k) \/ k = key
<1>. DEFINE e == [type |-> type, key |-> key]
<1>1. e \in WireEvent /\ e.type = type /\ e.key = key
  BY DEF WireEvent
<1>. HIDE DEF e
<1>2. \A k : Closed(v, k) <=> Closed(w, k) \/ (e.type = "item.done" /\ e.key = k)
  BY <1>1, WireGrows DEF e
<1>. QED
  BY <1>1, <1>2 DEF SameClosed

\* Finishing the item of a call.
LEMMA FinishToolOpen ==
    ASSUME NEW s, Open(s), NEW i \in 1..Len(s.itemOrder), NEW t \in S!finishToolItemLocked(s, i)
    PROVE  \/ Broken(t)
           \/ /\ Open(t)
              /\ \E item \in ClientItem :
                    /\ ReplacedBy(t.itemOrder, s.itemOrder, i, item)
                    /\ item.key = s.itemOrder[i].key /\ item.named = s.itemOrder[i].named
                    /\ item.itemDone = TRUE
              /\ \A k \in Keys : Closed(t.wire, k) <=> Closed(s.wire, k) \/ k = s.itemOrder[i].key
<1>. DEFINE key == s.itemOrder[i].key
            Done(x) == [x EXCEPT !.itemOrder[i].itemDone = TRUE]
<1>1. key \in S!Keys \cup {<< >>}
  BY ClientFields DEF Open
<1>2. PICK x \in S!Emit(s, "content.done", key) :
         IF x.err = "nil" THEN t \in S!Emit(Done(x), "item.done", key) ELSE t = x
  BY DEF S!finishToolItemLocked, S!Then
<1>. HIDE DEF key, Done
<1>3. \/ Broken(x)
      \/ /\ Open(x) /\ x.itemOrder = s.itemOrder
         /\ x.wire = Append(s.wire, [type |-> "content.done", key |-> key])
  BY <1>1, <1>2, EmitOpen, WireTypesAre
<1>4. CASE Broken(x)
  BY <1>2, <1>4 DEF Broken
<1>5. CASE /\ Open(x) /\ x.itemOrder = s.itemOrder
           /\ x.wire = Append(s.wire, [type |-> "content.done", key |-> key])
  <2>1. t \in S!Emit(Done(x), "item.done", key)
    BY <1>2, <1>5 DEF Open
  <2>2. /\ Open(Done(x)) /\ Done(x).wire = x.wire
        /\ \E item \in ClientItem :
              /\ ReplacedBy(Done(x).itemOrder, x.itemOrder, i, item)
              /\ item.key = x.itemOrder[i].key /\ item.named = x.itemOrder[i].named
              /\ item.itemDone = TRUE
    BY <1>5, MarkOpen, ZenonT(60) DEF Done
  <2>3. \/ Broken(t)
        \/ /\ Open(t) /\ t.itemOrder = Done(x).itemOrder
           /\ t.wire = Append(x.wire, [type |-> "item.done", key |-> key])
    BY <1>1, <2>1, <2>2, EmitOpen, WireTypesAre
  <2>4. s.wire \in Seq(WireEvent) /\ x.wire \in Seq(WireEvent)
    BY <1>5, ClientFields DEF Open
  <2>5. SameClosed(s.wire, x.wire)
    <3>1. "content.done" # "item.done"
      OBVIOUS
    <3>. QED
      BY <1>1, <1>5, <2>4, <3>1, EmitCloses, WireTypesAre, Zenon
  <2>6. t.wire = Append(x.wire, [type |-> "item.done", key |-> key])
           => \A k : Closed(t.wire, k) <=> Closed(x.wire, k) \/ k = key
    <3>1. \A v : v = Append(x.wire, [type |-> "item.done", key |-> key])
                    => \A k : Closed(v, k) <=> Closed(x.wire, k) \/ k = key
      BY ONLY <1>1, <2>4, EmitCloses, WireTypesAre, ZenonT(60)
    <3>. QED
      BY ONLY <3>1
  <2>. QED
    BY <1>5, <2>2, <2>3, <2>5, <2>6 DEF SameClosed, key
<1>. QED
  BY <1>3, <1>4, <1>5

\* An item that is replaced keeps its key, and stays done.
LEMMA ReplacedTools ==
    ASSUME NEW q, NEW p, NEW i \in 1..Len(p), NEW item, ReplacedBy(q, p, i, item),
           item.key = p[i].key, p[i].itemDone = TRUE => item.itemDone = TRUE, ToolsDone(p)
    PROVE  ToolsDone(q)
BY DEF ReplacedBy, ToolsDone

\* A session that went on by writing what closes no call.
WentOn(s, t) ==
    /\ SameClosed(s.wire, t.wire)
    /\ \/ Broken(t)
       \/ /\ Open(t) /\ Len(t.itemOrder) = Len(s.itemOrder)
          /\ ToolsDone(s.itemOrder) => ToolsDone(t.itemOrder)

LEMMA WentOnFurther ==
    ASSUME NEW s, NEW x, WentOn(s, x), Open(x), NEW t, WentOn(x, t)
    PROVE  WentOn(s, t)
BY DEF WentOn, SameClosed, Open, Broken

\* Writing one event that closes no call.
LEMMA EmitGoesOn ==
    ASSUME NEW s, Open(s), NEW type \in S!WireTypes, type # "completed",
           NEW key \in S!Keys \cup {<< >>}, type # "item.done" \/ key \notin Keys,
           NEW t \in S!Emit(s, type, key)
    PROVE  WentOn(s, t) /\ (Broken(t) \/ (Open(t) /\ t.itemOrder = s.itemOrder))
<1>1. \/ Broken(t) /\ t.wire = s.wire
      \/ /\ Open(t) /\ t.itemOrder = s.itemOrder
         /\ t.wire = Append(s.wire, [type |-> type, key |-> key])
  BY EmitOpen
<1>2. s.wire \in Seq(WireEvent)
  BY ClientFields DEF Open
<1>3. t.wire = Append(s.wire, [type |-> type, key |-> key]) => SameClosed(s.wire, t.wire)
  BY <1>2, EmitCloses
<1>4. t.wire = s.wire => SameClosed(s.wire, t.wire)
  BY DEF SameClosed
<1>. QED
  BY <1>1, <1>3, <1>4 DEF WentOn

\* Marking an item.
LEMMA MarkGoesOn ==
    ASSUME NEW s, Open(s), NEW i \in 1..Len(s.itemOrder), NEW t,
           \/ t = [s EXCEPT !.itemOrder[i].contentDone = TRUE]
           \/ t = [s EXCEPT !.itemOrder[i].itemDone = TRUE]
    PROVE  WentOn(s, t) /\ Open(t)
<1>1. /\ Open(t) /\ t.wire = s.wire
      /\ \E item \in ClientItem :
            /\ ReplacedBy(t.itemOrder, s.itemOrder, i, item)
            /\ item.key = s.itemOrder[i].key
            /\ s.itemOrder[i].itemDone = TRUE => item.itemDone = TRUE
  BY MarkOpen
<1>2. ToolsDone(s.itemOrder) => ToolsDone(t.itemOrder)
  BY <1>1, ReplacedTools
<1>3. Len(t.itemOrder) = Len(s.itemOrder)
  BY <1>1 DEF ReplacedBy
<1>. QED
  BY <1>1, <1>2, <1>3 DEF WentOn, SameClosed

\* Finishing a text item.
LEMMA FinishTextOpen ==
    ASSUME NEW s, Open(s), NEW i \in 1..Len(s.itemOrder), s.itemOrder[i].key \notin Keys,
           NEW t \in S!finishTextItemLocked(s, i)
    PROVE  WentOn(s, t)
<1>. DEFINE key == s.itemOrder[i].key
            Content(x) == [x EXCEPT !.itemOrder[i].contentDone = TRUE]
            Done(x) == [x EXCEPT !.itemOrder[i].itemDone = TRUE]
            Rest(x) == S!Then(S!Emit(Content(x), "part.done", key),
                              LAMBDA y : S!Emit(Done(y), "item.done", key))
<1>1. key \in S!Keys \cup {<< >>} /\ key \notin Keys
  BY ClientFields DEF Open
<1>2. PICK x \in S!Emit(s, "content.done", key) : IF x.err = "nil" THEN t \in Rest(x) ELSE t = x
  BY DEF S!finishTextItemLocked, S!Then
<1>3. t \in Rest(x) => \E y \in S!Emit(Content(x), "part.done", key) :
                          IF y.err = "nil" THEN t \in S!Emit(Done(y), "item.done", key) ELSE t = y
  BY DEF S!Then
<1>. HIDE DEF key, Rest, Content, Done
<1>4. WentOn(s, x) /\ (Broken(x) \/ (Open(x) /\ x.itemOrder = s.itemOrder))
  BY <1>1, <1>2, EmitGoesOn, WireTypesAre
<1>5. CASE Broken(x)
  BY <1>2, <1>4, <1>5 DEF Broken
<1>6. CASE Open(x) /\ x.itemOrder = s.itemOrder
  <2>1. PICK y \in S!Emit(Content(x), "part.done", key) :
           IF y.err = "nil" THEN t \in S!Emit(Done(y), "item.done", key) ELSE t = y
    BY <1>2, <1>3, <1>6 DEF Open
  <2>2. WentOn(x, Content(x)) /\ Open(Content(x))
    BY <1>6, MarkGoesOn DEF Content
  <2>3. WentOn(Content(x), y) /\ (Broken(y) \/ (Open(y) /\ y.itemOrder = Content(x).itemOrder))
    BY <1>1, <2>1, <2>2, EmitGoesOn, WireTypesAre
  <2>4. WentOn(s, y)
    <3>1. WentOn(s, Content(x))
      BY <1>4, <1>6, <2>2, WentOnFurther
    <3>. QED
      BY <2>2, <2>3, <3>1, WentOnFurther
  <2>5. CASE Broken(y)
    BY <2>1, <2>4, <2>5 DEF Broken
  <2>6. CASE Open(y) /\ y.itemOrder = Content(x).itemOrder
    <3>1. t \in S!Emit(Done(y), "item.done", key)
      BY <2>1, <2>6 DEF Open
    <3>2. i \in 1..Len(y.itemOrder)
      BY <1>6, <2>2, <2>6 DEF WentOn, Open, Broken
    <3>3. WentOn(y, Done(y)) /\ Open(Done(y))
      BY <2>6, <3>2, MarkGoesOn DEF Done
    <3>4. WentOn(Done(y), t)
      BY <1>1, <3>1, <3>3, EmitGoesOn, WireTypesAre
    <3>5. WentOn(s, Done(y))
      BY <2>4, <2>6, <3>3, WentOnFurther
    <3>. QED
      BY <3>3, <3>4, <3>5, WentOnFurther
  <2>. QED
    BY <2>3, <2>5, <2>6
<1>. QED
  BY <1>4, <1>5, <1>6

\* Finishing one item: calls that are done are passed over.
LEMMA FinishItemOpen ==
    ASSUME NEW s, Open(s), NEW i \in 1..Len(s.itemOrder), NEW r \in BOOLEAN,
           r => ToolsDone(s.itemOrder), NEW t \in S!finishItemLocked(s, i, r)
    PROVE  /\ r => WentOn(s, t)
           /\ Broken(t) \/ (Open(t) /\ Len(t.itemOrder) = Len(s.itemOrder))
<1>. DEFINE item == s.itemOrder[i]
<1>1. /\ item.key \in Keys \/ item.key \in {<<c>> : c \in ChoiceIndexes}
      /\ item.itemDone \in BOOLEAN /\ item.named \in BOOLEAN
  <2>1. item \in ClientItem /\ (item.key \in Keys \/ item.key \in {<<c>> : c \in ChoiceIndexes})
    BY ClientFields DEF Open
  <2>. QED
    BY <2>1 DEF ClientItem
<1>2. CASE item.itemDone
  <2>1. t = s
    BY <1>2 DEF S!finishItemLocked
  <2>. QED
    BY <2>1 DEF WentOn, SameClosed
<1>3. CASE ~item.itemDone /\ item.key \notin Keys
  <2>1. t \in S!finishTextItemLocked(s, i)
    BY <1>1, <1>3 DEF S!finishItemLocked
  <2>2. WentOn(s, t)
    BY <1>3, <2>1, FinishTextOpen
  <2>. QED
    BY <2>2 DEF WentOn
<1>4. CASE ~item.itemDone /\ item.key \in Keys
  <2>1. ~r
    BY <1>4 DEF ToolsDone
  <2>2. item.key \notin {<<c>> : c \in ChoiceIndexes}
    BY <1>4, SessionKeys
  <2>3. t \in S!finishToolItemLocked(s, i)
    BY <1>4, <2>1, <2>2 DEF S!finishItemLocked
  <2>4. Broken(t) \/ (Open(t) /\ Len(t.itemOrder) = Len(s.itemOrder))
    BY <2>3, FinishToolOpen DEF ReplacedBy
  <2>. QED
    BY <2>1, <2>4
<1>. QED
  BY <1>1, <1>2, <1>3, <1>4

-----------------------------------------------------------------------------
(* Finishing all items, and the ends of a response.                        *)

\* One more item of the loop, and the loop as a function of the items so far.
FinishNext(X, i, r) == S!Then(X, LAMBDA x : S!finishItemLocked(x, i, r))

FinishStep(s, r, g, n) == IF n = 0 THEN {s} ELSE FinishNext(g[n - 1], n, r)

FinishFrom(s, r, m, g) == g = [n \in 0..m |-> FinishStep(s, r, g, n)]

\* The loop of finishItemsLocked computes something.
LEMMA FinishExists ==
    ASSUME NEW s, NEW r, NEW m \in Nat
    PROVE  \E g : FinishFrom(s, r, m, g)
<1>. DEFINE Good == {n \in 0..m : \E g : FinishFrom(s, r, n, g)}
<1>1. 0 \in Good
  <2>. DEFINE g == [n \in 0..0 |-> {s}]
  <2>1. g = [n \in 0..0 |-> FinishStep(s, r, g, n)]
    BY DEF FinishStep
  <2>2. FinishFrom(s, r, 0, g)
    BY <2>1 DEF FinishFrom
  <2>. QED
    BY <2>2
<1>2. ASSUME NEW n \in 0..m, n < m, n \in Good
      PROVE  n + 1 \in Good
  <2>1. PICK g : FinishFrom(s, r, n, g)
    BY <1>2
  <2>. DEFINE h == [j \in 0..(n + 1) |-> IF j =< n THEN g[j] ELSE FinishStep(s, r, g, j)]
  <2>2. \A j \in 0..n : g[j] = FinishStep(s, r, g, j)
    BY <2>1 DEF FinishFrom
  <2>3. \A j \in 0..(n + 1) : h[j] = FinishStep(s, r, g, j)
    BY <2>2
  <2>4. \A j \in 0..n : h[j] = g[j]
    OBVIOUS
  <2>. HIDE DEF h
  <2>5. \A j \in 0..(n + 1) : FinishStep(s, r, g, j) = FinishStep(s, r, h, j)
    BY <2>4 DEF FinishStep
  <2>6. h = [j \in 0..(n + 1) |-> FinishStep(s, r, h, j)]
    <3>1. \A j \in 0..(n + 1) : h[j] = FinishStep(s, r, h, j)
      BY <2>3, <2>5
    <3>2. h = [j \in 0..(n + 1) |-> h[j]]
      BY DEF h
    <3>. QED
      BY <3>1, <3>2
  <2>7. FinishFrom(s, r, n + 1, h)
    BY <2>6 DEF FinishFrom
  <2>. QED
    BY <1>2, <2>7
<1>3. \A n \in 0..m : n \in Good
  <2>. HIDE DEF Good
  <2>. QED
    BY <1>1, <1>2, UpToInduction
<1>. QED
  BY <1>3

\* finishItemsLocked goes through, or stops where a write fails.
LEMMA FinishItemsOpen ==
    ASSUME NEW s, Open(s), NEW r \in BOOLEAN, r => ToolsDone(s.itemOrder),
           NEW t \in S!finishItemsLocked(s, r)
    PROVE  (r => WentOn(s, t)) /\ (Broken(t) \/ Open(t))
<1>. DEFINE m == Len(s.itemOrder)
            g == CHOOSE g : g = [n \in 0..m |-> FinishStep(s, r, g, n)]
            Reached(x) == /\ r => WentOn(s, x)
                          /\ Broken(x) \/ (Open(x) /\ Len(x.itemOrder) = m)
            Good == {n \in 0..m : \A x \in g[n] : Reached(x)}
<1>1. m \in Nat
  BY ClientFields DEF Open
<1>2. t \in g[m]
  BY DEF S!finishItemsLocked, FinishStep, FinishNext
<1>3. g = [n \in 0..m |-> FinishStep(s, r, g, n)]
  <2>1. \E f : f = [n \in 0..m |-> FinishStep(s, r, f, n)]
    BY <1>1, FinishExists DEF FinishFrom
  <2>. QED
    BY <2>1
<1>. HIDE DEF g
<1>4. \A n \in 0..m : g[n] = FinishStep(s, r, g, n)
  BY <1>3
<1>5. 0 \in Good
  <2>1. g[0] = {s} /\ 0 \in 0..m
    BY <1>1, <1>4 DEF FinishStep
  <2>2. WentOn(s, s)
    BY DEF WentOn, SameClosed
  <2>. QED
    BY <2>1, <2>2
<1>6. ASSUME NEW n \in 0..m, n < m, n \in Good
      PROVE  n + 1 \in Good
  <2>1. n + 1 \in 0..m /\ n + 1 \in 1..m /\ n + 1 # 0 /\ (n + 1) - 1 = n
    BY <1>1, <1>6
  <2>2. g[n + 1] = FinishNext(g[n], n + 1, r)
    BY <1>4, <2>1 DEF FinishStep
  <2>3. ASSUME NEW x \in g[n + 1]
        PROVE  Reached(x)
    <3>1. PICK y \in g[n] : IF y.err = "nil" THEN x \in S!finishItemLocked(y, n + 1, r) ELSE x = y
      BY <2>2, <2>3 DEF FinishNext, S!Then
    <3>2. Reached(y)
      BY <1>6
    <3>3. CASE Broken(y)
      BY <3>1, <3>2, <3>3 DEF Broken
    <3>4. CASE Open(y) /\ Len(y.itemOrder) = m
      <4>1. x \in S!finishItemLocked(y, n + 1, r)
        BY <3>1, <3>4 DEF Open
      <4>2. r => WentOn(s, y) /\ ToolsDone(y.itemOrder)
        BY <3>2, <3>4 DEF WentOn, Open, Broken
      <4>3. /\ r => WentOn(y, x)
            /\ Broken(x) \/ (Open(x) /\ Len(x.itemOrder) = m)
        BY <2>1, <3>4, <4>1, <4>2, FinishItemOpen
      <4>4. r => WentOn(s, x)
        BY <3>4, <4>2, <4>3, WentOnFurther
      <4>. QED
        BY <4>3, <4>4
    <3>. QED
      BY <3>2, <3>3, <3>4
  <2>. QED
    BY <2>1, <2>3
<1>7. \A n \in 0..m : n \in Good
  <2>. HIDE DEF Good
  <2>. QED
    BY <1>1, <1>5, <1>6, UpToInduction
<1>. QED
  BY <1>1, <1>2, <1>7

\* A terminal event other than the completion.
LEMMA TerminalOver ==
    ASSUME NEW s, Open(s), NEW type \in {"incomplete", "failed"}, NEW t \in S!writeTerminalLocked(s, type)
    PROVE  t \in Client /\ Over(t) /\ t.err \in {"nil", "write"}
<1>. DEFINE e == [type |-> type, key |-> << >>]
            x == [s EXCEPT !.TerminalEmitted = TRUE]
<1>1. e \in WireEvent /\ e.type = type /\ type # "completed"
  BY SessionKeys, WireTypesAre DEF WireEvent
<1>2. s \in Client /\ s.wire \in Seq(WireEvent)
  BY ClientFields DEF Open
<1>. HIDE DEF e
<1>3. NoEnd(Append(s.wire, e))
  BY <1>1, <1>2, WireGrows DEF Open
<1>4. /\ x \in Client /\ x.wire = s.wire /\ x.started = TRUE /\ x.err = "nil" /\ x.TerminalEmitted = TRUE
  BY <1>2 DEF Open, Client
<1>. HIDE DEF x
<1>5. \/ t = [x EXCEPT !.wire = Append(x.wire, e)]
      \/ t = [x EXCEPT !.writeFailure = TRUE, !.err = "write"]
  BY DEF S!writeTerminalLocked, S!Emit, e, x
<1>6. /\ t.started = TRUE /\ t.err \in {"nil", "write"} /\ t.TerminalEmitted = TRUE
      /\ t.wire = s.wire \/ t.wire = Append(s.wire, e)
  BY <1>4, <1>5 DEF Client
<1>7. Append(s.wire, e) \in Seq(WireEvent) /\ "write" \in S!Errors
  BY <1>1, <1>2, WireGrows DEF S!Errors
<1>8. t \in Client
  BY <1>4, <1>5, <1>7 DEF Client
<1>. QED
  BY <1>3, <1>6, <1>8 DEF Over, Open

\* Passing an error on changes nothing else.
LEMMA ErrorOver ==
    ASSUME NEW s \in Client, Over(s),
           NEW err, err # "nil", NEW t \in S!Error(s, err)
    PROVE  Over(t) /\ t.err = err
BY DEF Over, S!Error, Client

\* A limit ends the response, with every item closed.
LEMMA LimitOver ==
    ASSUME NEW s, Open(s), NEW t \in S!limitLocked(s)
    PROVE  Over(t) /\ t.err \in {"limit", "write"}
<1>. DEFINE End(y) == S!Then(S!writeTerminalLocked(y, "failed"), LAMBDA z : S!Error(z, "limit"))
            Rest(x) == S!Then(S!finishItemsLocked(x, FALSE), LAMBDA y : End(y))
<1>1. t \in Rest(s)
  BY DEF S!limitLocked, S!Then, S!ensureStartedLocked, Open
<1>2. t \in Rest(s) => \E y \in S!finishItemsLocked(s, FALSE) : IF y.err = "nil" THEN t \in End(y) ELSE t = y
  BY DEF S!Then
<1>3. \A y : t \in End(y) => \E z \in S!writeTerminalLocked(y, "failed") :
                                IF z.err = "nil" THEN t \in S!Error(z, "limit") ELSE t = z
  BY DEF S!Then
<1>. HIDE DEF Rest, End
<1>4. PICK y \in S!finishItemsLocked(s, FALSE) : IF y.err = "nil" THEN t \in End(y) ELSE t = y
  BY <1>1, <1>2
<1>5. Broken(y) \/ Open(y)
  BY FinishItemsOpen
<1>6. CASE Broken(y)
  BY <1>4, <1>6 DEF Broken
<1>7. CASE Open(y)
  <2>1. PICK z \in S!writeTerminalLocked(y, "failed") :
           IF z.err = "nil" THEN t \in S!Error(z, "limit") ELSE t = z
    BY <1>3, <1>4, <1>7 DEF Open
  <2>2. z \in Client /\ Over(z) /\ z.err \in {"nil", "write"}
    BY <1>7, TerminalOver
  <2>3. CASE z.err = "nil"
    <3>1. Over(t) /\ t.err = "limit"
      BY <2>1, <2>2, <2>3, ErrorOver
    <3>. QED
      BY <3>1
  <2>4. CASE z.err # "nil"
    BY <2>1, <2>2, <2>4
  <2>. QED
    BY <2>3, <2>4
<1>. QED
  BY <1>5, <1>6, <1>7

\* An event out of sequence ends the response.
LEMMA InvalidOver ==
    ASSUME NEW s, Open(s), NEW t \in S!invalidTransitionLocked(s)
    PROVE  Over(t)
<1>. DEFINE Rest(x) == S!Then(S!writeTerminalLocked(x, "failed"), LAMBDA y : S!Error(y, "transition"))
<1>1. t \in Rest(s)
  BY DEF S!invalidTransitionLocked, S!Then, S!ensureStartedLocked, Open
<1>2. t \in Rest(s) => \E z \in S!writeTerminalLocked(s, "failed") :
                          IF z.err = "nil" THEN t \in S!Error(z, "transition") ELSE t = z
  BY DEF S!Then
<1>. HIDE DEF Rest
<1>3. PICK z \in S!writeTerminalLocked(s, "failed") :
         IF z.err = "nil" THEN t \in S!Error(z, "transition") ELSE t = z
  BY <1>1, <1>2
<1>4. z \in Client /\ Over(z)
  BY TerminalOver
<1>5. t \in S!Error(z, "transition") => Over(t)
  BY <1>4, ErrorOver
<1>. QED
  BY <1>3, <1>4, <1>5

\* An incomplete or a failed response.
LEMMA EndOver ==
    ASSUME NEW s, Open(s), NEW type \in {"incomplete", "failed"}, NEW t \in S!endLocked(s, type)
    PROVE  Over(t) /\ t.err \in {"nil", "write"}
<1>. DEFINE Rest(x) == S!Then(S!finishItemsLocked(x, FALSE), LAMBDA y : S!writeTerminalLocked(y, type))
<1>1. (type = "completed") = FALSE
  OBVIOUS
<1>2. t \in Rest(s)
  BY <1>1 DEF S!endLocked, S!Then, S!ensureStartedLocked, Open
<1>3. t \in Rest(s) => \E y \in S!finishItemsLocked(s, FALSE) :
                          IF y.err = "nil" THEN t \in S!writeTerminalLocked(y, type) ELSE t = y
  BY DEF S!Then
<1>. HIDE DEF Rest
<1>4. PICK y \in S!finishItemsLocked(s, FALSE) :
         IF y.err = "nil" THEN t \in S!writeTerminalLocked(y, type) ELSE t = y
  BY <1>2, <1>3
<1>5. Broken(y) \/ Open(y)
  BY FinishItemsOpen
<1>6. CASE Broken(y)
  BY <1>4, <1>6 DEF Broken
<1>7. CASE Open(y)
  <2>1. t \in S!writeTerminalLocked(y, type)
    BY <1>4, <1>7 DEF Open
  <2>. QED
    BY <1>7, <2>1, TerminalOver
<1>. QED
  BY <1>5, <1>6, <1>7

\* A response that ended as completed, unless a write failed.
Finished(s, t) ==
    /\ t.started = TRUE /\ t.err \in {"nil", "write"} /\ (t.err # "nil" \/ t.TerminalEmitted = TRUE)
    /\ SameClosed(s.wire, t.wire)
    /\ \/ t.writeFailure = TRUE /\ NoEnd(t.wire)
       \/ t.wire # << >> /\ Last(t.wire).type = "completed"

\* A response that completes when every call's item is done closes no other.
LEMMA EndCompletes ==
    ASSUME NEW s, Open(s), ToolsDone(s.itemOrder), NEW t \in S!endLocked(s, "completed")
    PROVE  Finished(s, t)
<1>. DEFINE Rest(x) == S!Then(S!finishItemsLocked(x, TRUE), LAMBDA y : S!writeTerminalLocked(y, "completed"))
<1>1. t \in Rest(s)
  BY DEF S!endLocked, S!Then, S!ensureStartedLocked, Open
<1>2. t \in Rest(s) => \E y \in S!finishItemsLocked(s, TRUE) :
                          IF y.err = "nil" THEN t \in S!writeTerminalLocked(y, "completed") ELSE t = y
  BY DEF S!Then
<1>. HIDE DEF Rest
<1>3. PICK y \in S!finishItemsLocked(s, TRUE) :
         IF y.err = "nil" THEN t \in S!writeTerminalLocked(y, "completed") ELSE t = y
  BY <1>1, <1>2
<1>4. WentOn(s, y)
  BY FinishItemsOpen
<1>5. CASE Broken(y)
  BY <1>3, <1>4, <1>5 DEF Broken, Over, WentOn, Finished
<1>6. CASE Open(y)
  <2>. DEFINE e == [type |-> "completed", key |-> << >>]
              x == [y EXCEPT !.TerminalEmitted = TRUE]
  <2>1. e \in WireEvent /\ e.type = "completed"
    BY SessionKeys, WireTypesAre DEF WireEvent
  <2>2. y \in Client /\ y.wire \in Seq(WireEvent)
    BY <1>6, ClientFields DEF Open
  <2>3. /\ x \in Client /\ x.wire = y.wire /\ x.started = TRUE /\ x.err = "nil" /\ x.TerminalEmitted = TRUE
    BY <1>6, <2>2 DEF Open, Client
  <2>4. t \in S!writeTerminalLocked(y, "completed")
    BY <1>3, <1>6 DEF Open
  <2>5. \/ t = [x EXCEPT !.wire = Append(x.wire, e)]
        \/ t = [x EXCEPT !.writeFailure = TRUE, !.err = "write"]
    BY <2>4 DEF S!writeTerminalLocked, S!Emit
  <2>. HIDE DEF e, x
  <2>6. /\ t.started = TRUE /\ t.err \in {"nil", "write"} /\ t.TerminalEmitted = TRUE
        /\ (t.wire = y.wire /\ t.writeFailure = TRUE) \/ t.wire = Append(y.wire, e)
    BY <2>3, <2>5 DEF Client
  <2>7. SameClosed(y.wire, Append(y.wire, e))
    BY <2>1, <2>2, WireGrows DEF SameClosed
  <2>8. SameClosed(y.wire, t.wire)
    BY <2>6, <2>7 DEF SameClosed
  <2>9. SameClosed(s.wire, t.wire)
    BY <1>4, <2>8 DEF SameClosed, WentOn
  <2>10. Append(y.wire, e) # << >> /\ Last(Append(y.wire, e)).type = "completed"
    BY <2>1, <2>2, WireGrows
  <2>. QED
    BY <1>6, <2>6, <2>9, <2>10 DEF Finished, Open
<1>. QED
  BY <1>4, <1>5, <1>6 DEF WentOn

-----------------------------------------------------------------------------
(* Keeping the items and the events returned in step.                      *)

\* One more event returned.
LEMMA EventsGrow ==
    ASSUME NEW o \in Seq(EventRecord), NEW e \in EventRecord
    PROVE  \A key :
              /\ Started(Append(o, e), key) <=> Started(o, key) \/ (e.type = "tool_started" /\ e.key = key)
              /\ Completed(Append(o, e), key) <=> Completed(o, key) \/ (e.type = "tool_completed" /\ e.key = key)
<1>. DEFINE q == Append(o, e)
<1>1. Added(o, q, e)
  BY AppendAdds
<1>. HIDE DEF q
<1>. QED
  BY <1>1 DEF Added, Started, Completed, q

\* The same items, but for what they hold.
Resembles(q, p) ==
    /\ Len(q) = Len(p) /\ Len(p) \in Nat
    /\ \A i \in 1..Len(p) : /\ q[i].key = p[i].key /\ q[i].named = p[i].named
                            /\ q[i].itemDone = p[i].itemDone

\* q is p with a new item for this key.
Extends(q, p, key) ==
    /\ Len(q) = Len(p) + 1 /\ Len(p) \in Nat
    /\ \A i \in 1..Len(p) : /\ q[i].key = p[i].key /\ q[i].named = p[i].named
                            /\ q[i].itemDone = p[i].itemDone
    /\ q[Len(p) + 1].key = key /\ q[Len(p) + 1].itemDone = FALSE

SameCalls(o, p) ==
    \A key \in Keys : (Started(p, key) <=> Started(o, key)) /\ (Completed(p, key) <=> Completed(o, key))

\* Nothing about calls has happened.
LEMMA TracksSame ==
    ASSUME NEW p, NEW w, NEW o, Tracks(p, w, o), NEW q, Resembles(q, p),
           NEW v, SameClosed(w, v), NEW r, SameCalls(o, r)
    PROVE  Tracks(q, v, r)
<1>. USE DEF Tracks, Resembles, SameClosed, SameCalls
<1>1. \A i, j \in 1..Len(q) : q[i].key = q[j].key => i = j
  OBVIOUS
<1>2. \A i \in 1..Len(q) : q[i].key \in Keys =>
         /\ q[i].named = TRUE /\ Started(r, q[i].key)
         /\ q[i].itemDone = TRUE <=> Completed(r, q[i].key)
  OBVIOUS
<1>3. \A i \in 1..Len(q) : q[i].key \notin Keys => q[i].itemDone = FALSE
  OBVIOUS
<1>4. \A key \in Keys : Started(r, key) => \E i \in 1..Len(q) : q[i].key = key
  OBVIOUS
<1>5. \A key \in Keys : Closed(v, key) <=> Completed(r, key)
  OBVIOUS
<1>. QED
  BY <1>1, <1>2, <1>3, <1>4, <1>5

\* An item has been added: of a choice, or of the call that was announced.
LEMMA TracksMore ==
    ASSUME NEW p, NEW w, NEW o, Tracks(p, w, o), NEW key, \A i \in 1..Len(p) : p[i].key # key,
           NEW q, Extends(q, p, key), NEW v, SameClosed(w, v), NEW r,
           key \in Keys => q[Len(q)].named = TRUE /\ ~Completed(o, key),
           \A k \in Keys : /\ Started(r, k) <=> Started(o, k) \/ k = key
                           /\ Completed(r, k) <=> Completed(o, k)
    PROVE  Tracks(q, v, r)
<1>. DEFINE n == Len(p)
<1>1. /\ n \in Nat /\ Len(q) = n + 1 /\ n + 1 \in 1..(n + 1)
      /\ \A i \in 1..(n + 1) : i \in 1..n \/ i = n + 1
      /\ \A i \in 1..n : i \in 1..(n + 1)
  BY DEF Extends
<1>2. q[n + 1].key = key /\ q[n + 1].itemDone = FALSE
  BY DEF Extends
<1>3. \A i \in 1..n : /\ q[i].key = p[i].key /\ q[i].named = p[i].named
                      /\ q[i].itemDone = p[i].itemDone
  BY DEF Extends
<1>4. \A i \in 1..n : p[i].key # key
  OBVIOUS
<1>5. \A i, j \in 1..n : p[i].key = p[j].key => i = j
  BY DEF Tracks
<1>6. \A i \in 1..n : p[i].key \in Keys => /\ p[i].named = TRUE /\ Started(o, p[i].key)
                                           /\ p[i].itemDone = TRUE <=> Completed(o, p[i].key)
  BY DEF Tracks
<1>7. \A i \in 1..n : p[i].key \notin Keys => p[i].itemDone = FALSE
  BY DEF Tracks
<1>8. \A k \in Keys : Started(o, k) => \E i \in 1..n : p[i].key = k
  BY DEF Tracks
<1>9. \A k \in Keys : Closed(v, k) <=> Completed(r, k)
  BY DEF Tracks, SameClosed
<1>. HIDE DEF n
<1>10. \A i, j \in 1..(n + 1) : q[i].key = q[j].key => i = j
  BY <1>1, <1>2, <1>3, <1>4, <1>5
<1>11. ASSUME NEW i \in 1..(n + 1), q[i].key \in Keys
       PROVE  /\ q[i].named = TRUE /\ Started(r, q[i].key)
              /\ q[i].itemDone = TRUE <=> Completed(r, q[i].key)
  <2>1. CASE i \in 1..n
    BY <1>3, <1>6, <1>11, <2>1
  <2>2. CASE i = n + 1
    BY <1>1, <1>2, <1>11, <2>2
  <2>. QED
    BY <1>1, <2>1, <2>2
<1>12. \A i \in 1..(n + 1) : q[i].key \notin Keys => q[i].itemDone = FALSE
  BY <1>1, <1>2, <1>3, <1>7
<1>13. \A k \in Keys : Started(r, k) => \E i \in 1..(n + 1) : q[i].key = k
  BY <1>1, <1>2, <1>3, <1>8
<1>. QED
  BY <1>1, <1>9, <1>10, <1>11, <1>12, <1>13 DEF Tracks

\* Item i of p is a call that q has done.
CallDone(q, p, i) ==
    \E item \in ClientItem :
       /\ ReplacedBy(q, p, i, item)
       /\ item.key = p[i].key /\ item.named = p[i].named /\ item.itemDone = TRUE

\* Call key, too, is closed on v, and completed by r.
ClosesAlso(v, w, key) == \A k \in Keys : Closed(v, k) <=> Closed(w, k) \/ k = key

CompletesAlso(r, o, key) ==
    \A k \in Keys : /\ Started(r, k) <=> Started(o, k)
                    /\ Completed(r, k) <=> Completed(o, k) \/ k = key

\* The item of a call is done.
LEMMA TracksDone ==
    ASSUME NEW p, NEW w, NEW o, Tracks(p, w, o), NEW i \in 1..Len(p), p[i].key \in Keys,
           NEW q, CallDone(q, p, i), NEW v, ClosesAlso(v, w, p[i].key),
           NEW r, CompletesAlso(r, o, p[i].key)
    PROVE  Tracks(q, v, r)
<1>. DEFINE n == Len(p)
            key == p[i].key
<1>10. PICK item \in ClientItem :
         /\ ReplacedBy(q, p, i, item)
         /\ item.key = p[i].key /\ item.named = p[i].named /\ item.itemDone = TRUE
  BY DEF CallDone
<1>11. \A k \in Keys : Closed(v, k) <=> Closed(w, k) \/ k = key
  BY DEF ClosesAlso
<1>12. \A k \in Keys : Started(r, k) <=> Started(o, k)
  BY DEF CompletesAlso
<1>13. \A k \in Keys : Completed(r, k) <=> Completed(o, k) \/ k = key
  BY DEF CompletesAlso
<1>1. n \in Nat /\ Len(q) = n /\ q[i] = item /\ \A j \in 1..n : j # i => q[j] = p[j]
  BY <1>10 DEF ReplacedBy
<1>2. \A j \in 1..n : q[j].key = p[j].key /\ q[j].named = p[j].named
  BY <1>10, <1>1
<1>3. \A j \in 1..n, k \in 1..n : p[j].key = p[k].key => j = k
  BY DEF Tracks
<1>4. \A j \in 1..n : p[j].key \in Keys => /\ p[j].named = TRUE /\ Started(o, p[j].key)
                                           /\ p[j].itemDone = TRUE <=> Completed(o, p[j].key)
  BY DEF Tracks
<1>5. \A j \in 1..n : p[j].key \notin Keys => p[j].itemDone = FALSE
  BY DEF Tracks
<1>6. \A k \in Keys : Started(o, k) => \E j \in 1..n : p[j].key = k
  BY DEF Tracks
<1>7. \A k \in Keys : Closed(v, k) <=> Completed(r, k)
  BY <1>11, <1>13 DEF Tracks
<1>8. ASSUME NEW j \in 1..n, q[j].key \in Keys
      PROVE  /\ q[j].named = TRUE /\ Started(r, q[j].key)
             /\ q[j].itemDone = TRUE <=> Completed(r, q[j].key)
  <2>1. CASE j = i
    BY <1>10, <1>12, <1>13, <1>1, <1>2, <1>4, <1>8, <2>1
  <2>2. CASE j # i
    <3>1. p[j].key # key
      BY <1>3, <2>2
    <3>. QED
      BY <1>12, <1>13, <1>1, <1>4, <1>8, <2>2, <3>1
  <2>. QED
    BY <2>1, <2>2
<1>9. \A j \in 1..n : q[j].key \notin Keys => q[j].itemDone = FALSE
  BY <1>10, <1>1, <1>2, <1>5
<1>14. \A k \in Keys : Started(r, k) => \E j \in 1..n : q[j].key = k
  BY <1>12, <1>2, <1>6
<1>15. \A j \in 1..n, k \in 1..n : q[j].key = q[k].key => j = k
  BY <1>2, <1>3
<1>16. Len(q) = n
  BY <1>1
<1>. HIDE DEF n, key
<1>17. \A j \in 1..n : q[j].key \in Keys =>
          /\ q[j].named = TRUE /\ Started(r, q[j].key)
          /\ q[j].itemDone = TRUE <=> Completed(r, q[j].key)
  BY <1>8
<1>. QED
  BY <1>7, <1>9, <1>14, <1>15, <1>16, <1>17 DEF Tracks

-----------------------------------------------------------------------------
(* The handlers of the session.                                            *)

\* A limit was passed, or a write failed.
Stops(t) == Over(t) /\ t.err \in {"limit", "write"}

LEMMA LimitStops ==
    ASSUME NEW s, Open(s), NEW t \in S!limitLocked(s)
    PROVE  Stops(t)
BY LimitOver DEF Stops

LEMMA BrokenStops ==
    ASSUME NEW t, Broken(t)
    PROVE  Stops(t)
BY DEF Broken, Stops

\* Where the item of a key is.
LEMMA ItemAt ==
    ASSUME NEW s, Open(s), NEW key, S!Has(s, key)
    PROVE  S!At(s, key) \in 1..Len(s.itemOrder) /\ s.itemOrder[S!At(s, key)].key = key
<1>1. \E i \in 1..Len(s.itemOrder) : s.itemOrder[i].key = key
  BY DEF S!Has
<1>. QED
  BY <1>1 DEF S!At

\* Items that resemble each other.
LEMMA ReplacedResembles ==
    ASSUME NEW q, NEW p, NEW i \in 1..Len(p), NEW item, ReplacedBy(q, p, i, item),
           item.key = p[i].key, item.named = p[i].named, item.itemDone = p[i].itemDone
    PROVE  Resembles(q, p)
BY DEF ReplacedBy, Resembles

\* A charge.
LEMMA ChargeOpen ==
    ASSUME NEW s, Open(s), NEW n \in Int, NEW t, t = S!Charge(s, n)
    PROVE  /\ Open(t) /\ t.itemOrder = s.itemOrder /\ t.wire = s.wire
           /\ t.aggregateBytes = s.aggregateBytes + n /\ t.outputBytes = s.outputBytes
           /\ t.textBytes = s.textBytes /\ t.reasoningBytes = s.reasoningBytes
<1>1. s \in Client
  BY DEF Open
<1>2. s.aggregateBytes + n \in Int
  BY <1>1, ClientFields
<1>3. t = [s EXCEPT !.aggregateBytes = s.aggregateBytes + n]
  BY DEF S!Charge
<1>4. /\ t \in Client /\ t.itemOrder = s.itemOrder /\ t.wire = s.wire
      /\ t.aggregateBytes = s.aggregateBytes + n /\ t.outputBytes = s.outputBytes
      /\ t.textBytes = s.textBytes /\ t.reasoningBytes = s.reasoningBytes
      /\ t.started = s.started /\ t.err = s.err
      /\ t.TerminalEmitted = s.TerminalEmitted /\ t.writeFailure = s.writeFailure
  BY <1>1, <1>2, <1>3 DEF Client
<1>. QED
  BY <1>4 DEF Open

\* What an item holds has changed, with the counters.
PutBytes(s, i, b, a, o, x) == PutItem(s, i, [s.itemOrder[i] EXCEPT !.bytes = b], a, o, x)

LEMMA BytesOpen ==
    ASSUME NEW s, Open(s), NEW i \in 1..Len(s.itemOrder), NEW b \in Int,
           NEW a \in Int, NEW o \in Int, NEW x \in Int,
           NEW t, t = PutBytes(s, i, b, a, o, x)
    PROVE  Open(t) /\ t.wire = s.wire /\ Resembles(t.itemOrder, s.itemOrder) /\ t.itemOrder \in Seq(ClientItem)
<1>. DEFINE item == [s.itemOrder[i] EXCEPT !.bytes = b]
<1>1. s.itemOrder[i] \in ClientItem
  BY ClientFields DEF Open
<1>2. /\ item \in ClientItem /\ item.key = s.itemOrder[i].key /\ item.named = s.itemOrder[i].named
      /\ item.itemDone = s.itemOrder[i].itemDone
  BY <1>1 DEF ClientItem
<1>3. t = PutItem(s, i, item, a, o, x)
  BY DEF PutBytes
<1>. HIDE DEF item
<1>4. item \in ClientItem
  BY <1>2
<1>5. Open(t) /\ t.wire = s.wire /\ ReplacedBy(t.itemOrder, s.itemOrder, i, item)
  <2>1. \A y : y = PutItem(s, i, item, a, o, x) =>
                 Open(y) /\ y.wire = s.wire /\ ReplacedBy(y.itemOrder, s.itemOrder, i, item)
    <3>. HIDE <1>3
    <3>. QED
      BY <1>4, PutItemOpen
  <2>. QED
    BY <1>3, <2>1
<1>6. Resembles(t.itemOrder, s.itemOrder)
  BY <1>2, <1>5, ReplacedResembles
<1>. QED
  BY <1>5, <1>6 DEF ReplacedBy

FreshItem(key) ==
    [key |-> key, named |-> FALSE, bytes |-> 0, contentDone |-> FALSE, itemDone |-> FALSE]

\* A new item.
LEMMA NewItemOpen ==
    ASSUME NEW s, Open(s), NEW key \in S!Keys, NEW t \in S!newItemLocked(s, key)
    PROVE  \/ Stops(t)
           \/ /\ Open(t) /\ t.wire = s.wire /\ t.itemOrder = Append(s.itemOrder, FreshItem(key))
              /\ t.itemOrder \in Seq(ClientItem)
<1>1. CASE ~S!Fits(s, ItemCost)
  <2>1. t \in S!limitLocked(s)
    BY <1>1 DEF S!newItemLocked
  <2>. QED
    BY <2>1, LimitStops
<1>2. CASE S!Fits(s, ItemCost)
  <2>. DEFINE x == S!Charge(s, ItemCost)
              q == Append(s.itemOrder, FreshItem(key))
  <2>1. ItemCost \in Int
    BY GatewayAssumption
  <2>2. Open(x) /\ x.itemOrder = s.itemOrder /\ x.wire = s.wire
    BY <2>1, ChargeOpen
  <2>3. t = [x EXCEPT !.itemOrder = Append(x.itemOrder, FreshItem(key))]
    BY <1>2 DEF S!newItemLocked, FreshItem
  <2>4. t = [x EXCEPT !.itemOrder = q]
    BY <2>2, <2>3
  <2>5. FreshItem(key) \in ClientItem
    BY DEF FreshItem, ClientItem
  <2>6. s.itemOrder \in Seq(ClientItem)
    BY ClientFields DEF Open
  <2>7. q \in Seq(ClientItem)
    BY <2>5, <2>6
  <2>. HIDE DEF x, q
  <2>8. /\ t \in Client /\ t.itemOrder = q /\ t.wire = x.wire /\ t.started = x.started /\ t.err = x.err
        /\ t.TerminalEmitted = x.TerminalEmitted /\ t.writeFailure = x.writeFailure
    BY <2>2, <2>4, <2>7 DEF Open, Client
  <2>. QED
    BY <2>2, <2>7, <2>8 DEF Open, q
<1>. QED
  BY <1>1, <1>2

\* An item that is put at the end.
LEMMA AppendExtends ==
    ASSUME NEW p \in Seq(ClientItem), NEW key \in S!Keys, NEW q, q = Append(p, FreshItem(key))
    PROVE  /\ Extends(q, p, key) /\ Len(q) \in 1..Len(q)
           /\ \E i \in 1..Len(q) : q[i].key = key
<1>1. FreshItem(key) \in ClientItem /\ FreshItem(key).key = key /\ FreshItem(key).itemDone = FALSE
  BY DEF FreshItem, ClientItem
<1>2. /\ Len(q) = Len(p) + 1 /\ Len(p) \in Nat /\ q[Len(p) + 1] = FreshItem(key)
      /\ \A i \in 1..Len(p) : q[i] = p[i]
  BY <1>1, AppendProperties
<1>3. Len(q) \in 1..Len(q)
  BY <1>2
<1>. QED
  BY <1>1, <1>2, <1>3 DEF Extends

\* A delta: what the item holds, the counters, and one event on the wire.
LEMMA DeltaOpen ==
    ASSUME NEW s, Open(s), NEW i \in 1..Len(s.itemOrder), NEW b \in Int,
           NEW a \in Int, NEW o \in Int, NEW x \in Int, NEW key \in S!Keys,
           NEW y, y = PutBytes(s, i, b, a, o, x),
           NEW t \in S!Emit(y, "delta", key)
    PROVE  \/ Stops(t)
           \/ Open(t) /\ Resembles(t.itemOrder, s.itemOrder) /\ SameClosed(s.wire, t.wire)
<1>1. Open(y) /\ y.wire = s.wire /\ Resembles(y.itemOrder, s.itemOrder)
  BY BytesOpen
<1>2. "delta" # "completed" /\ "delta" # "item.done" /\ key \in S!Keys \cup {<< >>}
  OBVIOUS
<1>3. WentOn(y, t) /\ (Broken(t) \/ (Open(t) /\ t.itemOrder = y.itemOrder))
  BY <1>1, <1>2, EmitGoesOn, WireTypesAre
<1>4. SameClosed(s.wire, t.wire)
  BY <1>1, <1>3 DEF WentOn
<1>. QED
  BY <1>1, <1>3, <1>4, BrokenStops

\* The second half of textDeltaLocked.
LEMMA AppendTextOpen ==
    ASSUME NEW s, Open(s), NEW key \in S!Keys, S!Has(s, key), NEW n \in Nat, NEW t \in S!appendText(s, key, n)
    PROVE  \/ Stops(t)
           \/ Open(t) /\ Resembles(t.itemOrder, s.itemOrder) /\ SameClosed(s.wire, t.wire)
<1>. DEFINE i == S!At(s, key)
            c == S!Charge(s, n)
            y == [c EXCEPT !.itemOrder[i].bytes = @ + n, !.textBytes = @ + n, !.outputBytes = @ + n]
            b == c.itemOrder[i].bytes + n
<1>1. i \in 1..Len(s.itemOrder)
  BY ItemAt
<1>2. Open(c) /\ c.itemOrder = s.itemOrder /\ c.wire = s.wire
  BY ChargeOpen
<1>3. t \in S!limitLocked(s) \/ t \in S!Emit(y, "delta", key)
  BY DEF S!appendText
<1>. HIDE DEF i, c
<1>4. /\ c \in Client /\ b \in Int /\ c.aggregateBytes \in Int /\ c.outputBytes + n \in Int
      /\ c.textBytes + n \in Int
  <2>1. c \in Client
    BY <1>2 DEF Open
  <2>2. c.itemOrder[i] \in ClientItem
    BY <1>1, <1>2, <2>1, ClientFields
  <2>3. b \in Int
    <3>1. c.itemOrder[i].bytes \in Int
      BY <2>2 DEF ClientItem
    <3>. QED
      BY <3>1
  <2>4. c.outputBytes \in Int /\ c.textBytes \in Int /\ c.aggregateBytes \in Int
    BY <2>1, ClientFields
  <2>. QED
    BY <2>1, <2>3, <2>4
<1>5. y = PutBytes(c, i, b, c.aggregateBytes, c.outputBytes + n, c.textBytes + n)
  BY <1>4 DEF PutBytes, PutItem, Client
<1>. HIDE DEF y, b
<1>6. CASE t \in S!limitLocked(s)
  BY <1>6, LimitStops
<1>7. CASE t \in S!Emit(y, "delta", key)
  BY <1>1, <1>2, <1>4, <1>5, <1>7, DeltaOpen
<1>. QED
  BY <1>3, <1>6, <1>7

\* A new text item: registered, and announced with its content part.
LEMMA NewTextItemOpen ==
    ASSUME NEW s, Open(s), NEW key \in S!Keys, NEW t \in S!newTextItemLocked(s, key)
    PROVE  \/ Stops(t)
           \/ /\ Open(t) /\ SameClosed(s.wire, t.wire)
              /\ t.itemOrder = Append(s.itemOrder, FreshItem(key)) /\ S!Has(t, key)
<1>. DEFINE Rest(x) == S!Then(S!Emit(x, "item.added", key), LAMBDA y : S!Emit(y, "part.added", key))
<1>1. PICK x \in S!newItemLocked(s, key) : IF x.err = "nil" THEN t \in Rest(x) ELSE t = x
  BY DEF S!newTextItemLocked, S!Then
<1>2. t \in Rest(x) => \E y \in S!Emit(x, "item.added", key) :
                          IF y.err = "nil" THEN t \in S!Emit(y, "part.added", key) ELSE t = y
  BY DEF S!Then
<1>. HIDE DEF Rest
<1>3. \/ Stops(x)
      \/ /\ Open(x) /\ x.wire = s.wire /\ x.itemOrder = Append(s.itemOrder, FreshItem(key))
         /\ x.itemOrder \in Seq(ClientItem)
  BY NewItemOpen
<1>4. CASE Stops(x)
  BY <1>1, <1>4 DEF Stops
<1>5. CASE /\ Open(x) /\ x.wire = s.wire /\ x.itemOrder = Append(s.itemOrder, FreshItem(key))
           /\ x.itemOrder \in Seq(ClientItem)
  <2>1. PICK y \in S!Emit(x, "item.added", key) :
           IF y.err = "nil" THEN t \in S!Emit(y, "part.added", key) ELSE t = y
    BY <1>1, <1>2, <1>5 DEF Open
  <2>2. /\ "item.added" # "completed" /\ "item.added" # "item.done" /\ key \in S!Keys \cup {<< >>}
        /\ "part.added" # "completed" /\ "part.added" # "item.done"
    OBVIOUS
  <2>3. WentOn(x, y) /\ (Broken(y) \/ (Open(y) /\ y.itemOrder = x.itemOrder))
    BY <1>5, <2>1, <2>2, EmitGoesOn, WireTypesAre
  <2>4. CASE Broken(y)
    <3>1. t = y
      BY <2>1, <2>4 DEF Broken
    <3>. QED
      BY <2>4, <3>1, BrokenStops
  <2>5. CASE Open(y) /\ y.itemOrder = x.itemOrder
    <3>1. t \in S!Emit(y, "part.added", key)
      BY <2>1, <2>5 DEF Open
    <3>2. WentOn(y, t) /\ (Broken(t) \/ (Open(t) /\ t.itemOrder = y.itemOrder))
      BY <2>2, <2>5, <3>1, EmitGoesOn, WireTypesAre
    <3>3. SameClosed(s.wire, t.wire)
      BY <1>5, <2>3, <3>2 DEF WentOn, SameClosed
    <3>4. t.itemOrder = x.itemOrder => S!Has(t, key)
      <4>1. s.itemOrder \in Seq(ClientItem)
        BY ClientFields DEF Open
      <4>2. \E i \in 1..Len(x.itemOrder) : x.itemOrder[i].key = key
        BY <1>5, <4>1, AppendExtends, SMTT(60)
      <4>. QED
        BY <4>2 DEF S!Has
    <3>. QED
      BY <1>5, <2>5, <3>2, <3>3, <3>4, BrokenStops
  <2>. QED
    BY <2>3, <2>4, <2>5
<1>. QED
  BY <1>3, <1>4, <1>5

\* Text: no choice's item is ever done while the response goes on.
LEMMA TextFollows ==
    ASSUME NEW s, NEW o, Follows(s, o), NEW r, SameCalls(o, r),
           NEW e, e.valid = TRUE, e.bytes \in Nat, e.key \in {<<c>> : c \in ChoiceIndexes},
           NEW t \in S!textDeltaLocked(s, e)
    PROVE  Stops(t) \/ Follows(t, r)
<1>. DEFINE key == e.key
<1>1. /\ Open(s) /\ Tracks(s.itemOrder, s.wire, o) /\ key \in S!Keys /\ key \notin Keys
      /\ s.itemOrder \in Seq(ClientItem)
  BY SessionKeys, ClientFields DEF Follows, Open
<1>2. S!Has(s, key) => S!ItemOf(s, key).itemDone = FALSE
  BY <1>1, ItemAt DEF Tracks, S!ItemOf
<1>3. \/ t = s
      \/ S!Has(s, key) /\ t \in S!appendText(s, key, e.bytes)
      \/ /\ ~S!Has(s, key)
         /\ \E x \in S!newTextItemLocked(s, key) :
               IF x.err = "nil" THEN t \in S!appendText(x, key, e.bytes) ELSE t = x
  BY <1>1, <1>2 DEF S!textDeltaLocked, S!Then, S!ensureStartedLocked, Open
<1>. HIDE DEF key
<1>4. CASE t = s
  <2>1. Resembles(t.itemOrder, s.itemOrder) /\ SameClosed(s.wire, t.wire)
    BY <1>1, <1>4 DEF Resembles, SameClosed
  <2>. QED
    BY <1>1, <1>4, <2>1, TracksSame DEF Follows
<1>5. CASE S!Has(s, key) /\ t \in S!appendText(s, key, e.bytes)
  <2>1. \/ Stops(t)
        \/ Open(t) /\ Resembles(t.itemOrder, s.itemOrder) /\ SameClosed(s.wire, t.wire)
    BY <1>1, <1>5, AppendTextOpen
  <2>. QED
    BY <1>1, <2>1, TracksSame DEF Follows
<1>6. ASSUME ~S!Has(s, key), NEW x \in S!newTextItemLocked(s, key),
             IF x.err = "nil" THEN t \in S!appendText(x, key, e.bytes) ELSE t = x
      PROVE  Stops(t) \/ Follows(t, r)
  <2>1. \/ Stops(x)
        \/ /\ Open(x) /\ SameClosed(s.wire, x.wire)
           /\ x.itemOrder = Append(s.itemOrder, FreshItem(key)) /\ S!Has(x, key)
    BY <1>1, <1>6, NewTextItemOpen
  <2>2. CASE Stops(x)
    BY <1>6, <2>2 DEF Stops
  <2>3. CASE /\ Open(x) /\ SameClosed(s.wire, x.wire)
             /\ x.itemOrder = Append(s.itemOrder, FreshItem(key)) /\ S!Has(x, key)
    <3>1. t \in S!appendText(x, key, e.bytes)
      BY <1>6, <2>3 DEF Open
    <3>2. \/ Stops(t)
          \/ Open(t) /\ Resembles(t.itemOrder, x.itemOrder) /\ SameClosed(x.wire, t.wire)
      BY <1>1, <2>3, <3>1, AppendTextOpen
    <3>3. Tracks(x.itemOrder, x.wire, o)
      <4>1. \A i \in 1..Len(s.itemOrder) : s.itemOrder[i].key # key
        BY <1>6 DEF S!Has
      <4>2. Extends(x.itemOrder, s.itemOrder, key)
        BY <1>1, <2>3, AppendExtends
      <4>3. \A k \in Keys : /\ Started(o, k) <=> Started(o, k) \/ k = key
                            /\ Completed(o, k) <=> Completed(o, k)
        BY <1>1
      <4>4. key \in Keys => x.itemOrder[Len(x.itemOrder)].named = TRUE /\ ~Completed(o, key)
        BY <1>1
      <4>5. Tracks(s.itemOrder, s.wire, o) /\ SameClosed(s.wire, x.wire)
        BY <1>1, <2>3
      <4>. QED
        BY <4>1, <4>2, <4>3, <4>4, <4>5, TracksMore
    <3>. QED
      BY <3>2, <3>3, TracksSame DEF Follows
  <2>. QED
    BY <2>1, <2>2, <2>3
<1>. QED
  BY <1>3, <1>4, <1>5, <1>6

\* An event the session needs nothing of.
LEMMA SameFollows ==
    ASSUME NEW s, NEW o, Follows(s, o), NEW r, SameCalls(o, r)
    PROVE  Follows(s, r)
<1>1. Open(s) /\ Tracks(s.itemOrder, s.wire, o) /\ Len(s.itemOrder) \in Nat
  BY ClientFields DEF Follows, Open
<1>2. Resembles(s.itemOrder, s.itemOrder) /\ SameClosed(s.wire, s.wire)
  BY <1>1 DEF Resembles, SameClosed
<1>. QED
  BY <1>1, <1>2, TracksSame DEF Follows

\* Reasoning is only counted.
LEMMA ReasoningFollows ==
    ASSUME NEW s, NEW o, Follows(s, o), NEW r, SameCalls(o, r),
           NEW e, e.valid = TRUE, e.bytes \in Nat, NEW t \in S!reasoningDeltaLocked(s, e)
    PROVE  Stops(t) \/ Follows(t, r)
<1>. DEFINE c == S!Charge(s, e.bytes)
<1>1. Open(s)
  BY DEF Follows
<1>2. t \in S!limitLocked(s) \/ t = [c EXCEPT !.reasoningBytes = @ + e.bytes]
  BY <1>1 DEF S!reasoningDeltaLocked, S!Then, S!ensureStartedLocked, Open
<1>3. Open(c) /\ c.itemOrder = s.itemOrder /\ c.wire = s.wire
  BY <1>1, ChargeOpen
<1>. HIDE DEF c
<1>4. CASE t \in S!limitLocked(s)
  BY <1>1, <1>4, LimitStops
<1>5. CASE t = [c EXCEPT !.reasoningBytes = @ + e.bytes]
  <2>1. c \in Client /\ c.reasoningBytes + e.bytes \in Int
    <3>1. c \in Client
      BY <1>3 DEF Open
    <3>2. c.reasoningBytes \in Int
      BY <3>1, ClientFields
    <3>. QED
      BY <3>1, <3>2
  <2>2. /\ t \in Client /\ t.itemOrder = c.itemOrder /\ t.wire = c.wire /\ t.started = c.started
        /\ t.err = c.err /\ t.TerminalEmitted = c.TerminalEmitted /\ t.writeFailure = c.writeFailure
    BY <1>5, <2>1 DEF Client
  <2>3. Follows(t, o)
    BY <1>3, <2>2 DEF Follows, Open
  <2>. QED
    BY <2>3, SameFollows
<1>. QED
  BY <1>2, <1>4, <1>5

\* An item gets its name.
WithName(c, i) == [c EXCEPT !.itemOrder[i].named = TRUE]

LEMMA NameOpen ==
    ASSUME NEW c, Open(c), NEW i \in 1..Len(c.itemOrder), NEW z, z = WithName(c, i)
    PROVE  /\ Open(z) /\ z.wire = c.wire
           /\ \E item \in ClientItem :
                 /\ ReplacedBy(z.itemOrder, c.itemOrder, i, item)
                 /\ item.key = c.itemOrder[i].key /\ item.named = TRUE
                 /\ item.itemDone = c.itemOrder[i].itemDone
<1>. DEFINE item == [c.itemOrder[i] EXCEPT !.named = TRUE]
<1>1. /\ c \in Client /\ c.itemOrder[i] \in ClientItem
      /\ c.aggregateBytes \in Int /\ c.outputBytes \in Int /\ c.textBytes \in Int
  BY ClientFields DEF Open
<1>2. z = PutItem(c, i, item, c.aggregateBytes, c.outputBytes, c.textBytes)
  BY <1>1 DEF Client, PutItem, WithName
<1>3. /\ item \in ClientItem /\ item.key = c.itemOrder[i].key /\ item.named = TRUE
      /\ item.itemDone = c.itemOrder[i].itemDone
  BY <1>1 DEF ClientItem
<1>. HIDE DEF item
<1>4. Open(z) /\ z.wire = c.wire /\ ReplacedBy(z.itemOrder, c.itemOrder, i, item)
  <2>1. item \in ClientItem
    BY <1>3
  <2>2. c.aggregateBytes \in Int /\ c.outputBytes \in Int /\ c.textBytes \in Int
    BY <1>1
  <2>. QED
    BY <1>2, <2>1, <2>2, PutItemOpen
<1>. QED
  BY <1>3, <1>4

\* A new item gets its name.
LEMMA NamedOpen ==
    ASSUME NEW p \in Seq(ClientItem), NEW key \in S!Keys, NEW c, Open(c),
           c.itemOrder = Append(p, FreshItem(key)),
           NEW i \in 1..Len(c.itemOrder), c.itemOrder[i].key = key, \A j \in 1..Len(p) : p[j].key # key,
           NEW z, z = WithName(c, i)
    PROVE  /\ Open(z) /\ z.wire = c.wire /\ Extends(z.itemOrder, p, key)
           /\ z.itemOrder[Len(z.itemOrder)].named = TRUE
<1>. DEFINE n == Len(p)
            q == c.itemOrder
<1>1. Extends(q, p, key)
  BY AppendExtends
<1>2. PICK item \in ClientItem :
         /\ Open(z) /\ z.wire = c.wire /\ ReplacedBy(z.itemOrder, q, i, item)
         /\ item.key = key /\ item.named = TRUE /\ item.itemDone = q[i].itemDone
  BY NameOpen, ZenonT(60)
<1>3. \A j \in 1..n : q[j] = p[j]
  <2>1. FreshItem(key) \in ClientItem
    BY DEF FreshItem, ClientItem
  <2>. QED
    BY <2>1, AppendProperties
<1>. HIDE DEF q
<1>4. n \in Nat /\ Len(q) = n + 1 /\ q[n + 1].itemDone = FALSE
  BY <1>1 DEF Extends
<1>5. i \in 1..(n + 1) /\ q[i].key = key
  BY <1>4 DEF q
<1>6. i = n + 1
  <2>1. i \in 1..n \/ i = n + 1
    BY <1>4, <1>5
  <2>. QED
    BY <1>3, <1>5, <2>1
<1>7. /\ Len(z.itemOrder) = n + 1 /\ z.itemOrder[n + 1] = item
      /\ \A j \in 1..n : z.itemOrder[j] = p[j]
  BY <1>2, <1>3, <1>4, <1>6 DEF ReplacedBy
<1>8. Extends(z.itemOrder, p, key) /\ z.itemOrder[Len(z.itemOrder)].named = TRUE
  BY <1>2, <1>4, <1>6, <1>7 DEF Extends
<1>. QED
  BY <1>2, <1>8

\* The second half of toolCallStartedLocked: the new item gets the name and is announced.
Announce(y, e) ==
    IF ~S!Fits(y, e.meta) THEN S!limitLocked(y)
    ELSE S!Emit([S!Charge(y, e.meta) EXCEPT !.itemOrder[S!At(y, e.key)].named = e.named],
                "item.added", e.key)

LEMMA AnnounceOpen ==
    ASSUME NEW p \in Seq(ClientItem), NEW e, e.key \in S!Keys, e.meta \in Nat, e.named = TRUE,
           \A j \in 1..Len(p) : p[j].key # e.key,
           NEW y, Open(y), y.itemOrder = Append(p, FreshItem(e.key)), NEW t \in Announce(y, e)
    PROVE  \/ Stops(t)
           \/ /\ Open(t) /\ Extends(t.itemOrder, p, e.key) /\ SameClosed(y.wire, t.wire)
              /\ t.itemOrder[Len(t.itemOrder)].named = TRUE
<1>. DEFINE key == e.key
            c == S!Charge(y, e.meta)
            i == S!At(y, key)
            z == WithName(c, i)
<1>1. t \in S!limitLocked(y) \/ t \in S!Emit(z, "item.added", key)
  BY DEF Announce, WithName
<1>2. Open(c) /\ c.itemOrder = y.itemOrder /\ c.wire = y.wire
  <2>1. e.meta \in Int
    OBVIOUS
  <2>. QED
    BY <2>1, ChargeOpen, ZenonT(60)
<1>3. i \in 1..Len(y.itemOrder) /\ y.itemOrder[i].key = key
  <2>1. \E j \in 1..Len(y.itemOrder) : y.itemOrder[j].key = key
    BY AppendExtends, SMTT(60)
  <2>2. S!Has(y, key)
    BY <2>1 DEF S!Has
  <2>. QED
    BY <2>2, ItemAt
<1>4. key \in S!Keys
  OBVIOUS
<1>. HIDE DEF c, i, key
<1>5. /\ Open(z) /\ z.wire = c.wire /\ Extends(z.itemOrder, p, key)
      /\ z.itemOrder[Len(z.itemOrder)].named = TRUE
  <2>1. /\ c.itemOrder = Append(p, FreshItem(key)) /\ i \in 1..Len(c.itemOrder) /\ c.itemOrder[i].key = key
        /\ \A j \in 1..Len(p) : p[j].key # key
    BY <1>2, <1>3 DEF key
  <2>. QED
    BY <1>2, <1>4, <2>1, NamedOpen
<1>. HIDE DEF z
<1>6. CASE t \in S!limitLocked(y)
  BY <1>6, LimitStops
<1>7. CASE t \in S!Emit(z, "item.added", key)
  <2>1. "item.added" # "completed" /\ "item.added" # "item.done" /\ key \in S!Keys \cup {<< >>}
    BY <1>4
  <2>2. WentOn(z, t) /\ (Broken(t) \/ (Open(t) /\ t.itemOrder = z.itemOrder))
    BY <1>5, <1>7, <2>1, EmitGoesOn, WireTypesAre
  <2>3. CASE Broken(t)
    BY <2>3, BrokenStops
  <2>4. CASE Open(t) /\ t.itemOrder = z.itemOrder
    BY <1>2, <1>5, <2>2, <2>4 DEF WentOn, key
  <2>. QED
    BY <2>2, <2>3, <2>4
<1>. QED
  BY <1>1, <1>6, <1>7

\* A call that is announced.
LEMMA ToolStartedFollows ==
    ASSUME NEW s, NEW o, Follows(s, o), NEW e, e.key \in Keys,
           e.valid = TRUE, e.named = TRUE, e.meta \in Nat,
           ~Started(o, e.key), ~Completed(o, e.key), NEW r,
           \A k \in Keys : /\ Started(r, k) <=> Started(o, k) \/ k = e.key
                           /\ Completed(r, k) <=> Completed(o, k),
           NEW t \in S!toolCallStartedLocked(s, e)
    PROVE  Stops(t) \/ Follows(t, r)
<1>. DEFINE p == s.itemOrder
<1>1. Open(s) /\ Tracks(p, s.wire, o) /\ e.key \in S!Keys /\ p \in Seq(ClientItem)
  BY SessionKeys, ClientFields DEF Follows, Open
<1>2. \A i \in 1..Len(p) : p[i].key # e.key
  BY <1>1 DEF Tracks
<1>3. t \in S!Then(S!newItemLocked(s, e.key), LAMBDA y : Announce(y, e))
  <2>1. ~S!Has(s, e.key)
    BY <1>2 DEF S!Has
  <2>. QED
    BY <1>1, <2>1 DEF S!toolCallStartedLocked, S!Then, S!ensureStartedLocked, Open, Announce
<1>4. PICK y \in S!newItemLocked(s, e.key) : IF y.err = "nil" THEN t \in Announce(y, e) ELSE t = y
  BY <1>3 DEF S!Then
<1>5. \/ Stops(y)
      \/ Open(y) /\ y.wire = s.wire /\ y.itemOrder = Append(p, FreshItem(e.key))
  BY <1>1, NewItemOpen
<1>6. CASE Stops(y)
  BY <1>4, <1>6 DEF Stops
<1>7. CASE Open(y) /\ y.wire = s.wire /\ y.itemOrder = Append(p, FreshItem(e.key))
  <2>1. t \in Announce(y, e)
    BY <1>4, <1>7 DEF Open
  <2>. HIDE DEF p
  <2>2. \/ Stops(t)
        \/ /\ Open(t) /\ Extends(t.itemOrder, p, e.key) /\ SameClosed(s.wire, t.wire)
           /\ t.itemOrder[Len(t.itemOrder)].named = TRUE
    BY <1>1, <1>2, <1>7, <2>1, AnnounceOpen
  <2>3. ASSUME /\ Open(t) /\ Extends(t.itemOrder, p, e.key) /\ SameClosed(s.wire, t.wire)
               /\ t.itemOrder[Len(t.itemOrder)].named = TRUE
        PROVE  Follows(t, r)
    <3>1. e.key \in Keys => t.itemOrder[Len(t.itemOrder)].named = TRUE /\ ~Completed(o, e.key)
      BY <2>3
    <3>2. Tracks(t.itemOrder, t.wire, r)
      BY <1>1, <1>2, <2>3, <3>1, TracksMore
    <3>. QED
      BY <2>3, <3>2 DEF Follows
  <2>. QED
    BY <2>2, <2>3
<1>. QED
  BY <1>5, <1>6, <1>7

\* A call that was announced and not completed has an item that is not done.
LEMMA CallActive ==
    ASSUME NEW s, NEW o, Follows(s, o), NEW key \in Keys, Started(o, key), ~Completed(o, key)
    PROVE  /\ S!Has(s, key) /\ S!Active(s, key)
           /\ S!At(s, key) \in 1..Len(s.itemOrder) /\ s.itemOrder[S!At(s, key)].key = key
           /\ s.itemOrder[S!At(s, key)].named = TRUE
<1>1. Open(s) /\ S!Has(s, key)
  BY DEF Follows, Tracks, S!Has
<1>2. S!At(s, key) \in 1..Len(s.itemOrder) /\ s.itemOrder[S!At(s, key)].key = key
  BY <1>1, ItemAt
<1>3. /\ s.itemOrder[S!At(s, key)].named = TRUE
      /\ s.itemOrder[S!At(s, key)].itemDone = TRUE <=> Completed(o, key)
  BY <1>2 DEF Follows, Tracks
<1>4. s.itemOrder[S!At(s, key)].itemDone \in BOOLEAN
  <2>1. s.itemOrder[S!At(s, key)] \in ClientItem
    BY <1>1, <1>2, ClientFields DEF Open
  <2>. QED
    BY <2>1 DEF ClientItem
<1>5. S!Active(s, key)
  BY <1>1, <1>3, <1>4 DEF S!Active, S!ItemOf
<1>. QED
  BY <1>1, <1>2, <1>3, <1>5

\* The arguments of a call.
LEMMA ToolArgumentsFollows ==
    ASSUME NEW s, NEW o, Follows(s, o), NEW r, SameCalls(o, r), NEW e, e.key \in Keys,
           e.valid = TRUE, e.bytes \in Nat, Started(o, e.key), ~Completed(o, e.key),
           NEW t \in S!toolCallArgumentsLocked(s, e)
    PROVE  Stops(t) \/ Follows(t, r)
<1>. DEFINE key == e.key
            n == e.bytes
            i == S!At(s, key)
            c == S!Charge(s, n)
            y == [c EXCEPT !.itemOrder[i].bytes = @ + n, !.outputBytes = @ + n]
            b == c.itemOrder[i].bytes + n
<1>1. Open(s) /\ Tracks(s.itemOrder, s.wire, o) /\ key \in S!Keys
  BY SessionKeys DEF Follows
<1>2. S!Active(s, key) /\ i \in 1..Len(s.itemOrder)
  BY CallActive
<1>3. Open(c) /\ c.itemOrder = s.itemOrder /\ c.wire = s.wire
  BY <1>1, ChargeOpen
<1>4. t = s \/ t \in S!limitLocked(s) \/ t \in S!Emit(y, "delta", key)
  BY <1>2 DEF S!toolCallArgumentsLocked
<1>. HIDE DEF i, c, key
<1>5. /\ c \in Client /\ b \in Int /\ c.aggregateBytes \in Int /\ c.outputBytes + n \in Int
      /\ c.textBytes \in Int
  <2>1. c \in Client
    BY <1>3 DEF Open
  <2>2. c.itemOrder[i] \in ClientItem
    BY <1>2, <1>3, <2>1, ClientFields
  <2>3. b \in Int
    <3>1. c.itemOrder[i].bytes \in Int
      BY <2>2 DEF ClientItem
    <3>. QED
      BY <3>1
  <2>4. c.outputBytes \in Int /\ c.textBytes \in Int /\ c.aggregateBytes \in Int
    BY <2>1, ClientFields
  <2>. QED
    BY <2>1, <2>3, <2>4
<1>6. y = PutBytes(c, i, b, c.aggregateBytes, c.outputBytes + n, c.textBytes)
  BY <1>5 DEF PutBytes, PutItem, Client
<1>. HIDE DEF y, b
<1>7. CASE t = s
  BY <1>7, SameFollows
<1>8. CASE t \in S!limitLocked(s)
  BY <1>1, <1>8, LimitStops
<1>9. CASE t \in S!Emit(y, "delta", key)
  <2>1. \/ Stops(t)
        \/ Open(t) /\ Resembles(t.itemOrder, c.itemOrder) /\ SameClosed(c.wire, t.wire)
    BY <1>1, <1>2, <1>3, <1>5, <1>6, <1>9, DeltaOpen
  <2>. QED
    BY <1>1, <1>3, <2>1, TracksSame DEF Follows
<1>. QED
  BY <1>4, <1>7, <1>8, <1>9

\* The arguments of a completion replace those the item holds.
WithBytes(c, i, e, held) ==
    IF e.bytes = 0 THEN c
    ELSE [c EXCEPT !.itemOrder[i].bytes = e.bytes, !.outputBytes = @ + e.bytes - held]

LEMMA BytesReplaced ==
    ASSUME NEW c, Open(c), NEW i \in 1..Len(c.itemOrder), NEW e, e.bytes \in Nat, NEW held \in Int,
           NEW t, t = WithBytes(c, i, e, held)
    PROVE  Open(t) /\ t.wire = c.wire /\ Resembles(t.itemOrder, c.itemOrder)
<1>1. /\ c \in Client /\ c.itemOrder \in Seq(ClientItem) /\ c.aggregateBytes \in Int
      /\ c.outputBytes \in Int /\ c.textBytes \in Int
  BY ClientFields DEF Open
<1>2. CASE e.bytes = 0
  BY <1>1, <1>2 DEF WithBytes, Resembles
<1>3. CASE e.bytes # 0
  <2>. DEFINE o == c.outputBytes + e.bytes - held
              b == e.bytes
  <2>1. o \in Int /\ b \in Int
    BY <1>1
  <2>2. t = [c EXCEPT !.itemOrder[i].bytes = b, !.outputBytes = o]
    BY <1>3 DEF WithBytes
  <2>3. t = PutBytes(c, i, b, c.aggregateBytes, o, c.textBytes)
    <3>. HIDE DEF o, b
    <3>. QED
      BY <1>1, <2>2 DEF PutBytes, PutItem, Client
  <2>. HIDE DEF o, b
  <2>4. c.aggregateBytes \in Int /\ c.textBytes \in Int
    BY <1>1
  <2>5. Open(c) /\ i \in 1..Len(c.itemOrder)
    OBVIOUS
  <2>. QED
    BY ONLY <2>1, <2>3, <2>4, <2>5, BytesOpen
<1>. QED
  BY <1>2, <1>3

\* A name that is there stays.
OrName(d, i, x) == [d EXCEPT !.itemOrder[i].named = @ \/ x]

LEMMA NameAgain ==
    ASSUME NEW d, NEW i, d.itemOrder[i].named = TRUE, NEW x,
           NEW t, t = OrName(d, i, x)
    PROVE  t = WithName(d, i)
<1>1. (d.itemOrder[i].named \/ x) = TRUE
  OBVIOUS
<1>2. t = [d EXCEPT !.itemOrder = [d.itemOrder EXCEPT ![i] =
             [d.itemOrder[i] EXCEPT !.named = (d.itemOrder[i].named \/ x)]]]
  BY DEF OrName
<1>3. t = [d EXCEPT !.itemOrder = [d.itemOrder EXCEPT ![i] = [d.itemOrder[i] EXCEPT !.named = TRUE]]]
  BY <1>1, <1>2, Zenon
<1>. QED
  BY <1>3 DEF WithName

LEMMA NameOpenAgain ==
    ASSUME NEW d, Open(d), NEW i \in 1..Len(d.itemOrder), d.itemOrder[i].named = TRUE,
           NEW t, t = WithName(d, i)
    PROVE  Open(t) /\ t.wire = d.wire /\ Resembles(t.itemOrder, d.itemOrder)
<1>1. PICK item \in ClientItem :
         /\ Open(t) /\ t.wire = d.wire /\ ReplacedBy(t.itemOrder, d.itemOrder, i, item)
         /\ item.key = d.itemOrder[i].key /\ item.named = TRUE
         /\ item.itemDone = d.itemOrder[i].itemDone
  BY NameOpen
<1>. QED
  BY <1>1, ReplacedResembles

\* What toolCallCompletedLocked leaves before it finishes the item.
Filled(s, e) ==
    LET i == S!At(s, e.key)
        d == WithBytes(S!Charge(s, e.meta + e.bytes), i, e, s.itemOrder[i].bytes)
    IN OrName(d, i, e.named)

LEMMA FilledOpen ==
    ASSUME NEW s, Open(s), NEW e, e.bytes \in Nat, e.meta \in Nat, NEW i \in 1..Len(s.itemOrder),
           i = S!At(s, e.key), s.itemOrder[i].named = TRUE, NEW f, f = Filled(s, e)
    PROVE  /\ Open(f) /\ f.wire = s.wire /\ Resembles(f.itemOrder, s.itemOrder)
           /\ f.itemOrder[i].named = TRUE
<1>. DEFINE n == e.meta + e.bytes
            held == s.itemOrder[i].bytes
            c == S!Charge(s, n)
            d == WithBytes(c, i, e, held)
<1>1. n \in Int /\ held \in Int
  <2>1. s.itemOrder[i] \in ClientItem
    BY ClientFields DEF Open
  <2>2. held \in Int
    BY <2>1 DEF ClientItem
  <2>. QED
    BY <2>2
<1>2. f = OrName(d, i, e.named)
  BY DEF Filled
<1>. HIDE DEF n, held
<1>3. Open(c) /\ c.itemOrder = s.itemOrder /\ c.wire = s.wire
  BY <1>1, ChargeOpen, ZenonT(60)
<1>. HIDE DEF c
<1>4. Open(d) /\ d.wire = c.wire /\ Resembles(d.itemOrder, c.itemOrder)
  <2>1. i \in 1..Len(c.itemOrder)
    BY <1>3
  <2>. QED
    BY <1>1, <1>3, <2>1, BytesReplaced
<1>. HIDE DEF d
<1>5. i \in 1..Len(d.itemOrder) /\ d.itemOrder[i].named = TRUE
  BY <1>3, <1>4 DEF Resembles
<1>6. f = WithName(d, i)
  BY <1>2, <1>5, NameAgain
<1>7. Open(f) /\ f.wire = d.wire /\ Resembles(f.itemOrder, d.itemOrder)
  BY <1>4, <1>5, <1>6, NameOpenAgain
<1>8. f.itemOrder[i].named = TRUE /\ Resembles(f.itemOrder, s.itemOrder)
  BY <1>3, <1>4, <1>5, <1>7 DEF Resembles
<1>. QED
  BY <1>3, <1>4, <1>7, <1>8

\* The completion of a call.
LEMMA ToolCompletedFollows ==
    ASSUME NEW s, NEW o, Follows(s, o), NEW e, e.key \in Keys,
           e.valid = TRUE, e.sameID = TRUE, e.bytes \in Nat, e.meta \in Nat,
           Started(o, e.key), ~Completed(o, e.key), NEW r,
           \A k \in Keys : /\ Started(r, k) <=> Started(o, k)
                           /\ Completed(r, k) <=> Completed(o, k) \/ k = e.key,
           NEW t \in S!toolCallCompletedLocked(s, e)
    PROVE  Stops(t) \/ Follows(t, r)
<1>. DEFINE i == S!At(s, e.key)
            f == Filled(s, e)
<1>1. Open(s) /\ Tracks(s.itemOrder, s.wire, o)
  BY DEF Follows
<1>2. /\ S!Active(s, e.key) /\ i \in 1..Len(s.itemOrder) /\ s.itemOrder[i].key = e.key
      /\ s.itemOrder[i].named = TRUE
  BY CallActive
<1>3. \/ t \in S!limitLocked(s)
      \/ t \in IF f.itemOrder[i].named THEN S!finishToolItemLocked(f, i) ELSE S!invalidTransitionLocked(f)
  BY <1>2 DEF S!toolCallCompletedLocked, Filled, WithBytes, OrName
<1>. HIDE DEF i, f
<1>4. /\ Open(f) /\ f.wire = s.wire /\ Resembles(f.itemOrder, s.itemOrder)
      /\ f.itemOrder[i].named = TRUE
  BY <1>1, <1>2, FilledOpen DEF i, f
<1>5. CASE t \in S!limitLocked(s)
  BY <1>1, <1>5, LimitStops
<1>6. CASE t \notin S!limitLocked(s)
  <2>1. t \in S!finishToolItemLocked(f, i)
    BY <1>3, <1>4, <1>6
  <2>2. i \in 1..Len(f.itemOrder) /\ f.itemOrder[i].key = e.key
    BY <1>2, <1>4 DEF Resembles
  <2>3. \/ Broken(t)
        \/ /\ Open(t) /\ CallDone(t.itemOrder, f.itemOrder, i)
           /\ ClosesAlso(t.wire, f.wire, f.itemOrder[i].key)
    <3>1. \/ Broken(t)
          \/ /\ Open(t)
             /\ \E item \in ClientItem :
                   /\ ReplacedBy(t.itemOrder, f.itemOrder, i, item)
                   /\ item.key = f.itemOrder[i].key /\ item.named = f.itemOrder[i].named
                   /\ item.itemDone = TRUE
             /\ \A k \in Keys : Closed(t.wire, k) <=> Closed(f.wire, k) \/ k = f.itemOrder[i].key
      BY <1>4, <2>1, <2>2, FinishToolOpen
    <3>. QED
      BY <3>1 DEF CallDone, ClosesAlso
  <2>4. Tracks(f.itemOrder, f.wire, o)
    <3>1. SameClosed(s.wire, f.wire) /\ SameCalls(o, o)
      BY <1>4 DEF SameClosed, SameCalls
    <3>. QED
      BY <1>1, <1>4, <3>1, TracksSame
  <2>5. CASE Broken(t)
    BY <2>5, BrokenStops
  <2>6. CASE /\ Open(t) /\ CallDone(t.itemOrder, f.itemOrder, i)
             /\ ClosesAlso(t.wire, f.wire, f.itemOrder[i].key)
    <3>1. CompletesAlso(r, o, f.itemOrder[i].key)
      BY <2>2 DEF CompletesAlso
    <3>2. f.itemOrder[i].key \in Keys
      BY <2>2
    <3>3. Tracks(t.itemOrder, t.wire, r)
      BY <2>2, <2>4, <2>6, <3>1, <3>2, TracksDone
    <3>. QED
      BY <2>6, <3>3 DEF Follows
  <2>. QED
    BY <2>3, <2>5, <2>6
<1>. QED
  BY <1>5, <1>6

-----------------------------------------------------------------------------
(* The next event of the decoder.                                          *)

\* Start announces the response, or fails to write.
LEMMA StartOpen ==
    ASSUME session = S!NewStreamSession, S!Start
    PROVE  Stops(session') \/ Follows(session', << >>)
<1>. DEFINE n == S!NewStreamSession
            s == [n EXCEPT !.started = TRUE]
<1>1. session' \in S!startLocked(n)
  <2>1. [session EXCEPT !.err = "nil"] = n /\ ~S!Ended(n) /\ ~n.started
    BY DEF S!NewStreamSession, S!Ended
  <2>. HIDE DEF n
  <2>. QED
    BY <2>1 DEF S!Start
<1>2. Open(s) /\ s.itemOrder = << >> /\ s.wire = << >>
  <2>1. << >> \in Seq(ClientItem) /\ << >> \in Seq(WireEvent) /\ "nil" \in S!Errors
    BY DEF S!Errors
  <2>2. s \in Client
    <3>1. n \in Client
      BY <2>1 DEF S!NewStreamSession, Client
    <3>. HIDE DEF n
    <3>. QED
      BY <3>1 DEF Client
  <2>3. /\ s.started = TRUE /\ s.TerminalEmitted = FALSE /\ s.writeFailure = FALSE
        /\ s.itemOrder = << >> /\ s.wire = << >> /\ s.err = "nil"
    BY DEF S!NewStreamSession
  <2>4. NoEnd(<< >>)
    BY DEF NoEnd
  <2>. HIDE DEF s
  <2>. QED
    BY <2>2, <2>3, <2>4 DEF Open
<1>3. PICK x \in S!Emit(s, "created", << >>) :
         IF x.err = "nil" THEN session' \in S!Emit(x, "in_progress", << >>) ELSE session' = x
  BY <1>1 DEF S!startLocked, S!Then
<1>. HIDE DEF s
<1>4. \/ Broken(x)
      \/ /\ Open(x) /\ x.itemOrder = << >>
         /\ x.wire = Append(<< >>, [type |-> "created", key |-> << >>])
  <2>1. /\ "created" \in S!WireTypes /\ "created" # "completed" /\ << >> \in S!Keys \cup {<< >>}
    BY WireTypesAre, SessionKeys
  <2>. QED
    BY <1>2, <1>3, <2>1, EmitOpen
<1>5. CASE Broken(x)
  BY <1>3, <1>5, BrokenStops DEF Broken
<1>6. CASE ~Broken(x)
  <2>1. session' \in S!Emit(x, "in_progress", << >>)
    BY <1>3, <1>4, <1>6 DEF Open
  <2>2. \/ Broken(session')
        \/ /\ Open(session') /\ session'.itemOrder = x.itemOrder
           /\ session'.wire = Append(x.wire, [type |-> "in_progress", key |-> << >>])
    <3>1. /\ "in_progress" \in S!WireTypes /\ "in_progress" # "completed"
          /\ << >> \in S!Keys \cup {<< >>}
      BY WireTypesAre, SessionKeys
    <3>. QED
      BY <1>4, <1>6, <2>1, <3>1, EmitOpen
  <2>3. CASE Broken(session')
    BY <2>3, BrokenStops
  <2>4. CASE ~Broken(session')
    <3>1. << >> \in Seq(WireEvent) /\ x.wire \in Seq(WireEvent)
      BY <1>4, <1>6, ClientFields DEF Open
    <3>2. SameClosed(<< >>, x.wire) /\ SameClosed(x.wire, session'.wire)
      <4>1. /\ "created" \in S!WireTypes /\ "created" # "item.done" /\ << >> \in S!Keys \cup {<< >>}
            /\ "in_progress" \in S!WireTypes /\ "in_progress" # "item.done"
        BY WireTypesAre, SessionKeys
      <4>2. SameClosed(<< >>, x.wire)
        BY <1>4, <1>6, <3>1, <4>1, EmitCloses
      <4>3. SameClosed(x.wire, session'.wire)
        BY <2>2, <2>4, <3>1, <4>1, EmitCloses
      <4>. QED
        BY <4>2, <4>3
    <3>3. \A key \in Keys : ~Closed(session'.wire, key)
      <4>1. \A key : ~Closed(<< >>, key)
        BY DEF Closed, ToSet
      <4>. QED
        BY <3>2, <4>1 DEF SameClosed
    <3>4. Len(<< >>) = 0 /\ 1..0 = {}
      OBVIOUS
    <3>5. \A key : ~Started(<< >>, key) /\ ~Completed(<< >>, key)
      BY <3>4 DEF Started, Completed
    <3>6. session'.itemOrder = << >>
      BY <1>4, <1>6, <2>2, <2>4
    <3>7. Tracks(<< >>, session'.wire, << >>)
      BY <3>3, <3>4, <3>5 DEF Tracks
    <3>. QED
      BY <2>2, <2>4, <3>6, <3>7 DEF Follows
  <2>. QED
    BY <2>3, <2>4
<1>. QED
  BY <1>5, <1>6

\* What the events o that were returned say about the next one, e, when x is the decoder.
Due(o, e, x) ==
    /\ e \in EventRecord
    /\ e.type \in ToolEvents => ToolEvent(x.calls, e)
    /\ e.type \notin ToolEvents => e.callID = << >>
    /\ e.type = "text" => e.key \in {<<c>> : c \in ChoiceIndexes}
    /\ \A i \in 1..Len(o) : o[i].type \in ToolEvents => ToolEvent(x.calls, o[i])
    /\ e.type \in ToolEvents => ~Completed(o, e.key)
    /\ e.type \in ToolEvents => (Started(o, e.key) <=> e.type # "tool_started")
    /\ e.type = "completed" /\ DOMAIN x.calls # {} =>
          HasPendingTurn(x) /\ \A key \in DOMAIN x.calls : Started(o, key) /\ Completed(o, key)

\* The next event of a whole turn.
LEMMA WholeDue ==
    ASSUME NEW o, NEW e, NEW p, Len(o) \in Nat, Len(o) + 1 \in 1..Len(p), p[Len(o) + 1] = e,
           \A i \in 1..Len(o) : i \in 1..Len(p) /\ p[i] = o[i],
           NEW x, Whole(p, x), e.type \in ToolEvents
    PROVE  /\ ToolEvent(x.calls, e) /\ ~Completed(o, e.key)
           /\ Started(o, e.key) <=> e.type # "tool_started"
<1>. DEFINE n == Len(o) + 1
            key == e.key
<1>1. n \in 1..Len(p) /\ p[n] = e /\ \A i \in 1..Len(o) : i < n
  OBVIOUS
<1>2. ToolEvent(x.calls, e) /\ key \in DOMAIN x.calls
  BY <1>1 DEF Whole, ToolEvent
<1>3. ASSUME NEW i \in 1..Len(p), i < n
      PROVE  i \in 1..Len(o) /\ p[i] = o[i]
  BY <1>3
<1>4. e.type \in {"tool_started", "tool_arguments", "tool_completed"}
  BY DEF ToolEvents
<1>. HIDE DEF n
<1>5. PICK i \in 1..Len(p) : p[i].type = "tool_started" /\ p[i].key = key
  BY <1>2 DEF Whole, EveryCall
<1>6. OnceEach(p) /\ StartsFirst(p) /\ ArgumentsInside(p)
  BY DEF Whole
<1>7. ~Completed(o, key)
  <2>1. SUFFICES ASSUME NEW j \in 1..Len(o), o[j].type = "tool_completed", o[j].key = key
                 PROVE  FALSE
    BY DEF Completed
  <2>2. j \in 1..Len(p) /\ p[j].type = "tool_completed" /\ p[j].key = key /\ j < n /\ ~(n < j) /\ n # j
    BY <1>1, <2>1
  <2>3. CASE e.type = "tool_started"
    BY <1>1, <1>6, <2>2, <2>3 DEF StartsFirst
  <2>4. CASE e.type = "tool_arguments"
    BY <1>1, <1>6, <2>2, <2>4 DEF ArgumentsInside
  <2>5. CASE e.type = "tool_completed"
    BY <1>1, <1>6, <2>2, <2>5 DEF OnceEach
  <2>. QED
    BY <1>4, <2>3, <2>4, <2>5
<1>8. CASE e.type = "tool_started"
  <2>1. SUFFICES ASSUME NEW j \in 1..Len(o), o[j].type = "tool_started", o[j].key = key
                 PROVE  FALSE
    BY <1>2, <1>7, <1>8 DEF Started
  <2>2. j \in 1..Len(p) /\ p[j].type = "tool_started" /\ p[j].key = key /\ n # j
    BY <1>1, <2>1
  <2>. QED
    BY <1>1, <1>6, <1>8, <2>2 DEF OnceEach
<1>9. CASE e.type = "tool_arguments"
  <2>1. PICK j \in 1..Len(p) : j < n /\ p[j].type = "tool_started" /\ p[j].key = key
    BY <1>1, <1>6, <1>9 DEF ArgumentsInside
  <2>2. Started(o, key)
    BY <1>3, <2>1 DEF Started
  <2>. QED
    BY <1>2, <1>7, <1>9, <2>2
<1>10. CASE e.type = "tool_completed"
  <2>1. i < n
    BY <1>1, <1>5, <1>6, <1>10 DEF StartsFirst
  <2>2. Started(o, key)
    BY <1>3, <1>5, <2>1 DEF Started
  <2>. QED
    BY <1>2, <1>7, <1>10, <2>2
<1>. QED
  BY <1>4, <1>8, <1>9, <1>10

\* What is queued first is due.
LEMMA PendingDue ==
    ASSUME DecoderInv, decoder.pending # << >>
    PROVE  Due(out, Head(decoder.pending), decoder)
<1>. DEFINE p == Events
            e == Head(decoder.pending)
            n == Len(out) + 1
<1>1. /\ out \in Seq(EventRecord) /\ decoder.pending \in Seq(EventRecord) /\ e \in EventRecord
      /\ Len(out) \in Nat
  <2>1. out \in Seq(EventRecord) /\ decoder.pending \in Seq(EventRecord)
    BY DEF DecoderInv, Decoder, DecoderWith
  <2>. QED
    BY <2>1, HeadTailProperties
<1>2. Joined(out, decoder.pending, p)
  BY <1>1, ConcatJoins DEF Events
<1>3. 1 \in 1..Len(decoder.pending) /\ decoder.pending[1] = e
  BY <1>1
<1>. HIDE DEF p, e
<1>4. n \in 1..Len(p) /\ p[n] = e /\ \A i \in 1..Len(out) : i \in 1..Len(p) /\ p[i] = out[i]
  BY <1>2, <1>3 DEF Joined
<1>5. \A i \in 1..Len(out) : i < n /\ i # n
  BY <1>1
<1>6. \A i \in 1..Len(p) : i # Len(p) => i < Len(p)
  BY <1>4
<1>. HIDE DEF n
<1>7. CASE ~decoder.terminal
  <2>1. QuietEvents(p)
    BY <1>7 DEF DecoderInv, p
  <2>2. Quiet(e) /\ \A i \in 1..Len(out) : Quiet(out[i])
    BY <1>4, <2>1 DEF QuietEvents
  <2>3. e.type \notin ToolEvents /\ e.type # "completed"
    BY <2>2, QuietKinds, Zenon DEF Quiet
  <2>4. \A i \in 1..Len(out) : out[i].type \notin ToolEvents
    BY <2>2, QuietKinds DEF Quiet
  <2>5. e.callID = << >> /\ (e.type = "text" => e.key \in {<<c>> : c \in ChoiceIndexes})
    BY <2>2 DEF Quiet
  <2>. QED
    BY <1>1, <2>3, <2>4, <2>5 DEF Due, e
<1>8. CASE decoder.terminal
  <2>1. Final(p, decoder)
    BY <1>8 DEF DecoderInv, p
  <2>2. \A i \in 1..Len(p) : TerminalEvent(p[i]) \/ Quiet(p[i]) \/ ToolEvent(decoder.calls, p[i])
    BY <2>1 DEF Final
  <2>3. TerminalEvent(e) \/ Quiet(e) \/ ToolEvent(decoder.calls, e)
    BY <1>4, <2>2
  <2>4. \A i \in 1..Len(p) : p[i].type \in ToolEvents => ToolEvent(decoder.calls, p[i])
    BY <2>2, QuietKinds, EventKinds DEF TerminalEvent, Quiet
  <2>5. e.type \notin ToolEvents => TerminalEvent(e) \/ Quiet(e)
    BY <2>3 DEF ToolEvent
  <2>6. "text" \notin Terminals
    BY DEF Terminals
  <2>7. e.type \notin ToolEvents => e.callID = << >>
    BY <2>5 DEF TerminalEvent, Quiet
  <2>8. e.type = "text" => e.key \in {<<c>> : c \in ChoiceIndexes}
    <3>1. "text" \notin ToolEvents
      BY DEF ToolEvents
    <3>. QED
      BY <2>5, <2>6, <3>1 DEF TerminalEvent, Quiet
  <2>9. e.type \in ToolEvents =>
           /\ ToolEvent(decoder.calls, e) /\ ~Completed(out, e.key)
           /\ Started(out, e.key) <=> e.type # "tool_started"
    <3>1. SUFFICES ASSUME e.type \in ToolEvents
                   PROVE  /\ ToolEvent(decoder.calls, e) /\ ~Completed(out, e.key)
                          /\ Started(out, e.key) <=> e.type # "tool_started"
      OBVIOUS
    <3>2. Whole(p, decoder)
      BY <1>4, <2>1, <3>1 DEF Final, WholeIfTold
    <3>. QED
      BY <1>1, <1>4, <3>1, <3>2, WholeDue DEF n
  <2>10. e.type = "completed" /\ DOMAIN decoder.calls # {} =>
           /\ HasPendingTurn(decoder)
           /\ \A key \in DOMAIN decoder.calls : Started(out, key) /\ Completed(out, key)
    <3>1. SUFFICES ASSUME e.type = "completed", DOMAIN decoder.calls # {}
                   PROVE  /\ HasPendingTurn(decoder)
                          /\ \A key \in DOMAIN decoder.calls : Started(out, key) /\ Completed(out, key)
      OBVIOUS
    <3>2. n = Len(p)
      BY <1>4, <2>1, <3>1, EventKinds DEF Final
    <3>3. Whole(p, decoder)
      BY <1>4, <2>1, <3>1, <3>2 DEF Final, WholeIfTold
    <3>4. ASSUME NEW i \in 1..Len(p), p[i].type # "completed"
          PROVE  i \in 1..Len(out) /\ out[i] = p[i]
      <4>1. i # n
        BY <1>4, <3>1, <3>4
      <4>2. i \in 1..Len(out)
        BY <1>1, <3>2, <4>1 DEF n
      <4>. QED
        BY <1>4, <4>2
    <3>5. ASSUME NEW key \in DOMAIN decoder.calls
          PROVE  Started(out, key) /\ Completed(out, key)
      <4>1. PICK i \in 1..Len(p) : p[i].type = "tool_started" /\ p[i].key = key
        BY <3>3 DEF Whole, EveryCall
      <4>2. PICK j \in 1..Len(p) : p[j].type = "tool_completed" /\ p[j].key = key
        BY <3>3 DEF Whole, EveryCall
      <4>3. i \in 1..Len(out) /\ out[i] = p[i] /\ j \in 1..Len(out) /\ out[j] = p[j]
        BY <3>4, <4>1, <4>2, EventKinds
      <4>. QED
        BY <4>1, <4>2, <4>3 DEF Started, Completed
    <3>. QED
      BY <3>3, <3>5 DEF Whole
  <2>11. \A i \in 1..Len(out) : out[i].type \in ToolEvents => ToolEvent(decoder.calls, out[i])
    BY <1>4, <2>4
  <2>. QED
    BY <1>1, <2>7, <2>8, <2>9, <2>10, <2>11 DEF Due, e
<1>. QED
  BY <1>7, <1>8

\* A decoder that fails returns the failure, which is due.
LEMMA FailedDue ==
    ASSUME NEW o \in Seq(EventRecord), QuietEvents(o), NEW x
    PROVE  Due(o, Plain("failed"), x)
<1>1. /\ Plain("failed") \in EventRecord /\ Plain("failed").type = "failed"
      /\ Plain("failed").callID = << >>
  BY PlainEvent, EventKinds
<1>2. "failed" \notin ToolEvents /\ "failed" # "text" /\ "failed" # "completed"
  BY DEF ToolEvents
<1>3. \A i \in 1..Len(o) : o[i].type \notin ToolEvents
  BY QuietKinds DEF QuietEvents, Quiet
<1>. HIDE DEF Plain
<1>. QED
  BY <1>1, <1>2, <1>3 DEF Due

\* A step of the decoder returns nothing, or an event that is due.
LEMMA NextDue ==
    ASSUME DecoderInv, DecoderNext, out' # out
    PROVE  \E e \in EventRecord :
              /\ out' = Append(out, e) /\ Last(out') = e /\ Due(out, e, decoder)
              /\ e.type \in ToolEvents => decoder'.calls = decoder.calls
<1>1. out \in Seq(EventRecord)
  BY DEF DecoderInv
<1>2. ASSUME NEW e \in EventRecord, out' = Append(out, e)
      PROVE  Last(out') = e
  BY <1>1, <1>2, AppendProperties DEF Last
<1>3. CASE ReturnPending
  <2>. DEFINE e == Head(decoder.pending)
  <2>1. decoder.pending # << >> /\ out' = Append(out, e)
    BY <1>3 DEF ReturnPending
  <2>2. Due(out, e, decoder) /\ decoder'.calls = decoder.calls
    BY <1>3, <2>1, PendingDue, ReturnMoves
  <2>3. e \in EventRecord
    BY <2>2 DEF Due
  <2>. HIDE DEF e
  <2>. QED
    BY <1>2, <2>1, <2>2, <2>3
<1>4. ASSUME Reading, NEW d, Settle(d)
      PROVE  \E e \in EventRecord :
              /\ out' = Append(out, e) /\ Last(out') = e /\ Due(out, e, decoder)
              /\ e.type \in ToolEvents => decoder'.calls = decoder.calls
  <2>1. out' = Append(out, Plain("failed"))
    BY <1>4 DEF Settle
  <2>2. Due(out, Plain("failed"), decoder)
    BY <1>4, ReadingState, FailedDue
  <2>3. Plain("failed") \in EventRecord /\ Plain("failed").type \notin ToolEvents
    BY PlainEvent, EventKinds DEF ToolEvents
  <2>. HIDE DEF Plain
  <2>. QED
    BY <1>2, <2>1, <2>2, <2>3
<1>5. ASSUME NEW l \in Lines, ReadLine(l)
      PROVE  Reading /\ \E d : Settle(d)
  BY <1>5 DEF ReadLine
<1>6. CASE ReadEOF \/ ReadFails
  BY <1>4, <1>6 DEF ReadEOF, ReadFails
<1>. QED
  BY <1>3, <1>4, <1>5, <1>6 DEF DecoderNext

-----------------------------------------------------------------------------
(* The session takes the event.                                            *)

\* An event that is due, as the session reads it: fitting, but for a call ID that
\* holds control characters.
LEMMA EventAsRead ==
    ASSUME DecoderInv, NEW e, Due(out, e, decoder), NEW v, v = SessionEvent(e)
    PROVE  /\ v.kind = KindOf[e.type] /\ v.bytes \in Nat /\ v.meta \in Nat
           /\ e.type = "text" => v.key = e.key
           /\ e.type \in ToolEvents =>
                 /\ v.key = e.key /\ e.key \in Keys /\ e.key \in DOMAIN decoder.calls
                 /\ v.sameID = TRUE /\ v.named = TRUE
           /\ \/ v.valid = TRUE
              \/ /\ e.type \in ToolEvents /\ v.valid = FALSE
                 /\ ToSet(decoder.calls[e.key].callID) \cap Unprintable # {}
<1>. DEFINE tool == e.type \in ToolEvents
            call == decoder.calls[e.key]
            name == IF tool THEN publicName(call.name) ELSE << >>
            same == \A i \in 1..Len(out) :
                       out[i].type = "tool_started" /\ out[i].key = e.key => out[i].callID = e.callID
<1>1. /\ v.kind = KindOf[e.type] /\ v.bytes = e.bytes /\ v.meta = Len(e.callID) + Len(name)
      /\ v.key = (IF tool \/ e.type = "text" THEN e.key ELSE << >>)
      /\ v.valid = validCallID(e.callID) /\ v.sameID = same /\ v.named = (name # << >>)
  BY DEF SessionEvent
<1>2. decoder.calls \in CallMaps /\ Held(decoder)
  BY DEF DecoderInv, Decoder, DecoderWith
<1>3. e.bytes \in Nat
  BY DEF Due, EventRecord
<1>4. CASE tool
  <2>1. /\ e.key \in DOMAIN decoder.calls /\ e.callID = call.callID /\ call.name \in AllowedToolNames
    BY <1>4 DEF Due, ToolEvent
  <2>2. e.key \in Keys
    BY <1>2, <2>1, CallMapsAre
  <2>3. v.meta \in Nat
    BY <1>1, <1>2, <1>4, <2>1, CallCost
  <2>4. name # << >>
    BY <1>4, <2>1, DecoderAssumption, GatewayAssumption DEF publicName
  <2>5. same
    <3>1. ASSUME NEW i \in 1..Len(out), out[i].type = "tool_started", out[i].key = e.key
          PROVE  out[i].callID = e.callID
      <4>1. ToolEvent(decoder.calls, out[i])
        BY <3>1, EventKinds DEF Due
      <4>. QED
        BY <2>1, <3>1, <4>1 DEF ToolEvent
    <3>. QED
      BY <3>1
  <2>6. Len(e.callID) =< StreamValueBytes
    <3>1. CallHeld(call)
      BY <1>2, <2>1 DEF Held, CallsHeld
    <3>2. Len(call.callID) =< MaxProviderCallIDBytes
      BY <3>1 DEF CallHeld
    <3>3. Len(call.callID) \in Nat
      <4>1. call \in Call
        BY <1>2, <2>1, CallMapsAre
      <4>. QED
        BY <4>1, StringFacts DEF Call
    <3>. QED
      BY <2>1, <3>2, <3>3, GatewayAssumption, Bounds
  <2>. HIDE DEF name, same
  <2>7. v.sameID = TRUE /\ v.named = TRUE
    BY <1>1, <2>4, <2>5
  <2>8. v.valid = TRUE \/ (v.valid = FALSE /\ ToSet(call.callID) \cap Unprintable # {})
    BY <1>1, <2>1, <2>6 DEF validCallID
  <2>. QED
    BY <1>1, <1>3, <1>4, <2>1, <2>2, <2>3, <2>7, <2>8
<1>5. CASE ~tool
  <2>1. e.callID = << >> /\ name = << >>
    BY <1>5 DEF Due
  <2>2. Len(<< >>) = 0 /\ 0 + 0 \in Nat /\ 0 =< StreamValueBytes /\ ToSet(<< >>) = {}
    BY GatewayAssumption DEF ToSet
  <2>3. v.meta \in Nat
    BY <1>1, <2>1, <2>2
  <2>4. validCallID(e.callID) = TRUE
    BY <2>1, <2>2 DEF validCallID
  <2>. HIDE DEF name, same
  <2>. QED
    BY <1>1, <1>3, <1>5, <2>3, <2>4
<1>. QED
  BY <1>4, <1>5

\* A session that takes events handles one.
LEMMA HandleTakes ==
    ASSUME Open(session), NEW v, S!Handle(v)
    PROVE  session' \in S!Handled(session, v)
<1>1. [session EXCEPT !.err = "nil"] = session
  BY DEF Open, Client
<1>2. ~S!Ended(session)
  BY DEF Open, S!Ended
<1>. QED
  BY <1>1, <1>2 DEF S!Handle

\* What an event may leave: the two in step, or a response that has ended.
Taken(t, r, e) ==
    \/ Follows(t, r)
    \/ Over(t) /\ t.err \in {"nil", "limit", "write"}
    \/ /\ Over(t) /\ e.type \in ToolEvents
       /\ ToSet(decoder.calls[e.key].callID) \cap Unprintable # {}

\* A call whose identifier the session refuses ends the response.
LEMMA GarbledOver ==
    ASSUME NEW s, Open(s), NEW v, v.valid = FALSE,
           NEW t, \/ t \in S!toolCallStartedLocked(s, v)
                  \/ t \in S!toolCallArgumentsLocked(s, v)
                  \/ t \in S!toolCallCompletedLocked(s, v)
    PROVE  Over(t)
<1>1. t \in S!invalidTransitionLocked(s)
  BY DEF S!toolCallStartedLocked, S!toolCallArgumentsLocked, S!toolCallCompletedLocked
<1>. QED
  BY <1>1, InvalidOver

\* What each kind of event calls.
LEMMA HandlerOf ==
    ASSUME NEW e, NEW s, NEW v, v.kind = KindOf[e.type], NEW t \in S!Handled(s, v)
    PROVE  /\ e.type = "started" => t \in S!responseStartedLocked(s, v)
           /\ e.type = "text" => t \in S!textDeltaLocked(s, v)
           /\ e.type = "reasoning" => t \in S!reasoningDeltaLocked(s, v)
           /\ e.type = "usage" => t \in S!ensureStartedLocked(s)
           /\ e.type = "tool_started" => t \in S!toolCallStartedLocked(s, v)
           /\ e.type = "tool_arguments" => t \in S!toolCallArgumentsLocked(s, v)
           /\ e.type = "tool_completed" => t \in S!toolCallCompletedLocked(s, v)
           /\ e.type = "completed" => t \in S!endLocked(s, "completed")
           /\ e.type = "incomplete" => t \in S!endLocked(s, "incomplete")
           /\ e.type = "failed" => t \in S!endLocked(s, "failed")
<1>1. /\ e.type = "started" => v.kind = "ResponseStarted"
      /\ e.type = "text" => v.kind = "TextDelta"
      /\ e.type = "reasoning" => v.kind = "ReasoningDelta"
      /\ e.type = "usage" => v.kind = "UsageUpdated"
      /\ e.type = "tool_started" => v.kind = "ToolCallStarted"
      /\ e.type = "tool_arguments" => v.kind = "ToolCallArgumentsDelta"
      /\ e.type = "tool_completed" => v.kind = "ToolCallCompleted"
      /\ e.type = "completed" => v.kind = "Completed"
      /\ e.type = "incomplete" => v.kind = "Incomplete"
      /\ e.type = "failed" => v.kind = "Failed"
  BY DEF KindOf
<1>. QED
  BY <1>1 DEF S!Handled

\* Any event but the completion.
LEMMA EventTaken ==
    ASSUME DecoderInv, NEW e, Due(out, e, decoder), e.type # "completed", NEW s, Follows(s, out),
           NEW v, v = SessionEvent(e), NEW t \in S!Handled(s, v), NEW r, r = Append(out, e)
    PROVE  Taken(t, r, e)
<1>1. /\ v.kind = KindOf[e.type] /\ v.bytes \in Nat /\ v.meta \in Nat
      /\ e.type = "text" => v.key = e.key
      /\ e.type \in ToolEvents =>
            /\ v.key = e.key /\ e.key \in Keys /\ e.key \in DOMAIN decoder.calls
            /\ v.sameID = TRUE /\ v.named = TRUE
      /\ \/ v.valid = TRUE
         \/ /\ e.type \in ToolEvents /\ v.valid = FALSE
            /\ ToSet(decoder.calls[e.key].callID) \cap Unprintable # {}
  BY EventAsRead
<1>2. \A key : /\ Started(r, key) <=> Started(out, key) \/ (e.type = "tool_started" /\ e.key = key)
               /\ Completed(r, key) <=> Completed(out, key) \/ (e.type = "tool_completed" /\ e.key = key)
  <2>1. out \in Seq(EventRecord) /\ e \in EventRecord
    BY DEF DecoderInv, Due
  <2>. QED
    BY <2>1, EventsGrow
<1>3. /\ "tool_started" \in ToolEvents /\ "tool_arguments" \in ToolEvents
      /\ "tool_completed" \in ToolEvents
      /\ \A type \in {"started", "text", "reasoning", "usage", "incomplete", "failed"} :
            type \notin ToolEvents
  BY DEF ToolEvents
<1>4. Open(s) /\ s.started = TRUE
  BY DEF Follows, Open
<1>5. ASSUME e.type \notin {"tool_started", "tool_completed"}
      PROVE  SameCalls(out, r)
  BY <1>2, <1>5 DEF SameCalls
<1>6. ASSUME Stops(t) \/ Follows(t, r)
      PROVE  Taken(t, r, e)
  BY <1>6 DEF Stops, Taken
<1>7. CASE e.type \in {"started", "usage"}
  <2>1. t = s
    BY <1>1, <1>4, <1>7, HandlerOf DEF S!responseStartedLocked, S!ensureStartedLocked
  <2>2. Follows(s, r)
    BY <1>5, <1>7, SameFollows
  <2>. QED
    BY <2>1, <2>2 DEF Taken
<1>8. CASE e.type = "text"
  <2>1. t \in S!textDeltaLocked(s, v)
    BY <1>1, <1>8, HandlerOf
  <2>2. v.key \in {<<c>> : c \in ChoiceIndexes}
    BY <1>1, <1>8 DEF Due
  <2>3. v.valid = TRUE
    BY <1>1, <1>3, <1>8
  <2>. QED
    BY <1>1, <1>5, <1>6, <1>8, <2>1, <2>2, <2>3, TextFollows
<1>9. CASE e.type = "reasoning"
  <2>1. t \in S!reasoningDeltaLocked(s, v)
    BY <1>1, <1>9, HandlerOf
  <2>2. v.valid = TRUE
    BY <1>1, <1>3, <1>9
  <2>. QED
    BY <1>1, <1>5, <1>6, <1>9, <2>1, <2>2, ReasoningFollows
<1>10. CASE e.type \in {"incomplete", "failed"}
  <2>1. t \in S!endLocked(s, e.type)
    BY <1>1, <1>10, HandlerOf
  <2>2. Over(t) /\ t.err \in {"nil", "write"}
    BY <1>4, <1>10, <2>1, EndOver
  <2>. QED
    BY <2>2 DEF Taken
<1>11. CASE e.type \in ToolEvents /\ v.valid = FALSE
  <2>1. \/ t \in S!toolCallStartedLocked(s, v)
        \/ t \in S!toolCallArgumentsLocked(s, v)
        \/ t \in S!toolCallCompletedLocked(s, v)
    BY <1>1, <1>11, HandlerOf DEF ToolEvents
  <2>2. Over(t)
    BY <1>4, <1>11, <2>1, GarbledOver
  <2>. QED
    BY <1>1, <1>11, <2>2 DEF Taken
<1>12. CASE e.type = "tool_started" /\ v.valid = TRUE
  <2>1. t \in S!toolCallStartedLocked(s, v)
    BY <1>1, <1>12, HandlerOf
  <2>2. ~Started(out, v.key) /\ ~Completed(out, v.key) /\ v.key \in Keys /\ v.named = TRUE
    BY <1>1, <1>3, <1>12 DEF Due
  <2>3. \A k \in Keys : /\ Started(r, k) <=> Started(out, k) \/ k = v.key
                        /\ Completed(r, k) <=> Completed(out, k)
    BY <1>1, <1>2, <1>3, <1>12
  <2>4. Stops(t) \/ Follows(t, r)
    BY <1>1, <1>12, <2>1, <2>2, <2>3, ToolStartedFollows
  <2>. QED
    BY <1>6, <2>4
<1>13. CASE e.type = "tool_arguments" /\ v.valid = TRUE
  <2>1. t \in S!toolCallArgumentsLocked(s, v)
    BY <1>1, <1>13, HandlerOf
  <2>2. Started(out, v.key) /\ ~Completed(out, v.key) /\ v.key \in Keys
    BY <1>1, <1>3, <1>13 DEF Due
  <2>3. SameCalls(out, r)
    BY <1>5, <1>13
  <2>4. Stops(t) \/ Follows(t, r)
    BY <1>1, <1>13, <2>1, <2>2, <2>3, ToolArgumentsFollows
  <2>. QED
    BY <1>6, <2>4
<1>14. CASE e.type = "tool_completed" /\ v.valid = TRUE
  <2>1. t \in S!toolCallCompletedLocked(s, v)
    BY <1>1, <1>14, HandlerOf
  <2>2. Started(out, v.key) /\ ~Completed(out, v.key) /\ v.key \in Keys /\ v.sameID = TRUE
    BY <1>1, <1>3, <1>14 DEF Due
  <2>3. \A k \in Keys : /\ Started(r, k) <=> Started(out, k)
                        /\ Completed(r, k) <=> Completed(out, k) \/ k = v.key
    BY <1>1, <1>2, <1>3, <1>14
  <2>4. Stops(t) \/ Follows(t, r)
    BY <1>1, <1>14, <2>1, <2>2, <2>3, ToolCompletedFollows
  <2>. QED
    BY <1>6, <2>4
<1>15. /\ e.type \in {"started", "text", "reasoning", "usage", "incomplete", "failed"}
          \/ e.type \in {"tool_started", "tool_arguments", "tool_completed"}
       /\ ToolEvents = {"tool_started", "tool_arguments", "tool_completed"}
  BY DEF Due, EventRecord, EventTypes, ToolEvents, Terminals
<1>. QED
  BY <1>1, <1>7, <1>8, <1>9, <1>10, <1>11, <1>12, <1>13, <1>14, <1>15

\* The completion: every item of a call is done, and closed, when it comes.
LEMMA CompletionTaken ==
    ASSUME DecoderInv, NEW e, Due(out, e, decoder), e.type = "completed", NEW s, Follows(s, out),
           NEW v, v = SessionEvent(e), NEW t \in S!Handled(s, v)
    PROVE  /\ Finished(s, t)
           /\ \A key \in Keys : Closed(s.wire, key) <=> key \in DOMAIN decoder.calls
           /\ DOMAIN decoder.calls \subseteq Keys
<1>1. t \in S!endLocked(s, "completed")
  <2>1. v.kind = KindOf[e.type]
    BY EventAsRead
  <2>. QED
    BY <2>1, HandlerOf
<1>2. Open(s) /\ Tracks(s.itemOrder, s.wire, out)
  BY DEF Follows
<1>3. \A key : Started(out, key) \/ Completed(out, key) => key \in DOMAIN decoder.calls
  <2>1. \A i \in 1..Len(out) : out[i].type \in ToolEvents => out[i].key \in DOMAIN decoder.calls
    BY DEF Due, ToolEvent
  <2>. QED
    BY <2>1, EventKinds DEF Started, Completed
<1>4. \A key \in DOMAIN decoder.calls : Completed(out, key)
  BY DEF Due
<1>5. ToolsDone(s.itemOrder)
  <2>1. SUFFICES ASSUME NEW i \in 1..Len(s.itemOrder), s.itemOrder[i].key \in Keys
                 PROVE  s.itemOrder[i].itemDone = TRUE
    BY DEF ToolsDone
  <2>2. Started(out, s.itemOrder[i].key)
    BY <1>2, <2>1 DEF Tracks
  <2>3. Completed(out, s.itemOrder[i].key)
    BY <1>3, <1>4, <2>2
  <2>. QED
    BY <1>2, <2>1, <2>3 DEF Tracks
<1>6. Finished(s, t)
  BY <1>1, <1>2, <1>5, EndCompletes
<1>7. \A key \in Keys : Closed(s.wire, key) <=> key \in DOMAIN decoder.calls
  <2>1. \A key \in Keys : Closed(s.wire, key) <=> Completed(out, key)
    BY <1>2 DEF Tracks
  <2>. QED
    BY <1>3, <1>4, <2>1
<1>8. DOMAIN decoder.calls \subseteq Keys
  <2>1. decoder.calls \in CallMaps
    BY DEF DecoderInv, Decoder, DecoderWith
  <2>. QED
    BY <2>1, CallMapsAre
<1>. QED
  BY <1>6, <1>7, <1>8

-----------------------------------------------------------------------------
(* The invariant.                                                          *)

\* A response that has ended without a retained turn is as it should be.
LEMMA OverFine ==
    ASSUME Over(session'), saved' = {},
           \/ session'.err \in {"nil", "limit", "write"}
           \/ \E key \in DOMAIN decoder'.calls : ToSet(decoder'.calls[key].callID) \cap Unprintable # {}
    PROVE  session'.started = TRUE /\ Returned' /\ EventsLegal' /\ SavedTurnSeen'
BY DEF Over, Returned, EventsLegal, SavedTurnSeen, NoEnd

\* A response that has completed is as it should be.
LEMMA FinishedFine ==
    ASSUME NEW s, Finished(s, session'), saved' \subseteq Keys,
           \A key \in Keys : Closed(s.wire, key) <=> key \in saved'
    PROVE  session'.started = TRUE /\ Returned' /\ EventsLegal' /\ SavedTurnSeen'
<1>1. session'.started = TRUE /\ Returned' /\ EventsLegal'
  BY DEF Finished, Returned, EventsLegal
<1>2. ClosedTools' = saved'
  <2>1. \A key \in Keys : Closed(session'.wire, key) <=> key \in saved'
    BY DEF Finished, SameClosed
  <2>2. ASSUME NEW key
        PROVE  key \in ClosedTools' <=> key \in Keys /\ Closed(session'.wire, key)
    BY DEF ClosedTools, Closed
  <2>. QED
    BY <2>1, <2>2
<1>3. CASE session'.writeFailure = TRUE /\ NoEnd(session'.wire)
  BY <1>1, <1>2, <1>3 DEF SavedTurnSeen, NoEnd
<1>4. CASE session'.wire # << >> /\ Last(session'.wire).type = "completed"
  BY <1>1, <1>2, <1>4 DEF SavedTurnSeen
<1>. QED
  BY <1>3, <1>4 DEF Finished

\* Init => Inv.
LEMMA GatewayInvInit == GatewayInit => GatewayInv
BY DecoderInvInit DEF GatewayInit, DecoderInit, GatewayInv

\* One event of the loop.
LEMMA DeliverKeeps ==
    ASSUME GatewayInv, Step, out' # out
    PROVE  \/ Follows(session', out') /\ saved' = {}
           \/ session'.started = TRUE /\ Returned' /\ EventsLegal' /\ SavedTurnSeen'
<1>1. DecoderInv /\ DecoderNext /\ Serving
  BY DEF GatewayInv, Step
<1>2. Follows(session, out) /\ Open(session) /\ saved = {}
  BY <1>1 DEF GatewayInv, Serving, S!NewStreamSession, Follows
<1>3. PICK e \in EventRecord :
         /\ out' = Append(out, e) /\ Last(out') = e /\ Due(out, e, decoder)
         /\ e.type \in ToolEvents => decoder'.calls = decoder.calls
  BY <1>1, NextDue
<1>4. Deliver(e)
  BY <1>3 DEF Step
<1>5. CASE e.type = "completed"
  <2>. DEFINE v == SessionEvent(e)
              u == SessionEvent(Plain("failed"))
  <2>1. \/ saved' = DOMAIN decoder.calls /\ S!Handle(v)
        \/ S!Handle(u) /\ saved' = {}
    <3>1. CASE HasPendingTurn(decoder)
      BY <1>2, <1>4, <1>5, <3>1 DEF Deliver, SaveRefused
    <3>2. CASE ~HasPendingTurn(decoder)
      <4>1. DOMAIN decoder.calls = {}
        BY <1>3, <1>5, <3>2 DEF Due
      <4>. QED
        BY <1>2, <1>4, <3>2, <4>1 DEF Deliver
    <3>. QED
      BY <3>1, <3>2
  <2>2. CASE saved' = DOMAIN decoder.calls /\ S!Handle(v)
    <3>1. session' \in S!Handled(session, v)
      BY <1>2, <2>2, HandleTakes
    <3>2. /\ Finished(session, session')
          /\ \A key \in Keys : Closed(session.wire, key) <=> key \in DOMAIN decoder.calls
          /\ DOMAIN decoder.calls \subseteq Keys
      BY <1>1, <1>2, <1>3, <1>5, <3>1, CompletionTaken
    <3>3. saved' \subseteq Keys /\ \A key \in Keys : Closed(session.wire, key) <=> key \in saved'
      BY <2>2, <3>2
    <3>. QED
      BY <3>2, <3>3, FinishedFine
  <2>3. CASE S!Handle(u) /\ saved' = {}
    <3>1. session' \in S!Handled(session, u)
      BY <1>2, <2>3, HandleTakes
    <3>2. u.kind = KindOf[Plain("failed").type] /\ Plain("failed").type = "failed"
      BY DEF SessionEvent, Plain, Event
    <3>3. session' \in S!endLocked(session, "failed")
      <4>. HIDE DEF u, Plain
      <4>. QED
        BY <3>1, <3>2, HandlerOf
    <3>4. Over(session') /\ session'.err \in {"nil", "write"}
      BY <1>2, <3>3, EndOver
    <3>. QED
      BY <2>3, <3>4, OverFine
  <2>. QED
    BY <2>1, <2>2, <2>3
<1>6. CASE e.type # "completed"
  <2>. DEFINE v == SessionEvent(e)
  <2>1. S!Handle(v) /\ saved' = {}
    BY <1>2, <1>4, <1>6 DEF Deliver
  <2>2. session' \in S!Handled(session, v)
    BY <1>2, <2>1, HandleTakes
  <2>3. Taken(session', out', e)
    BY <1>1, <1>2, <1>3, <1>6, <2>2, EventTaken
  <2>4. CASE Follows(session', out')
    BY <2>1, <2>4
  <2>5. CASE Over(session') /\ session'.err \in {"nil", "limit", "write"}
    BY <2>1, <2>5, OverFine
  <2>6. CASE /\ Over(session') /\ e.type \in ToolEvents
             /\ ToSet(decoder.calls[e.key].callID) \cap Unprintable # {}
    <3>1. e.key \in DOMAIN decoder.calls /\ decoder'.calls = decoder.calls
      BY <1>3, <2>6 DEF Due, ToolEvent
    <3>. QED
      BY <2>1, <2>6, <3>1, OverFine
  <2>. QED
    BY <2>3, <2>4, <2>5, <2>6 DEF Taken
<1>. QED
  BY <1>5, <1>6

\* A step of the event loop is a step of the decoder or leaves it alone.
LEMMA GatewayStepDecodes == [GatewayNext]_gatewayVars => [DecoderNext]_decoderVars
BY DEF GatewayNext, StartSession, Step, gatewayVars, decoderVars

\* Inv /\ [Next]_vars => Inv'.
LEMMA GatewayInvNext == GatewayInv /\ [GatewayNext]_gatewayVars => GatewayInv'
<1>. SUFFICES ASSUME GatewayInv, [GatewayNext]_gatewayVars
              PROVE  GatewayInv'
  OBVIOUS
<1>1. DecoderInv'
  BY GatewayStepDecodes, DecoderInvNext DEF GatewayInv
<1>2. CASE StartSession
  <2>1. session = S!NewStreamSession /\ out = << >> /\ saved = {}
    BY <1>2 DEF StartSession, GatewayInv, Follows, Open
  <2>2. Stops(session') \/ Follows(session', << >>)
    BY <1>2, <2>1, StartOpen DEF StartSession
  <2>3. out' = << >> /\ saved' = {}
    BY <1>2, <2>1 DEF StartSession, decoderVars
  <2>4. CASE Stops(session')
    BY <1>1, <2>3, <2>4, OverFine DEF Stops, GatewayInv
  <2>. QED
    BY <1>1, <2>2, <2>3, <2>4 DEF GatewayInv
<1>3. CASE Step /\ out' = out
  <2>1. session' = session /\ saved' = saved /\ Serving
    BY <1>3 DEF Step
  <2>2. Follows(session, out) /\ saved = {}
    BY <2>1 DEF GatewayInv, Serving, S!NewStreamSession
  <2>. QED
    BY <1>1, <1>3, <2>1, <2>2 DEF GatewayInv
<1>4. CASE Step /\ out' # out
  BY <1>1, <1>4, DeliverKeeps DEF GatewayInv
<1>5. CASE UNCHANGED gatewayVars
  BY <1>1, <1>5 DEF gatewayVars, GatewayInv, Returned, EventsLegal, SavedTurnSeen, ClosedTools
<1>. QED
  BY <1>2, <1>3, <1>4, <1>5 DEF GatewayNext

\* The invariant implies the properties.
LEMMA GatewayInvImplies == GatewayInv => EventsLegal /\ SavedTurnSeen
<1>. SUFFICES ASSUME GatewayInv
              PROVE  EventsLegal /\ SavedTurnSeen
  OBVIOUS
<1>1. CASE session = S!NewStreamSession /\ saved = {}
  BY <1>1 DEF S!NewStreamSession, EventsLegal, SavedTurnSeen
<1>2. CASE Follows(session, out) /\ saved = {}
  BY <1>2 DEF Follows, Open, NoEnd, EventsLegal, SavedTurnSeen
<1>. QED
  BY <1>1, <1>2 DEF GatewayInv

-----------------------------------------------------------------------------
(* The theorems.                                                           *)

\* The event loop of handleResponses drives a decoder: what it does to the decoder's
\* state is what Next does.
THEOREM GatewayDecodes == GatewaySpec => DecoderSpec
<1>1. GatewayInit => DecoderInit
  BY DEF GatewayInit
<1>. QED
  BY <1>1, GatewayStepDecodes, PTL DEF GatewaySpec, DecoderSpec

\* In the event loop, too, every turn ends once, tool calls come out whole, budgets hold,
\* a cut stream fails, finished choices are frozen and every event is charged.
THEOREM GatewayDecoderCorrect ==
    GatewaySpec => /\ [](TerminalOnceLast /\ ToolTurnWhole /\ BudgetsHeld /\ CutNeverCompletes)
                   /\ FinishedChoiceFrozen /\ EventCharged
<1>1. GatewaySpec => [](TerminalOnceLast /\ ToolTurnWhole /\ BudgetsHeld /\ CutNeverCompletes)
  BY GatewayDecodes, TerminalEventOnceLast, ToolCallsWhole, DecoderBudgets, CutStreamFails, PTL
<1>. QED
  BY <1>1, GatewayDecodes, FinishedChoicesFrozen, EventsCharged

\* GatewayInv is an invariant of the event loop: as long as the response is open, the
\* items of the session are the calls of the events returned.
THEOREM GatewayInvariant == GatewaySpec => []GatewayInv
BY GatewayInvInit, GatewayInvNext, PTL DEF GatewaySpec

\* Whatever the provider sends, handleResponses never gives the stream session an event
\* out of sequence: no delta without its item, no item twice, no call ID that changes or
\* is too long.  Only a call ID with control characters is refused.
THEOREM EventsLegalAlways == GatewaySpec => []EventsLegal
BY GatewayInvariant, GatewayInvImplies, PTL

\* The tool turn that SaveContext retains is the one the client saw: every call of it,
\* and no other, is closed on the wire, and only a failed write keeps the completion
\* from following.
THEOREM RetainedTurnSeen == GatewaySpec => []SavedTurnSeen
BY GatewayInvariant, GatewayInvImplies, PTL
=============================================================================
