---------------------- MODULE BridgeStreamDecoderProofs ----------------------
(***************************************************************************)
(* Proofs about BridgeStreamDecoder, for any stream, any limits and any    *)
(* number of choices and tool calls.                                       *)
(*                                                                         *)
(* The decoder is a record that a provider event takes through six nested  *)
(* loops, each of which stops at the first error.  The parts below follow  *)
(* them: a loop is an induction over its turns (LoopInduction); what a     *)
(* chunk does to calls, budgets, queue and finished choices (Chunked);      *)
(* the journal of events that [DONE] writes for all calls (FinishToolCalls); *)
(* and how events that were returned and events that are queued make one   *)
(* sequence (FinalJoined).  The invariant (DecoderInv) comes at the end.   *)
(***************************************************************************)
EXTENDS BridgeStreamDecoder, FiniteFacts, SequenceTheorems

-----------------------------------------------------------------------------
(* Loops.  Each is used for six loops; what follows is said once for all   *)
(* of them, with the loop as an argument.                                  *)

LoopStep(loop, a, x, n) ==
    IF loop = "validateTool" THEN validateTool(x, a, n)
    ELSE IF loop = "validateChoice" THEN validateChoice(x, a, n)
    ELSE IF loop = "consumeToolCall" THEN consumeToolCall(x, a, a.tools[n])
    ELSE IF loop = "consumeChoice" THEN consumeChoice(x, a.choices[n])
    ELSE IF loop = "startCall" THEN startCall(x, a[n])
    ELSE completeCall(x, a, n)

LoopNext(loop, a, x, n) == IF x.err # "" THEN x ELSE LoopStep(loop, a, x, n)

LoopBody(loop, a, d, g, n) == IF n = 0 THEN d ELSE LoopNext(loop, a, g[n - 1], n)

LoopFrom(loop, a, d, m, g) == g = [n \in 0..m |-> LoopBody(loop, a, d, g, n)]

\* A loop computes something.
LEMMA LoopExists ==
    ASSUME NEW loop, NEW a, NEW d, NEW m \in Nat
    PROVE  \E g : LoopFrom(loop, a, d, m, g)
<1>. DEFINE Good == {n \in 0..m : \E g : LoopFrom(loop, a, d, n, g)}
<1>1. 0 \in Good
  <2>. DEFINE g == [n \in 0..0 |-> d]
  <2>1. g = [n \in 0..0 |-> LoopBody(loop, a, d, g, n)]
    BY DEF LoopBody
  <2>2. LoopFrom(loop, a, d, 0, g)
    BY <2>1 DEF LoopFrom
  <2>. QED
    BY <2>2
<1>2. ASSUME NEW n \in 0..m, n < m, n \in Good
      PROVE  n + 1 \in Good
  <2>1. PICK g : LoopFrom(loop, a, d, n, g)
    BY <1>2
  <2>. DEFINE h == [j \in 0..(n + 1) |-> IF j =< n THEN g[j] ELSE LoopBody(loop, a, d, g, j)]
  <2>2. \A j \in 0..n : g[j] = LoopBody(loop, a, d, g, j)
    BY <2>1 DEF LoopFrom
  <2>3. \A j \in 0..(n + 1) : h[j] = LoopBody(loop, a, d, g, j)
    BY <2>2
  <2>4. \A j \in 0..n : h[j] = g[j]
    OBVIOUS
  <2>. HIDE DEF h
  <2>5. \A j \in 0..(n + 1) : LoopBody(loop, a, d, g, j) = LoopBody(loop, a, d, h, j)
    BY <2>4 DEF LoopBody
  <2>6. h = [j \in 0..(n + 1) |-> LoopBody(loop, a, d, h, j)]
    <3>1. \A j \in 0..(n + 1) : h[j] = LoopBody(loop, a, d, h, j)
      BY <2>3, <2>5
    <3>2. h = [j \in 0..(n + 1) |-> h[j]]
      BY DEF h
    <3>. QED
      BY <3>1, <3>2
  <2>7. LoopFrom(loop, a, d, n + 1, h)
    BY <2>6 DEF LoopFrom
  <2>. QED
    BY <1>2, <2>7
<1>3. \A n \in 0..m : n \in Good
  <2>. HIDE DEF Good
  <2>. QED
    BY <1>1, <1>2, UpToInduction
<1>. QED
  BY <1>3

\* x is what the loop makes of d in m turns.
Runs(loop, a, d, m, x) ==
    LET g == CHOOSE f : f = [n \in 0..m |-> LoopBody(loop, a, d, f, n)]
    IN x = g[m]

\* What holds of a decoder at the start of a loop and is kept by each turn holds of it
\* at the end.
LEMMA LoopInduction ==
    ASSUME NEW loop, NEW a, NEW d, NEW m \in Nat, NEW x, Runs(loop, a, d, m, x), NEW Good,
           <<0, d>> \in Good,
           \A n \in 1..m : \A y : <<n - 1, y>> \in Good => <<n, LoopNext(loop, a, y, n)>> \in Good
    PROVE  <<m, x>> \in Good
<1>. DEFINE g == CHOOSE f : f = [n \in 0..m |-> LoopBody(loop, a, d, f, n)]
<1>1. g = [n \in 0..m |-> LoopBody(loop, a, d, g, n)]
  <2>1. \E f : f = [n \in 0..m |-> LoopBody(loop, a, d, f, n)]
    <3>1. \E f : LoopFrom(loop, a, d, m, f)
      BY LoopExists
    <3>. QED
      BY <3>1 DEF LoopFrom
  <2>. QED
    BY <2>1
<1>2. x = g[m]
  BY DEF Runs
<1>. HIDE DEF g
<1>3. \A n \in 0..m : g[n] = LoopBody(loop, a, d, g, n)
  BY <1>1
<1>. DEFINE Reached == {n \in 0..m : <<n, g[n]>> \in Good}
<1>4. 0 \in Reached
  BY <1>3 DEF LoopBody
<1>5. ASSUME NEW n \in 0..m, n < m, n \in Reached
      PROVE  n + 1 \in Reached
  <2>1. n + 1 \in 1..m /\ n + 1 \in 0..m /\ n + 1 # 0 /\ (n + 1) - 1 = n
    BY <1>5
  <2>2. g[n + 1] = LoopNext(loop, a, g[n], n + 1)
    BY <1>3, <2>1 DEF LoopBody
  <2>3. <<(n + 1) - 1, g[n]>> \in Good
    BY <1>5, <2>1
  <2>4. <<n + 1, LoopNext(loop, a, g[n], n + 1)>> \in Good
    BY <2>1, <2>3
  <2>. QED
    BY <2>1, <2>2, <2>4
<1>6. \A n \in 0..m : n \in Reached
  <2>. HIDE DEF Reached
  <2>. QED
    BY <1>4, <1>5, UpToInduction
<1>. QED
  BY <1>2, <1>6

-----------------------------------------------------------------------------
(* The decoder as a value, and what its smallest steps do to it.           *)

CallMaps == UNION {[K -> Call] : K \in SUBSET Keys}

Decoder == DecoderWith(CallMaps)

SameFlags(d, x) ==
    /\ x.started = d.started /\ x.terminal = d.terminal
    /\ x.finalized = d.finalized /\ x.toolTurn = d.toolTurn

SameReasons(d, x) ==
    /\ x.finishReason = d.finishReason /\ x.finishConflict = d.finishConflict
    /\ x.choiceFinishReasons = d.choiceFinishReasons

SameBytes(d, x) ==
    /\ x.outputBytes = d.outputBytes /\ x.textBytes = d.textBytes
    /\ x.reasoningBytes = d.reasoningBytes

SameQueue(d, x) == x.pending = d.pending /\ x.aggregateBytes = d.aggregateBytes

\* Nothing but the error differs.
Alike(d, x) ==
    /\ x \in Decoder /\ SameFlags(d, x) /\ SameReasons(d, x) /\ SameBytes(d, x)
    /\ SameQueue(d, x) /\ x.calls = d.calls

\* Only the aggregate budget was charged.
Paid(d, x, n) ==
    /\ x \in Decoder /\ SameFlags(d, x) /\ SameReasons(d, x) /\ SameBytes(d, x)
    /\ x.calls = d.calls /\ x.err = d.err /\ x.pending = d.pending
    /\ x.aggregateBytes = d.aggregateBytes + n /\ x.aggregateBytes =< MaxAggregateBytes

\* Only an event was queued, and charged.
Queued(d, x, event, n) ==
    /\ x \in Decoder /\ SameFlags(d, x) /\ SameReasons(d, x) /\ SameBytes(d, x)
    /\ x.calls = d.calls /\ x.err = d.err /\ x.pending = Append(d.pending, event)
    /\ x.aggregateBytes = d.aggregateBytes + EventOverhead + n
    /\ x.aggregateBytes =< MaxAggregateBytes

\* Arithmetic that the provers need not look for.
LEMMA AddWithin == \A a, b, m \in Nat : a =< m - b => b + a =< m
  OBVIOUS

\* A comparison is a truth value.
LEMMA LeqBoolean == \A a, b : (a =< b) \in BOOLEAN
  OBVIOUS

\* Nothing is added.
LEMMA AddZero == 0 \in Nat /\ \A n \in Nat : n + 0 = n
  OBVIOUS

\* Sums of numbers.
LEMMA AddFacts ==
    \A a, b, n \in Nat : /\ a + b \in Nat /\ a + b + n \in Nat /\ a =< a + b /\ a =< a + b + n
                         /\ a + b =< a + b + n
  OBVIOUS

\* Sums grow.
LEMMA AddMonotone == \A a, b, n \in Nat : a =< b => a =< b + n /\ a + n =< b + n
  OBVIOUS

\* A number is at most itself.
LEMMA LeqSelf == \A n \in Nat : n =< n
  OBVIOUS

\* Sums in another order.
LEMMA AddSwap == \A a, b, n \in Nat : (a + b) + n = (a + n) + b
  OBVIOUS

\* What is in a queue after an event is added.
LEMMA AppendAt ==
    ASSUME NEW s \in Seq(EventRecord), NEW e \in EventRecord
    PROVE  /\ Append(s, e) \in Seq(EventRecord) /\ Len(Append(s, e)) = Len(s) + 1 /\ Len(s) \in Nat
           /\ \A i \in 1..Len(s) : Append(s, e)[i] = s[i]
           /\ Append(s, e)[Len(s) + 1] = e
           /\ \A i \in 1..(Len(s) + 1) : i \in 1..Len(s) \/ i = Len(s) + 1
  OBVIOUS

\* The elements of a sequence.
LEMMA SeqMembers ==
    ASSUME NEW M, NEW s \in Seq(M)
    PROVE  \A k \in 1..Len(s) : s[k] \in ToSet(s)
  BY DEF ToSet

\* The bounds of the options are positive numbers.
LEMMA Bounds ==
    /\ MaxChoices \in Nat \ {0} /\ MaxToolCalls \in Nat \ {0}
    /\ MaxToolNameBytes \in Nat \ {0} /\ MaxProviderCallIDBytes \in Nat \ {0}
    /\ MaxToolCallArgumentBytes \in Nat \ {0} /\ MaxAggregateBytes \in Nat \ {0}
    /\ MaxOutputBytes \in Nat \ {0} /\ MaxTextBytes \in Nat \ {0}
    /\ MaxReasoningBytes \in Nat \ {0} /\ EventOverhead \in Nat \ {0}
    /\ MaxToolNameBytes \in Nat /\ MaxProviderCallIDBytes \in Nat
    /\ MaxToolCallArgumentBytes \in Nat /\ MaxAggregateBytes \in Nat
    /\ MaxOutputBytes \in Nat /\ MaxTextBytes \in Nat /\ MaxReasoningBytes \in Nat
    /\ EventOverhead \in Nat
  BY DecoderAssumption

\* The errors are not the empty string.
LEMMA ErrorNames ==
    /\ \A e \in {"limit", "malformed", "undeclared", "custom", "stream"} :
          e \in Errors /\ e \in Errors \ {""} /\ e # ""
    /\ "limit" \in Errors \ {""} /\ "malformed" \in Errors \ {""}
    /\ "undeclared" \in Errors \ {""} /\ "custom" \in Errors \ {""}
    /\ "stream" \in Errors \ {""} /\ "limit" \in Errors
  BY DEF Errors

\* A failure records the error and nothing else.
LEMMA FailsAlike ==
    ASSUME NEW d \in Decoder, NEW e \in Errors
    PROVE  Alike(d, Fails(d, e)) /\ Fails(d, e).err = e
  BY DEF Fails, Alike, Decoder, DecoderWith, SameFlags, SameReasons, SameBytes, SameQueue

\* A check changes nothing, or fails.
LEMMA RequireAlike ==
    ASSUME NEW d \in Decoder, NEW cond \in BOOLEAN, NEW e \in Errors \ {""}
    PROVE  /\ Alike(d, Require(d, cond, e))
           /\ Require(d, cond, e).err = "" <=> (d.err = "" /\ cond)
           /\ Require(d, cond, e).err = "" => Require(d, cond, e) = d
<1>1. Alike(d, d)
  BY DEF Alike, SameFlags, SameReasons, SameBytes, SameQueue
<1>2. Alike(d, Fails(d, e)) /\ Fails(d, e).err = e /\ e # ""
  BY FailsAlike
<1>3. CASE d.err = "" /\ ~cond
  <2>1. Require(d, cond, e) = Fails(d, e)
    BY <1>3 DEF Require
  <2>. QED
    BY <1>2, <1>3, <2>1
<1>4. CASE ~(d.err = "" /\ ~cond)
  <2>1. Require(d, cond, e) = d
    BY <1>4 DEF Require
  <2>. QED
    BY <1>1, <1>4, <2>1
<1>. QED
  BY <1>3, <1>4

\* A charge is refused or paid.
LEMMA ReservePaid ==
    ASSUME NEW d \in Decoder, NEW n \in Nat
    PROVE  LET x == reserveAggregateBytes(d, n)
           IN (Alike(d, x) /\ x.err = "limit") \/ Paid(d, x, n)
<1>1. CASE d.aggregateBytes > MaxAggregateBytes - n
  <2>1. reserveAggregateBytes(d, n) = Fails(d, "limit")
    BY <1>1 DEF reserveAggregateBytes
  <2>2. Alike(d, Fails(d, "limit")) /\ Fails(d, "limit").err = "limit"
    BY ErrorNames, FailsAlike, Zenon
  <2>. QED
    BY <2>1, <2>2
<1>2. CASE ~(d.aggregateBytes > MaxAggregateBytes - n)
  <2>1. d.aggregateBytes \in Nat /\ d.aggregateBytes + n =< MaxAggregateBytes
    BY <1>2, Bounds DEF Decoder, DecoderWith
  <2>. QED
    BY <1>2, <2>1 DEF reserveAggregateBytes, Paid, Decoder, DecoderWith, SameFlags, SameReasons, SameBytes
<1>. QED
  BY <1>1, <1>2

\* An event is refused or queued.
LEMMA QueueQueued ==
    ASSUME NEW d \in Decoder, NEW event \in EventRecord, NEW n \in Nat
    PROVE  LET x == queue(d, event, n)
           IN (Alike(d, x) /\ x.err = "limit") \/ Queued(d, x, event, n)
<1>. DEFINE refused == \/ EventOverhead > MaxAggregateBytes
                       \/ n > MaxAggregateBytes - EventOverhead
                       \/ d.aggregateBytes > MaxAggregateBytes - (EventOverhead + n)
<1>1. CASE refused
  <2>1. queue(d, event, n) = Fails(d, "limit")
    BY <1>1 DEF queue
  <2>2. Alike(d, Fails(d, "limit")) /\ Fails(d, "limit").err = "limit"
    BY ErrorNames, FailsAlike, Zenon
  <2>. QED
    BY <2>1, <2>2
<1>2. CASE ~refused
  <2>1. /\ d.aggregateBytes \in Nat /\ d.aggregateBytes + EventOverhead + n =< MaxAggregateBytes
        /\ d.aggregateBytes + EventOverhead + n \in Nat
    BY <1>2, Bounds DEF Decoder, DecoderWith
  <2>2. queue(d, event, n) = [d EXCEPT !.aggregateBytes = d.aggregateBytes + EventOverhead + n,
                                       !.pending = Append(d.pending, event)]
    BY <1>2 DEF queue
  <2>3. Append(d.pending, event) \in Seq(EventRecord)
    BY DEF Decoder, DecoderWith
  <2>. QED
    BY <2>1, <2>2, <2>3 DEF Queued, Decoder, DecoderWith, SameFlags, SameReasons, SameBytes
<1>. QED
  BY <1>1, <1>2

-----------------------------------------------------------------------------
(* validateChunkToolBounds changes nothing, and what it accepts is bounded. *)

\* x is d, or d with an error.
Checked(d, x) == Alike(d, x) /\ (x.err = "" => x = d)

\* One more check.
LEMMA CheckMore ==
    ASSUME NEW d \in Decoder, NEW x, Checked(d, x), NEW cond \in BOOLEAN,
           NEW e \in Errors \ {""}
    PROVE  /\ Checked(d, Require(x, cond, e))
           /\ Require(x, cond, e).err = "" => x.err = "" /\ cond
<1>1. x \in Decoder
  BY DEF Checked, Alike
<1>2. /\ Alike(x, Require(x, cond, e))
      /\ Require(x, cond, e).err = "" => (x.err = "" /\ cond)
      /\ Require(x, cond, e).err = "" => Require(x, cond, e) = x
  BY <1>1, RequireAlike
<1>. HIDE DEF Require
<1>3. Alike(d, Require(x, cond, e))
  BY <1>2 DEF Checked, Alike, SameFlags, SameReasons, SameBytes, SameQueue
<1>. QED
  BY <1>2, <1>3 DEF Checked

\* A decoder is its own check.
LEMMA CheckedSelf ==
    ASSUME NEW d \in Decoder
    PROVE  Checked(d, d)
  BY DEF Checked, Alike, SameFlags, SameReasons, SameBytes, SameQueue

KeyOf(c, i) == <<c.index, c.tools[i].index>>

ToolFits(d, c, i) ==
    /\ c.tools[i].index \in 0..(MaxToolCalls - 1)
    /\ \A j \in 1..(i - 1) : c.tools[j].index # c.tools[i].index
    /\ MetadataFits(d, KeyOf(c, i), c.tools[i])

\* The parts of a chunk have their types.
LEMMA ChunkParts ==
    /\ \A chunk \in Chunk :
          /\ Len(chunk.choices) \in Nat /\ chunk.idBytes \in Nat /\ chunk.usage \in BOOLEAN
          /\ \A i \in 1..Len(chunk.choices) : chunk.choices[i] \in ChunkChoice
    /\ \A c \in ChunkChoice :
          /\ Len(c.tools) \in Nat /\ c.index \in Int /\ c.finish \in Reasons
          /\ c.content \in Nat /\ c.reasoning \in Nat
          /\ \A i \in 1..Len(c.tools) : c.tools[i] \in ToolFragment
<1>1. \A chunk \in Chunk : /\ chunk.choices \in Seq(ChunkChoice) /\ chunk.idBytes \in Nat
                           /\ chunk.usage \in BOOLEAN
  BY DEF Chunk
<1>2. \A c \in ChunkChoice : /\ c.tools \in Seq(ToolFragment) /\ c.index \in Int
                            /\ c.finish \in Reasons /\ c.content \in Nat /\ c.reasoning \in Nat
  BY DEF ChunkChoice, Reasons
<1>. QED
  BY <1>1, <1>2

\* A fragment that passes is within the bounds of its call.
LEMMA ValidateTool ==
    ASSUME NEW d \in Decoder, NEW c \in ChunkChoice, NEW i \in 1..Len(c.tools)
    PROVE  LET x == validateTool(d, c, i)
           IN Checked(d, x) /\ (x.err = "" => ToolFits(d, c, i))
<1>. DEFINE t == c.tools[i]
            c1 == t.index >= 0
            c2 == t.function
            c3 == t.index < MaxToolCalls
            c4 == \A j \in 1..(i - 1) : c.tools[j].index # t.index
            c5 == MetadataFits(d, <<c.index, t.index>>, t)
            x1 == Require(d, c1, "malformed")
            x2 == Require(x1, c2, "malformed")
            x3 == Require(x2, c3, "limit")
            x4 == Require(x3, c4, "malformed")
            x5 == Then(x4, LAMBDA x : Require(x, MetadataFits(x, <<c.index, t.index>>, t), "limit"))
<1>1. validateTool(d, c, i) = x5
  BY DEF validateTool
<1>2. t \in ToolFragment
  BY ChunkParts
<1>3. c1 \in BOOLEAN /\ c2 \in BOOLEAN /\ c3 \in BOOLEAN /\ c4 \in BOOLEAN
  BY <1>2 DEF ToolFragment
<1>4. c5 \in BOOLEAN
  BY DEF MetadataFits
<1>5. t.index \in Int
  BY <1>2 DEF ToolFragment
<1>. HIDE DEF t, c1, c2, c3, c4, c5
<1>6. Checked(d, x1) /\ (x1.err = "" => c1)
  BY <1>3, CheckedSelf, CheckMore, ErrorNames
<1>. HIDE DEF x1
<1>7. Checked(d, x2) /\ (x2.err = "" => x1.err = "" /\ c2)
  BY <1>3, <1>6, CheckMore, ErrorNames
<1>. HIDE DEF x2
<1>8. Checked(d, x3) /\ (x3.err = "" => x2.err = "" /\ c3)
  BY <1>3, <1>7, CheckMore, ErrorNames
<1>. HIDE DEF x3
<1>9. Checked(d, x4) /\ (x4.err = "" => x3.err = "" /\ c4)
  BY <1>3, <1>8, CheckMore, ErrorNames
<1>. HIDE DEF x4
<1>10. Checked(d, x5) /\ (x5.err = "" => x4.err = "" /\ c5)
  <2>1. CASE x4.err # ""
    BY <1>9, <2>1 DEF Then
  <2>2. CASE x4.err = ""
    <3>1. x4 = d
      BY <1>9, <2>2 DEF Checked
    <3>2. x5 = Require(d, c5, "limit")
      BY <2>2, <3>1 DEF Then, c5
    <3>3. Checked(d, Require(d, c5, "limit")) /\ (Require(d, c5, "limit").err = "" => c5)
      BY <1>4, CheckedSelf, CheckMore, ErrorNames
    <3>. QED
      BY <2>2, <3>2, <3>3
  <2>. QED
    BY <2>1, <2>2
<1>. HIDE DEF x5
<1>11. ASSUME x5.err = ""
       PROVE  ToolFits(d, c, i)
  <2>1. c1 /\ c3 /\ c4 /\ c5
    BY <1>6, <1>7, <1>8, <1>9, <1>10, <1>11
  <2>2. t.index \in 0..(MaxToolCalls - 1)
    BY <1>5, <2>1, Bounds DEF c1, c3
  <2>. QED
    BY <2>1, <2>2 DEF ToolFits, KeyOf, t, c4, c5
<1>. QED
  BY <1>1, <1>10, <1>11

\* The fragments of a choice that passes are within the bounds of their calls.
LEMMA ValidateTools ==
    ASSUME NEW d \in Decoder, NEW c \in ChunkChoice
    PROVE  LET x == Each(d, c.tools, LAMBDA y, j : validateTool(y, c, j))
           IN Checked(d, x) /\ (x.err = "" => \A k \in 1..Len(c.tools) : ToolFits(d, c, k))
<1>. DEFINE m == Len(c.tools)
            x == Each(d, c.tools, LAMBDA y, j : validateTool(y, c, j))
            Fine(n, y) == Checked(d, y) /\ (y.err = "" => \A k \in 1..n : ToolFits(d, c, k))
            Good == {p \in (0..m) \X Decoder : Fine(p[1], p[2])}
<1>1. m \in Nat
  BY ChunkParts
<1>2. Runs("validateTool", c, d, m, x)
  BY DEF Runs, LoopBody, LoopNext, LoopStep, Each, Then
<1>. HIDE DEF x, m
<1>3. <<0, d>> \in Good
  <2>1. 0 \in 0..m /\ Fine(0, d)
    BY <1>1, CheckedSelf
  <2>. HIDE DEF Fine
  <2>. QED
    BY <2>1
<1>4. ASSUME NEW n \in 1..m, NEW y, <<n - 1, y>> \in Good
      PROVE  <<n, LoopNext("validateTool", c, y, n)>> \in Good
  <2>1. y \in Decoder /\ Fine(n - 1, y)
    BY <1>4
  <2>. DEFINE z == LoopNext("validateTool", c, y, n)
  <2>2. Fine(n, z)
    <3>1. CASE y.err # ""
      BY <2>1, <3>1 DEF LoopNext
    <3>2. CASE y.err = ""
      <4>1. y = d /\ z = validateTool(d, c, n)
        BY <2>1, <3>2 DEF LoopNext, LoopStep, Checked
      <4>2. Checked(d, z) /\ (z.err = "" => ToolFits(d, c, n))
        BY <4>1, ValidateTool DEF m
      <4>3. \A k \in 1..(n - 1) : ToolFits(d, c, k)
        BY <2>1, <3>2
      <4>4. \A k \in 1..n : k \in 1..(n - 1) \/ k = n
        BY <1>1
      <4>. QED
        BY <4>2, <4>3, <4>4
    <3>. QED
      BY <3>1, <3>2
  <2>3. z \in Decoder
    <3>1. Alike(d, z)
      BY <2>2 DEF Checked
    <3>. QED
      BY <3>1 DEF Alike
  <2>4. n \in 0..m
    BY <1>1
  <2>. HIDE DEF Fine
  <2>. QED
    BY <2>2, <2>3, <2>4
<1>5. <<m, x>> \in Good
  <2>. HIDE DEF Good
  <2>. QED
    BY <1>1, <1>2, <1>3, <1>4, LoopInduction
<1>. QED
  BY <1>5 DEF x, m

ChoiceFits(d, chunk, i) ==
    LET c == chunk.choices[i]
    IN /\ c.index \in ChoiceIndexes
       /\ \A j \in 1..(i - 1) : chunk.choices[j].index # c.index
       /\ \A k \in 1..Len(c.tools) : ToolFits(d, c, k)

\* A choice that passes is within bounds, and not one of the earlier ones.
LEMMA ValidateChoice ==
    ASSUME NEW d \in Decoder, NEW chunk \in Chunk, NEW i \in 1..Len(chunk.choices)
    PROVE  LET x == validateChoice(d, chunk, i)
           IN Checked(d, x) /\ (x.err = "" => ChoiceFits(d, chunk, i))
<1>. DEFINE c == chunk.choices[i]
            c1 == c.index >= 0
            c2 == c.index < MaxChoices
            c3 == \A j \in 1..(i - 1) : chunk.choices[j].index # c.index
            c4 == Len(c.tools) =< MaxToolCalls
            x1 == Require(d, c1, "malformed")
            x2 == Require(x1, c2, "limit")
            x3 == Require(x2, c3, "malformed")
            x4 == Require(x3, c4, "limit")
            x5 == Then(x4, LAMBDA x : Each(x, c.tools, LAMBDA y, j : validateTool(y, c, j)))
<1>1. validateChoice(d, chunk, i) = x5
  BY DEF validateChoice
<1>2. c \in ChunkChoice /\ c.index \in Int
  BY ChunkParts
<1>3. c1 \in BOOLEAN /\ c2 \in BOOLEAN /\ c3 \in BOOLEAN /\ c4 \in BOOLEAN
  OBVIOUS
<1>. HIDE DEF c, c1, c2, c3, c4
<1>4. Checked(d, x1) /\ (x1.err = "" => c1)
  BY <1>3, CheckedSelf, CheckMore, ErrorNames
<1>. HIDE DEF x1
<1>5. Checked(d, x2) /\ (x2.err = "" => x1.err = "" /\ c2)
  BY <1>3, <1>4, CheckMore, ErrorNames
<1>. HIDE DEF x2
<1>6. Checked(d, x3) /\ (x3.err = "" => x2.err = "" /\ c3)
  BY <1>3, <1>5, CheckMore, ErrorNames
<1>. HIDE DEF x3
<1>7. Checked(d, x4) /\ (x4.err = "" => x3.err = "")
  BY <1>3, <1>6, CheckMore, ErrorNames
<1>. HIDE DEF x4
<1>. DEFINE e == Each(d, c.tools, LAMBDA y, j : validateTool(y, c, j))
<1>8. Checked(d, e) /\ (e.err = "" => \A k \in 1..Len(c.tools) : ToolFits(d, c, k))
  BY <1>2, ValidateTools
<1>9. IF x4.err # "" THEN x5 = x4 ELSE x5 = e
  BY <1>7 DEF Then, Checked
<1>. HIDE DEF x5, e
<1>10. ASSUME x5.err = ""
       PROVE  ChoiceFits(d, chunk, i)
  <2>1. c1 /\ c2 /\ c3 /\ \A k \in 1..Len(c.tools) : ToolFits(d, c, k)
    BY <1>4, <1>5, <1>6, <1>7, <1>8, <1>9, <1>10
  <2>2. c.index \in ChoiceIndexes
    BY <1>2, <2>1, Bounds DEF c1, c2, ChoiceIndexes
  <2>. QED
    BY <2>1, <2>2 DEF ChoiceFits, c, c3
<1>. QED
  BY <1>1, <1>7, <1>8, <1>9, <1>10

ChunkFits(d, chunk) ==
    /\ \A i \in 1..Len(chunk.choices) : ChoiceFits(d, chunk, i)
    /\ Cardinality(NewKeys(d, chunk)) =< MaxToolCalls - Cardinality(DOMAIN d.calls)

\* The choices of a chunk that passes are within bounds.
LEMMA ValidateChoices ==
    ASSUME NEW d \in Decoder, NEW chunk \in Chunk
    PROVE  LET x == Each(d, chunk.choices, LAMBDA y, i : validateChoice(y, chunk, i))
           IN Checked(d, x) /\ (x.err = "" => \A i \in 1..Len(chunk.choices) : ChoiceFits(d, chunk, i))
<1>. DEFINE m == Len(chunk.choices)
            x == Each(d, chunk.choices, LAMBDA y, i : validateChoice(y, chunk, i))
            Fine(n, y) == Checked(d, y) /\ (y.err = "" => \A k \in 1..n : ChoiceFits(d, chunk, k))
            Good == {p \in (0..m) \X Decoder : Fine(p[1], p[2])}
<1>1. m \in Nat
  BY ChunkParts
<1>2. Runs("validateChoice", chunk, d, m, x)
  BY DEF Runs, LoopBody, LoopNext, LoopStep, Each, Then
<1>. HIDE DEF x, m
<1>3. <<0, d>> \in Good
  <2>1. 0 \in 0..m /\ Fine(0, d)
    BY <1>1, CheckedSelf
  <2>. HIDE DEF Fine
  <2>. QED
    BY <2>1
<1>4. ASSUME NEW n \in 1..m, NEW y, <<n - 1, y>> \in Good
      PROVE  <<n, LoopNext("validateChoice", chunk, y, n)>> \in Good
  <2>1. y \in Decoder /\ Fine(n - 1, y)
    BY <1>4
  <2>. DEFINE z == LoopNext("validateChoice", chunk, y, n)
  <2>2. Fine(n, z)
    <3>1. CASE y.err # ""
      BY <2>1, <3>1 DEF LoopNext
    <3>2. CASE y.err = ""
      <4>1. y = d /\ z = validateChoice(d, chunk, n)
        BY <2>1, <3>2 DEF LoopNext, LoopStep, Checked
      <4>2. Checked(d, z) /\ (z.err = "" => ChoiceFits(d, chunk, n))
        BY <4>1, ValidateChoice DEF m
      <4>3. \A k \in 1..(n - 1) : ChoiceFits(d, chunk, k)
        BY <2>1, <3>2
      <4>4. \A k \in 1..n : k \in 1..(n - 1) \/ k = n
        BY <1>1
      <4>. QED
        BY <4>2, <4>3, <4>4
    <3>. QED
      BY <3>1, <3>2
  <2>3. z \in Decoder
    <3>1. Alike(d, z)
      BY <2>2 DEF Checked
    <3>. QED
      BY <3>1 DEF Alike
  <2>4. n \in 0..m
    BY <1>1
  <2>. HIDE DEF Fine
  <2>. QED
    BY <2>2, <2>3, <2>4
<1>5. <<m, x>> \in Good
  <2>. HIDE DEF Good
  <2>. QED
    BY <1>1, <1>2, <1>3, <1>4, LoopInduction
<1>. QED
  BY <1>5 DEF x, m

\* A chunk that passes is within bounds, and a chunk that does not changes nothing.
LEMMA ValidateChunk ==
    ASSUME NEW d \in Decoder, NEW chunk \in Chunk
    PROVE  LET x == validateChunkToolBounds(d, chunk)
           IN Checked(d, x) /\ (x.err = "" => d.err = "" /\ ChunkFits(d, chunk))
<1>. DEFINE c1 == Len(chunk.choices) =< MaxChoices
            c2 == Cardinality(NewKeys(d, chunk)) =< MaxToolCalls - Cardinality(DOMAIN d.calls)
            x1 == Require(d, c1, "limit")
            x2 == Then(x1, LAMBDA x :
                     Each(x, chunk.choices, LAMBDA y, i : validateChoice(y, chunk, i)))
            x3 == Require(x2, c2, "limit")
            e == Each(d, chunk.choices, LAMBDA y, i : validateChoice(y, chunk, i))
<1>1. validateChunkToolBounds(d, chunk) = x3
  BY DEF validateChunkToolBounds
<1>2. c1 \in BOOLEAN /\ c2 \in BOOLEAN
  OBVIOUS
<1>. HIDE DEF c1, c2
<1>3. Checked(d, x1) /\ (x1.err = "" => d.err = "")
  BY <1>2, CheckedSelf, CheckMore, ErrorNames
<1>. HIDE DEF x1
<1>4. Checked(d, e) /\ (e.err = "" => \A i \in 1..Len(chunk.choices) : ChoiceFits(d, chunk, i))
  BY ValidateChoices
<1>5. IF x1.err # "" THEN x2 = x1 ELSE x2 = e
  BY <1>3 DEF Then, Checked
<1>. HIDE DEF x2, e
<1>6. Checked(d, x2) /\ (x2.err = "" => /\ d.err = ""
                                       /\ \A i \in 1..Len(chunk.choices) : ChoiceFits(d, chunk, i))
  BY <1>3, <1>4, <1>5
<1>7. Checked(d, x3) /\ (x3.err = "" => x2.err = "" /\ c2)
  BY <1>2, <1>6, CheckMore, ErrorNames
<1>. QED
  BY <1>1, <1>6, <1>7 DEF ChunkFits, c2

-----------------------------------------------------------------------------
(* The calls and their budgets.                                            *)

\* A map of calls is a function from some keys.
LEMMA CallMapsAre ==
    /\ \A f \in CallMaps : /\ DOMAIN f \subseteq Keys /\ f = [k \in DOMAIN f |-> f[k]]
                           /\ \A k \in DOMAIN f : f[k] \in Call
    /\ \A K \in SUBSET Keys : \A f : f \in [K -> Call] => f \in CallMaps
  BY DEF CallMaps

\* There are finitely many keys, and a map of calls has finitely many.
LEMMA KeysFinite ==
    /\ IsFiniteSet(Keys)
    /\ \A f \in CallMaps : IsFiniteSet(DOMAIN f)
<1>1. IsFiniteSet(0..(MaxChoices - 1)) /\ IsFiniteSet(0..(MaxToolCalls - 1))
  BY Bounds, FS_Interval
<1>2. IsFiniteSet(Keys)
  BY <1>1, FS_Product DEF Keys, ChoiceIndexes
<1>. QED
  BY <1>2, CallMapsAre, FS_Subset

\* What a decoder holds is within its budgets: BudgetsHeld of any decoder.
CallHeld(call) ==
    /\ Len(call.callID) =< MaxProviderCallIDBytes
    /\ Len(call.name) =< MaxToolNameBytes
    /\ Len(call.providerCallID) =< MaxProviderCallIDBytes
    /\ Len(call.arguments) =< MaxToolCallArgumentBytes

CallsHeld(calls) ==
    /\ Cardinality(DOMAIN calls) =< MaxToolCalls
    /\ \A key \in DOMAIN calls : CallHeld(calls[key])

Held(x) ==
    /\ x.outputBytes = x.textBytes + ArgumentBytes(x.calls)
    /\ x.aggregateBytes =< MaxAggregateBytes
    /\ x.outputBytes =< MaxOutputBytes
    /\ x.textBytes =< MaxTextBytes
    /\ x.reasoningBytes =< MaxReasoningBytes
    /\ CallsHeld(x.calls)

Weights(calls) == [key \in DOMAIN calls |-> Len(calls[key].arguments)]

\* The arguments are a sum.
LEMMA ArgumentsSum ==
    ASSUME NEW f \in CallMaps
    PROVE  /\ ArgumentBytes(f) = SumOf(Weights(f), DOMAIN f)
           /\ \A k \in DOMAIN f : Weights(f)[k] \in Nat
           /\ ArgumentBytes(f) \in Nat
<1>1. ArgumentBytes(f) = SumOf(Weights(f), DOMAIN f)
  BY DEF ArgumentBytes, SumOf, Weights
<1>2. \A k \in DOMAIN f : Weights(f)[k] \in Nat
  BY CallMapsAre DEF Weights, Call, Strings
<1>. QED
  BY <1>1, <1>2, KeysFinite, SumTake

\* f, with the call of one key put in or replaced.
PutCall(f, g, key, call) ==
    /\ DOMAIN g = DOMAIN f \cup {key} /\ g[key] = call
    /\ \A k \in DOMAIN f \ {key} : g[k] = f[k]

\* Putting a call changes the sum by its arguments.
LEMMA ArgumentsPut ==
    ASSUME NEW f \in CallMaps, NEW g \in CallMaps, NEW key, NEW call, PutCall(f, g, key, call)
    PROVE  /\ key \in DOMAIN f => /\ Len(f[key].arguments) \in Nat
                                  /\ ArgumentBytes(g) = (ArgumentBytes(f) - Len(f[key].arguments))
                                                           + Len(call.arguments)
           /\ key \notin DOMAIN f => ArgumentBytes(g) = ArgumentBytes(f) + Len(call.arguments)
           /\ ArgumentBytes(f) \in Nat /\ Len(call.arguments) \in Nat
<1>. DEFINE w == Weights(f)
            v == Weights(g)
            R == DOMAIN g \ {key}
<1>1. /\ ArgumentBytes(f) = SumOf(w, DOMAIN f) /\ ArgumentBytes(g) = SumOf(v, DOMAIN g)
      /\ \A k \in DOMAIN f : w[k] \in Nat
      /\ \A k \in DOMAIN g : v[k] \in Nat
      /\ ArgumentBytes(f) \in Nat
  BY ArgumentsSum
<1>2. IsFiniteSet(DOMAIN f) /\ IsFiniteSet(DOMAIN g) /\ IsFiniteSet(R)
  BY KeysFinite, FS_Subset
<1>3. /\ key \in DOMAIN g /\ v[key] = Len(call.arguments)
      /\ \A k \in R : k \in DOMAIN f /\ w[k] = v[k]
      /\ key \in DOMAIN f => (R = DOMAIN f \ {key} /\ w[key] = Len(f[key].arguments))
      /\ key \notin DOMAIN f => R = DOMAIN f
  BY DEF PutCall, Weights
<1>. HIDE DEF w, v
<1>4. SumOf(v, DOMAIN g) = v[key] + SumOf(v, R)
  BY <1>1, <1>2, <1>3, SumTake
<1>5. SumOf(w, R) = SumOf(v, R)
  <2>. HIDE DEF R
  <2>. QED
    BY <1>2, <1>3, SumCongruent
<1>6. SumOf(w, R) \in Nat
  <2>1. \A k \in R : w[k] \in Nat
    BY <1>1, <1>3
  <2>. HIDE DEF R
  <2>. QED
    BY <1>2, <2>1, SumTake
<1>7. ASSUME key \in DOMAIN f
      PROVE  SumOf(w, DOMAIN f) = w[key] + SumOf(w, R)
  <2>1. SumOf(w, DOMAIN f) = w[key] + SumOf(w, DOMAIN f \ {key})
    BY <1>1, <1>2, <1>7, SumTake
  <2>2. R = DOMAIN f \ {key}
    BY <1>3, <1>7
  <2>. HIDE DEF R
  <2>. QED
    BY <2>1, <2>2
<1>8. v[key] \in Nat /\ (key \in DOMAIN f => w[key] \in Nat)
  BY <1>1, <1>3
<1>9. ASSUME key \in DOMAIN f
      PROVE  ArgumentBytes(g) = (ArgumentBytes(f) - w[key]) + v[key]
  <2>1. /\ ArgumentBytes(f) = w[key] + SumOf(w, R) /\ ArgumentBytes(g) = v[key] + SumOf(w, R)
        /\ w[key] \in Nat /\ v[key] \in Nat /\ SumOf(w, R) \in Nat
    BY <1>1, <1>4, <1>5, <1>6, <1>7, <1>8, <1>9
  <2>. HIDE DEF R
  <2>. QED
    BY <2>1
<1>10. ASSUME key \notin DOMAIN f
       PROVE  ArgumentBytes(g) = ArgumentBytes(f) + v[key]
  <2>1. ArgumentBytes(f) = SumOf(w, R) /\ ArgumentBytes(g) = v[key] + SumOf(w, R)
    BY <1>1, <1>3, <1>4, <1>5, <1>10
  <2>. HIDE DEF R
  <2>. QED
    BY <1>6, <1>8, <2>1
<1>. QED
  BY <1>1, <1>3, <1>8, <1>9, <1>10

-----------------------------------------------------------------------------
(* One fragment of a tool call.                                            *)

\* Strings are sequences; their lengths are numbers.
LEMMA StringFacts ==
    /\ << >> \in Strings
    /\ \A s \in Strings : Len(s) \in Nat
    /\ \A s, t \in Strings : s \o t \in Strings /\ Len(s \o t) = Len(s) + Len(t)
    /\ \A s \in CallIDs : Len(s) \in Nat
  BY DEF Strings, CallIDs, syntheticToolCallID

\* The provider's identifier grows by what is charged for it.
LEMMA AppendGrows ==
    ASSUME NEW old \in Strings, NEW id \in Strings
    PROVE  /\ appendProviderCallID(old, id) \in Strings
           /\ providerCallIDGrowth(old, id) \in Nat
           /\ Len(appendProviderCallID(old, id)) = Len(old) + providerCallIDGrowth(old, id)
<1>. DEFINE new == appendProviderCallID(old, id)
<1>1. Len(old) \in Nat /\ Len(id) \in Nat /\ old \o id \in Strings
      /\ Len(old \o id) = Len(old) + Len(id)
  BY StringFacts
<1>2. new \in Strings /\ Len(new) \in Nat /\ Len(new) >= Len(old)
  BY <1>1 DEF appendProviderCallID, IsPrefix
<1>. HIDE DEF new
<1>3. providerCallIDGrowth(old, id) = Len(new) - Len(old)
  BY DEF providerCallIDGrowth, new
<1>. QED
  BY <1>1, <1>2, <1>3 DEF new

\* y is d after work on the call of one key.
Touched(d, y, key) ==
    /\ y \in Decoder /\ SameFlags(d, y) /\ SameReasons(d, y) /\ y.pending = d.pending
    /\ y.textBytes = d.textBytes /\ y.reasoningBytes = d.reasoningBytes
    /\ d.aggregateBytes =< y.aggregateBytes
    /\ PutCall(d.calls, y.calls, key, y.calls[key])
    /\ Held(y)

\* Work on one call, and then more of it.
LEMMA TouchedMore ==
    ASSUME NEW d \in Decoder, NEW key, NEW y, Touched(d, y, key), NEW z, Touched(y, z, key)
    PROVE  Touched(d, z, key)
<1>1. d.aggregateBytes \in Nat /\ y.aggregateBytes \in Nat /\ z.aggregateBytes \in Nat
  BY DEF Touched, Decoder, DecoderWith
<1>2. d.aggregateBytes =< z.aggregateBytes
  BY <1>1 DEF Touched
<1>3. PutCall(d.calls, z.calls, key, z.calls[key])
  BY DEF Touched, PutCall
<1>4. SameFlags(d, z) /\ SameReasons(d, z)
  BY DEF Touched, SameFlags, SameReasons
<1>. QED
  BY <1>2, <1>3, <1>4 DEF Touched

\* A decoder that is alike is within the same budgets.
LEMMA HeldAlike ==
    ASSUME NEW d, NEW x, Held(d), Alike(d, x)
    PROVE  Held(x)
  BY DEF Held, Alike, SameBytes, SameQueue

\* Replacing a call, and the numbers with it.
WithCall(d, key, call, n) ==
    [d EXCEPT !.calls = [k \in DOMAIN d.calls \cup {key} |-> IF k = key THEN call ELSE d.calls[k]],
              !.outputBytes = d.outputBytes + n]

\* What a replaced call does to the decoder.
LEMMA WithCallTouches ==
    ASSUME NEW d \in Decoder, Held(d), NEW key \in Keys, NEW call \in Call, NEW n \in Nat,
           CallHeld(call), d.outputBytes + n =< MaxOutputBytes,
           Cardinality(DOMAIN d.calls \cup {key}) =< MaxToolCalls,
           key \in DOMAIN d.calls => Len(call.arguments) = Len(d.calls[key].arguments) + n,
           key \notin DOMAIN d.calls => Len(call.arguments) = n
    PROVE  LET y == WithCall(d, key, call, n)
           IN Touched(d, y, key) /\ y.err = d.err /\ y.calls[key] = call
<1>. DEFINE y == WithCall(d, key, call, n)
            f == [k \in DOMAIN d.calls \cup {key} |-> IF k = key THEN call ELSE d.calls[k]]
<1>1. d.calls \in CallMaps /\ d.outputBytes \in Nat /\ d.textBytes \in Nat
  BY DEF Decoder, DecoderWith
<1>2. f \in CallMaps
  <2>1. DOMAIN d.calls \cup {key} \in SUBSET Keys
    BY <1>1, CallMapsAre
  <2>2. f \in [DOMAIN d.calls \cup {key} -> Call]
    BY <1>1, CallMapsAre
  <2>. HIDE DEF f
  <2>. QED
    BY <2>1, <2>2, CallMapsAre
<1>3. PutCall(d.calls, f, key, call)
  BY DEF PutCall
<1>. HIDE DEF f
<1>4. d.outputBytes + n \in Nat
  BY <1>1
<1>5. y = [d EXCEPT !.calls = f, !.outputBytes = d.outputBytes + n]
  BY DEF WithCall, f
<1>6. /\ y \in Decoder /\ SameFlags(d, y) /\ SameReasons(d, y) /\ y.pending = d.pending
      /\ y.textBytes = d.textBytes /\ y.reasoningBytes = d.reasoningBytes
      /\ y.aggregateBytes = d.aggregateBytes /\ y.calls = f /\ y.err = d.err
      /\ y.outputBytes = d.outputBytes + n
  <2>. HIDE DEF y
  <2>. QED
    BY <1>2, <1>4, <1>5 DEF Decoder, DecoderWith, SameFlags, SameReasons
<1>. HIDE DEF y
<1>7. ArgumentBytes(f) = ArgumentBytes(d.calls) + n /\ ArgumentBytes(d.calls) \in Nat
  <2>1. /\ key \in DOMAIN d.calls =>
             /\ Len(d.calls[key].arguments) \in Nat
             /\ ArgumentBytes(f) = (ArgumentBytes(d.calls) - Len(d.calls[key].arguments))
                                      + Len(call.arguments)
        /\ key \notin DOMAIN d.calls => ArgumentBytes(f) = ArgumentBytes(d.calls) + Len(call.arguments)
        /\ ArgumentBytes(d.calls) \in Nat /\ Len(call.arguments) \in Nat
    BY <1>1, <1>2, <1>3, ArgumentsPut
  <2>2. CASE key \in DOMAIN d.calls
    BY <2>1, <2>2
  <2>3. CASE key \notin DOMAIN d.calls
    BY <2>1, <2>3
  <2>. QED
    BY <2>1, <2>2, <2>3
<1>8. y.outputBytes = y.textBytes + ArgumentBytes(y.calls)
  <2>1. d.outputBytes = d.textBytes + ArgumentBytes(d.calls)
    BY DEF Held
  <2>. QED
    BY <1>1, <1>6, <1>7, <2>1
<1>9. CallsHeld(y.calls)
  <2>1. \A k \in DOMAIN d.calls : CallHeld(d.calls[k])
    BY DEF Held, CallsHeld
  <2>2. DOMAIN f = DOMAIN d.calls \cup {key} /\ \A k \in DOMAIN f : CallHeld(f[k])
    BY <1>3, <2>1 DEF PutCall
  <2>. QED
    BY <1>6, <2>2 DEF CallsHeld
<1>10. Held(y)
  BY <1>6, <1>8, <1>9 DEF Held
<1>11. d.aggregateBytes =< y.aggregateBytes
  BY <1>6 DEF Decoder, DecoderWith
<1>. QED
  BY <1>3, <1>6, <1>10, <1>11 DEF Touched, PutCall, y

\* A failure or a charge leaves every call alone.
LEMMA AlikeTouches ==
    ASSUME NEW d \in Decoder, Held(d), NEW key \in DOMAIN d.calls, NEW x,
           Alike(d, x) \/ \E n \in Nat : Paid(d, x, n)
    PROVE  Touched(d, x, key) /\ x.calls = d.calls
<1>1. d.aggregateBytes \in Nat
  BY DEF Decoder, DecoderWith
<1>2. CASE Alike(d, x)
  <2>1. x.calls = d.calls /\ PutCall(d.calls, x.calls, key, x.calls[key])
    BY <1>2 DEF Alike, PutCall
  <2>2. Held(x)
    BY <1>2, HeldAlike
  <2>. QED
    BY <1>1, <1>2, <2>1, <2>2 DEF Alike, Touched, SameBytes, SameQueue
<1>3. ASSUME NEW n \in Nat, Paid(d, x, n)
      PROVE  Touched(d, x, key) /\ x.calls = d.calls
  <2>1. x.calls = d.calls /\ PutCall(d.calls, x.calls, key, x.calls[key])
    BY <1>3 DEF Paid, PutCall
  <2>2. Held(x)
    BY <1>3 DEF Paid, Held, SameBytes
  <2>3. d.aggregateBytes =< x.aggregateBytes
    BY <1>1, <1>3 DEF Paid
  <2>. QED
    BY <1>3, <2>1, <2>2, <2>3 DEF Paid, Touched, SameBytes
<1>. QED
  BY <1>2, <1>3

\* The metadata of a fragment fits beside that of a call.
FitsBeside(call, t) ==
    /\ Len(t.name) =< MaxToolNameBytes - Len(call.name)
    /\ providerCallIDGrowth(call.providerCallID, t.id)
          =< MaxProviderCallIDBytes - Len(call.providerCallID)

Known(d, key, t) ==
    IF key \in DOMAIN d.calls THEN d
    ELSE [d EXCEPT !.calls = [k \in DOMAIN @ \cup {key} |->
                                IF k = key THEN NewCall(key, t) ELSE @[k]]]

\* The call of a fragment is opened when it is not there.
LEMMA KnownTouches ==
    ASSUME NEW d \in Decoder, Held(d), NEW key \in Keys, NEW t \in ToolFragment,
           MetadataFits(d, key, t), Cardinality(DOMAIN d.calls \cup {key}) =< MaxToolCalls
    PROVE  LET x == Known(d, key, t)
           IN /\ Touched(d, x, key) /\ x.err = d.err /\ key \in DOMAIN x.calls
              /\ FitsBeside(x.calls[key], t)
<1>1. CASE key \in DOMAIN d.calls
  <2>1. Known(d, key, t) = d
    BY <1>1 DEF Known
  <2>2. Touched(d, d, key)
    <3>1. Alike(d, d)
      BY DEF Alike, SameFlags, SameReasons, SameBytes, SameQueue
    <3>. QED
      BY <1>1, <3>1, AlikeTouches
  <2>3. FitsBeside(d.calls[key], t)
    BY <1>1 DEF MetadataFits, FitsBeside
  <2>. QED
    BY <1>1, <2>1, <2>2, <2>3
<1>2. CASE key \notin DOMAIN d.calls
  <2>. DEFINE call == NewCall(key, t)
              y == WithCall(d, key, call, 0)
  <2>1. t.id \in Strings /\ t.name \in Strings /\ Len(t.id) \in Nat /\ Len(t.name) \in Nat
    BY StringFacts DEF ToolFragment
  <2>2. FirstCallID(key, t.id) \in CallIDs
    BY <2>1 DEF FirstCallID, CallIDs
  <2>3. /\ call \in Call /\ call.providerCallID = << >> /\ call.name = << >>
        /\ call.arguments = << >> /\ call.callID = FirstCallID(key, t.id)
    BY <2>2, StringFacts DEF NewCall, Call
  <2>. HIDE DEF call
  <2>4. Len(<< >>) = 0
    OBVIOUS
  <2>5. CallHeld(call)
    BY <1>2, <2>3, <2>4, Bounds DEF CallHeld, MetadataFits
  <2>6. d.outputBytes + 0 = d.outputBytes /\ d.outputBytes =< MaxOutputBytes
    BY DEF Held, Decoder, DecoderWith
  <2>7. Known(d, key, t) = y
    <3>1. /\ d.outputBytes + 0 = d.outputBytes
          /\ Known(d, key, t) = [d EXCEPT !.calls = [k \in DOMAIN d.calls \cup {key} |->
                                                       IF k = key THEN call ELSE d.calls[k]]]
      BY <1>2, <2>6 DEF Known, call
    <3>. QED
      BY <3>1 DEF WithCall, Decoder, DecoderWith
  <2>8. Touched(d, y, key) /\ y.err = d.err /\ y.calls[key] = call
    <3>1. /\ 0 \in Nat /\ d.outputBytes + 0 =< MaxOutputBytes
          /\ key \in DOMAIN d.calls => Len(call.arguments) = Len(d.calls[key].arguments) + 0
          /\ key \notin DOMAIN d.calls => Len(call.arguments) = 0
      BY <1>2, <2>3, <2>4, <2>6
    <3>. QED
      BY <2>3, <2>5, <3>1, WithCallTouches
  <2>9. FitsBeside(call, t)
    <3>1. Len(t.id) =< MaxProviderCallIDBytes /\ Len(t.name) =< MaxToolNameBytes
      BY <1>2, <2>1, <2>4, Bounds DEF MetadataFits, FirstCallID
    <3>2. appendProviderCallID(<< >>, t.id) = t.id
      BY <2>1 DEF appendProviderCallID, IsPrefix, Strings
    <3>3. providerCallIDGrowth(<< >>, t.id) = Len(t.id)
      BY <2>1, <2>4, <3>2 DEF providerCallIDGrowth
    <3>. QED
      BY <2>1, <2>3, <2>4, <3>1, <3>3, Bounds DEF FitsBeside
  <2>10. key \in DOMAIN y.calls
    BY <2>8 DEF Touched, PutCall
  <2>. QED
    BY <2>7, <2>8, <2>9, <2>10
<1>. QED
  BY <1>1, <1>2

\* A call that is there can be replaced within the bound on calls.
LEMMA SameCardinality ==
    ASSUME NEW d, Held(d), NEW key \in DOMAIN d.calls
    PROVE  Cardinality(DOMAIN d.calls \cup {key}) =< MaxToolCalls
<1>1. DOMAIN d.calls \cup {key} = DOMAIN d.calls
  OBVIOUS
<1>. QED
  BY <1>1 DEF Held, CallsHeld

\* The metadata of a fragment is added to its call, and charged.
LEMMA AddNameTouches ==
    ASSUME NEW d \in Decoder, Held(d), d.err = "", NEW key \in DOMAIN d.calls,
           NEW t \in ToolFragment, FitsBeside(d.calls[key], t)
    PROVE  Touched(d, addName(d, key, t), key)
<1>. DEFINE old == d.calls[key]
            n == providerCallIDGrowth(old.providerCallID, t.id)
            new == [old EXCEPT !.providerCallID = appendProviderCallID(old.providerCallID, t.id),
                               !.name = old.name \o t.name]
            cond == validToolNamePrefix(old.name \o t.name)
            x1 == Require(d, cond, "undeclared")
            x2 == Then(x1, LAMBDA x : reserveAggregateBytes(x,
                      providerCallIDGrowth(x.calls[key].providerCallID, t.id)))
            x3 == Then(x2, LAMBDA x :
                     [x EXCEPT !.calls[key].providerCallID = appendProviderCallID(@, t.id),
                               !.calls[key].name = @ \o t.name])
<1>1. addName(d, key, t) = x3
  BY DEF addName
<1>2. old \in Call /\ key \in Keys
  BY CallMapsAre DEF Decoder, DecoderWith
<1>3. t.id \in Strings /\ t.name \in Strings /\ old.providerCallID \in Strings /\ old.name \in Strings
  BY <1>2 DEF ToolFragment, Call
<1>4. /\ n \in Nat /\ appendProviderCallID(old.providerCallID, t.id) \in Strings
      /\ Len(appendProviderCallID(old.providerCallID, t.id)) = Len(old.providerCallID) + n
  BY <1>3, AppendGrows
<1>5. /\ new \in Call /\ new.arguments = old.arguments /\ new.name = old.name \o t.name
      /\ new.providerCallID = appendProviderCallID(old.providerCallID, t.id)
      /\ new.callID = old.callID
  BY <1>2, <1>3, <1>4, StringFacts DEF Call
<1>6. CallHeld(new)
  <2>1. /\ Len(old.name \o t.name) = Len(old.name) + Len(t.name)
        /\ Len(old.name) \in Nat /\ Len(t.name) \in Nat /\ Len(old.providerCallID) \in Nat
    BY <1>3, StringFacts
  <2>2. Len(old.arguments) =< MaxToolCallArgumentBytes /\ Len(old.callID) =< MaxProviderCallIDBytes
    BY DEF Held, CallsHeld, CallHeld
  <2>3. Len(t.name) =< MaxToolNameBytes - Len(old.name) /\ n =< MaxProviderCallIDBytes - Len(old.providerCallID)
    BY DEF FitsBeside
  <2>4. n \in Nat /\ Len(new.providerCallID) = Len(old.providerCallID) + n
    BY <1>4, <1>5
  <2>5. /\ Len(new.name) = Len(old.name) + Len(t.name) /\ new.arguments = old.arguments
        /\ new.callID = old.callID
    BY <1>5, <2>1
  <2>. HIDE DEF n, new, old
  <2>6. Len(new.name) =< MaxToolNameBytes
    BY <2>1, <2>3, <2>5, Bounds, AddWithin, Zenon
  <2>7. Len(new.providerCallID) =< MaxProviderCallIDBytes
    BY <2>1, <2>3, <2>4, Bounds, AddWithin, Zenon
  <2>. QED
    BY <2>2, <2>5, <2>6, <2>7 DEF CallHeld
<1>7. cond \in BOOLEAN
  BY DEF validToolNamePrefix
<1>. HIDE DEF cond
<1>8. Checked(d, x1)
  BY <1>7, CheckedSelf, CheckMore, ErrorNames
<1>. HIDE DEF x1
<1>9. x1.err # "" => Touched(d, x3, key)
  <2>. SUFFICES ASSUME x1.err # ""
                PROVE  Touched(d, x3, key)
    OBVIOUS
  <2>1. x3 = x1
    BY DEF Then
  <2>. QED
    BY <1>8, <2>1, AlikeTouches DEF Checked
<1>10. ASSUME x1.err = ""
       PROVE  Touched(d, x3, key)
  <2>1. x1 = d /\ x2 = reserveAggregateBytes(d, n)
    BY <1>8, <1>10 DEF Checked, Then
  <2>. HIDE DEF x2, n
  <2>2. (Alike(d, x2) /\ x2.err = "limit") \/ Paid(d, x2, n)
    BY <1>4, <2>1, ReservePaid
  <2>3. Touched(d, x2, key) /\ x2.calls = d.calls /\ x2 \in Decoder
    BY <1>4, <2>2, AlikeTouches DEF Touched
  <2>4. CASE x2.err # ""
    BY <2>3, <2>4 DEF Then
  <2>5. CASE x2.err = ""
    <3>. DEFINE y == WithCall(x2, key, new, 0)
    <3>1. x2.outputBytes + 0 = x2.outputBytes /\ x2.outputBytes =< MaxOutputBytes /\ Held(x2)
      <4>1. Held(x2)
        BY <2>3 DEF Touched
      <4>2. x2.outputBytes \in Nat
        BY <2>3 DEF Decoder, DecoderWith
      <4>. QED
        BY <4>1, <4>2, AddZero DEF Held
    <3>2. x3 = y
      <4>1. x3 = [x2 EXCEPT !.calls[key].providerCallID = appendProviderCallID(@, t.id),
                            !.calls[key].name = @ \o t.name]
        BY <2>5 DEF Then
      <4>2. x2.calls = [k \in DOMAIN x2.calls |-> x2.calls[k]] /\ DOMAIN x2.calls \cup {key} = DOMAIN x2.calls
        BY <2>3, CallMapsAre DEF Decoder, DecoderWith
      <4>3. x3 = [x2 EXCEPT !.calls = [x2.calls EXCEPT ![key] = new]]
        <5>1. key \in DOMAIN x2.calls /\ x2.calls[key] = old
          BY <2>3
        <5>. QED
          BY <1>2, <2>3, <4>1, <5>1 DEF Decoder, DecoderWith, Call
      <4>4. [x2.calls EXCEPT ![key] = new]
              = [k \in DOMAIN x2.calls \cup {key} |-> IF k = key THEN new ELSE x2.calls[k]]
        <5>. HIDE DEF new
        <5>. QED
          BY <4>2
      <4>. HIDE DEF new
      <4>. QED
        BY <2>3, <3>1, <4>3, <4>4 DEF WithCall, Decoder, DecoderWith
    <3>. HIDE DEF new
    <3>3. Touched(x2, y, key)
      <4>1. /\ 0 \in Nat /\ x2.outputBytes + 0 =< MaxOutputBytes /\ key \in DOMAIN x2.calls
            /\ Len(new.arguments) = Len(x2.calls[key].arguments) + 0
        <5>1. old.arguments \in Strings
          BY <1>2 DEF Call
        <5>2. Len(old.arguments) \in Nat
          BY <5>1, StringFacts
        <5>3. x2.calls[key] = old /\ key \in DOMAIN x2.calls
          BY <2>3
        <5>. HIDE DEF old
        <5>. QED
          BY <1>5, <3>1, <5>2, <5>3, AddZero
      <4>2. Cardinality(DOMAIN x2.calls \cup {key}) =< MaxToolCalls
        BY <3>1, <4>1, SameCardinality
      <4>. QED
        BY <1>2, <1>5, <1>6, <2>3, <3>1, <4>1, <4>2, WithCallTouches
    <3>. QED
      BY <2>3, <3>2, <3>3, TouchedMore
  <2>. QED
    BY <2>4, <2>5
<1>. QED
  BY <1>1, <1>9, <1>10

\* The arguments of a fragment are added to its call, counted and charged.
LEMMA AddArgumentsTouches ==
    ASSUME NEW d \in Decoder, Held(d), d.err = "", NEW key \in DOMAIN d.calls,
           NEW t \in ToolFragment
    PROVE  Touched(d, addArguments(d, key, t), key)
<1>. DEFINE old == d.calls[key]
            n == Len(t.arguments)
            new == [old EXCEPT !.arguments = old.arguments \o t.arguments]
            c1 == n =< MaxToolCallArgumentBytes - Len(old.arguments)
            c2 == n =< MaxOutputBytes - d.outputBytes
            x1 == Require(d, c1, "limit")
            x2 == Require(x1, c2, "limit")
            x3 == Then(x2, LAMBDA x : reserveAggregateBytes(x, n))
            x4 == Then(x3, LAMBDA x :
                     [x EXCEPT !.calls[key].arguments = @ \o t.arguments, !.outputBytes = @ + n])
<1>1. addArguments(d, key, t) = x4
  BY DEF addArguments
<1>2. old \in Call /\ key \in Keys
  BY CallMapsAre DEF Decoder, DecoderWith
<1>3. old.arguments \in Strings /\ t.arguments \in Strings
  BY <1>2 DEF ToolFragment, Call
<1>4. /\ n \in Nat /\ Len(old.arguments) \in Nat
      /\ old.arguments \o t.arguments \in Strings
      /\ Len(old.arguments \o t.arguments) = Len(old.arguments) + n
  BY <1>3, StringFacts
<1>5. /\ new \in Call /\ new.arguments = old.arguments \o t.arguments /\ new.name = old.name
      /\ new.providerCallID = old.providerCallID /\ new.callID = old.callID
  BY <1>2, <1>4 DEF Call
<1>6. CallHeld(old)
  BY DEF Held, CallsHeld
<1>7. c1 \in BOOLEAN /\ c2 \in BOOLEAN
  BY LeqBoolean, Zenon
<1>. HIDE DEF c1, c2
<1>8. Checked(d, x1) /\ (x1.err = "" => c1)
  BY <1>7, CheckedSelf, CheckMore, ErrorNames
<1>. HIDE DEF x1
<1>9. Checked(d, x2) /\ (x2.err = "" => c1 /\ c2)
  BY <1>7, <1>8, CheckMore, ErrorNames
<1>. HIDE DEF x2
<1>10. x2.err # "" => Touched(d, x4, key)
  <2>. SUFFICES ASSUME x2.err # ""
                PROVE  Touched(d, x4, key)
    OBVIOUS
  <2>1. x4 = x2
    BY DEF Then
  <2>. QED
    BY <1>9, <2>1, AlikeTouches DEF Checked
<1>11. ASSUME x2.err = ""
       PROVE  Touched(d, x4, key)
  <2>1. x2 = d /\ x3 = reserveAggregateBytes(d, n)
    BY <1>9, <1>11 DEF Checked, Then
  <2>2. c1 /\ c2
    BY <1>9, <1>11
  <2>3. (Alike(d, x3) /\ x3.err = "limit") \/ Paid(d, x3, n)
    <3>. HIDE DEF x3, n
    <3>. QED
      BY <1>4, <2>1, ReservePaid
  <2>. HIDE DEF x3
  <2>4. Touched(d, x3, key) /\ x3.calls = d.calls /\ x3 \in Decoder
    BY <1>4, <2>3, AlikeTouches DEF Touched
  <2>5. CASE x3.err # ""
    BY <2>4, <2>5 DEF Then
  <2>6. CASE x3.err = ""
    <3>. DEFINE y == WithCall(x3, key, new, n)
    <3>1. Held(x3) /\ x3.outputBytes \in Nat /\ x3.outputBytes = d.outputBytes
      <4>1. Held(x3)
        BY <2>4 DEF Touched
      <4>2. Paid(d, x3, n)
        BY <2>3, <2>6
      <4>. QED
        BY <2>4, <4>1, <4>2 DEF Paid, SameBytes, Decoder, DecoderWith
    <3>2. x4 = y
      <4>1. x4 = [x3 EXCEPT !.calls[key].arguments = @ \o t.arguments, !.outputBytes = @ + n]
        BY <2>6 DEF Then
      <4>2. x3.calls = [k \in DOMAIN x3.calls |-> x3.calls[k]] /\ DOMAIN x3.calls \cup {key} = DOMAIN x3.calls
        BY <2>4, CallMapsAre DEF Decoder, DecoderWith
      <4>3. x4 = [x3 EXCEPT !.calls = [x3.calls EXCEPT ![key] = new],
                            !.outputBytes = x3.outputBytes + n]
        <5>1. key \in DOMAIN x3.calls /\ x3.calls[key] = old
          BY <2>4
        <5>. HIDE DEF n
        <5>. QED
          BY <1>2, <2>4, <4>1, <5>1 DEF Decoder, DecoderWith, Call
      <4>4. [x3.calls EXCEPT ![key] = new]
              = [k \in DOMAIN x3.calls \cup {key} |-> IF k = key THEN new ELSE x3.calls[k]]
        <5>. HIDE DEF new
        <5>. QED
          BY <4>2
      <4>. HIDE DEF new, n
      <4>. QED
        BY <2>4, <4>3, <4>4 DEF WithCall, Decoder, DecoderWith
    <3>3. x3.outputBytes + n =< MaxOutputBytes
      BY <1>4, <2>2, <3>1, Bounds, AddWithin, Zenon DEF c2
    <3>4. CallHeld(new)
      <4>1. Len(old.arguments \o t.arguments) =< MaxToolCallArgumentBytes
        BY <1>4, <2>2, Bounds, AddWithin, Zenon DEF c1
      <4>. HIDE DEF new
      <4>. QED
        BY <1>5, <1>6, <4>1 DEF CallHeld
    <3>5. key \in DOMAIN x3.calls /\ Len(new.arguments) = Len(x3.calls[key].arguments) + n
      BY <1>4, <1>5, <2>4
    <3>6. Cardinality(DOMAIN x3.calls \cup {key}) =< MaxToolCalls
      BY <3>1, <3>5, SameCardinality
    <3>. HIDE DEF new, n
    <3>7. Touched(x3, y, key)
      BY <1>2, <1>4, <1>5, <2>4, <3>1, <3>3, <3>4, <3>5, <3>6, WithCallTouches
    <3>. QED
      BY <2>4, <3>2, <3>7, TouchedMore
  <2>. QED
    BY <2>5, <2>6
<1>. QED
  BY <1>1, <1>10, <1>11

\* A fragment changes its own call and nothing else, within the budgets.
LEMMA ConsumeToolCallTouches ==
    ASSUME NEW d \in Decoder, Held(d), d.err = "", NEW c, NEW t \in ToolFragment,
           <<c.index, t.index>> \in Keys, MetadataFits(d, <<c.index, t.index>>, t),
           Cardinality(DOMAIN d.calls \cup {<<c.index, t.index>>}) =< MaxToolCalls
    PROVE  Touched(d, consumeToolCall(d, c, t), <<c.index, t.index>>)
<1>. DEFINE key == <<c.index, t.index>>
            x1 == Known(d, key, t)
            x2 == addName(x1, key, t)
            x3 == Then(x2, LAMBDA x : addArguments(x, key, t))
<1>1. consumeToolCall(d, c, t) = x3
  BY DEF consumeToolCall, Known
<1>2. key \in Keys /\ MetadataFits(d, key, t) /\ Cardinality(DOMAIN d.calls \cup {key}) =< MaxToolCalls
  OBVIOUS
<1>. HIDE DEF key
<1>3. Touched(d, x1, key) /\ x1.err = "" /\ key \in DOMAIN x1.calls /\ FitsBeside(x1.calls[key], t)
  BY <1>2, KnownTouches
<1>. HIDE DEF x1
<1>4. x1 \in Decoder /\ Held(x1)
  BY <1>3 DEF Touched
<1>5. Touched(x1, x2, key)
  BY <1>3, <1>4, AddNameTouches
<1>. HIDE DEF x2
<1>6. Touched(d, x2, key)
  BY <1>3, <1>5, TouchedMore
<1>7. CASE x2.err # ""
  BY <1>1, <1>6, <1>7 DEF Then, key
<1>8. CASE x2.err = ""
  <2>1. x3 = addArguments(x2, key, t)
    BY <1>8 DEF Then
  <2>2. x2 \in Decoder /\ Held(x2) /\ key \in DOMAIN x2.calls
    BY <1>6 DEF Touched, PutCall
  <2>3. Touched(x2, x3, key)
    BY <1>8, <2>1, <2>2, AddArgumentsTouches
  <2>4. Touched(d, x3, key)
    BY <1>6, <2>3, TouchedMore
  <2>. QED
    BY <1>1, <2>4 DEF key
<1>. QED
  BY <1>7, <1>8

\* y is x after work on calls of these keys.
Worked(x, y, M) ==
    /\ y \in Decoder /\ SameFlags(x, y) /\ SameReasons(x, y) /\ y.pending = x.pending
    /\ y.textBytes = x.textBytes /\ y.reasoningBytes = x.reasoningBytes
    /\ x.aggregateBytes =< y.aggregateBytes
    /\ DOMAIN x.calls \subseteq DOMAIN y.calls /\ DOMAIN y.calls \subseteq DOMAIN x.calls \cup M
    /\ \A k \in DOMAIN x.calls \ M : y.calls[k] = x.calls[k]
    /\ Held(y)

\* Nothing is done yet.
LEMMA WorkedNone ==
    ASSUME NEW x \in Decoder, Held(x)
    PROVE  Worked(x, x, {})
<1>1. x.aggregateBytes =< x.aggregateBytes
  BY DEF Decoder, DecoderWith
<1>. QED
  BY <1>1 DEF Worked, SameFlags, SameReasons

\* Work on one more call.
LEMMA WorkedMore ==
    ASSUME NEW x \in Decoder, NEW y, NEW M, Worked(x, y, M), NEW z, NEW key, Touched(y, z, key)
    PROVE  Worked(x, z, M \cup {key})
<1>1. x.aggregateBytes \in Nat /\ y.aggregateBytes \in Nat /\ z.aggregateBytes \in Nat
  BY DEF Touched, Worked, Decoder, DecoderWith
<1>2. x.aggregateBytes =< z.aggregateBytes
  BY <1>1 DEF Touched, Worked
<1>3. /\ DOMAIN x.calls \subseteq DOMAIN z.calls
      /\ DOMAIN z.calls \subseteq DOMAIN x.calls \cup (M \cup {key})
      /\ \A k \in DOMAIN x.calls \ (M \cup {key}) : z.calls[k] = x.calls[k]
  BY DEF Touched, PutCall, Worked
<1>4. SameFlags(x, z) /\ SameReasons(x, z)
  BY DEF Touched, Worked, SameFlags, SameReasons
<1>. QED
  BY <1>2, <1>3, <1>4 DEF Touched, Worked

\* Whether a fragment fits depends on its own call alone.
LEMMA FitsCongruent ==
    ASSUME NEW x, NEW y, NEW key, NEW t, key \in DOMAIN x.calls <=> key \in DOMAIN y.calls,
           key \in DOMAIN x.calls => x.calls[key] = y.calls[key], MetadataFits(x, key, t)
    PROVE  MetadataFits(y, key, t)
  BY DEF MetadataFits

KeysUpTo(c, n) == {KeyOf(c, k) : k \in 1..n}

ConsumedTools(x, c) == Each(x, c.tools, LAMBDA y, i : consumeToolCall(y, c, c.tools[i]))

\* The fragments of a choice are each within the bounds that were checked before the
\* first of them was applied: no two are for one call.
LEMMA ConsumeTools ==
    ASSUME NEW x \in Decoder, Held(x), NEW c \in ChunkChoice, c.index \in ChoiceIndexes,
           \A k \in 1..Len(c.tools) : ToolFits(x, c, k),
           Cardinality(DOMAIN x.calls \cup KeysUpTo(c, Len(c.tools))) =< MaxToolCalls
    PROVE  Worked(x, ConsumedTools(x, c), KeysUpTo(c, Len(c.tools)))
<1>. DEFINE m == Len(c.tools)
            e == ConsumedTools(x, c)
            Fine(n, y) == Worked(x, y, KeysUpTo(c, n))
            Good == {p \in (0..m) \X Decoder : Fine(p[1], p[2])}
<1>1. m \in Nat
  BY ChunkParts
<1>2. Runs("consumeToolCall", c, x, m, e)
  BY DEF Runs, LoopBody, LoopNext, LoopStep, ConsumedTools, Each, Then
<1>3. \A n \in 1..m : ToolFits(x, c, n) /\ c.tools[n] \in ToolFragment
  BY ChunkParts
<1>4. Cardinality(DOMAIN x.calls \cup KeysUpTo(c, m)) =< MaxToolCalls
  OBVIOUS
<1>. HIDE DEF e, m
<1>5. KeysUpTo(c, m) \subseteq Keys
  BY <1>3 DEF KeysUpTo, KeyOf, ToolFits, Keys
<1>6. <<0, x>> \in Good
  <2>1. KeysUpTo(c, 0) = {}
    BY DEF KeysUpTo
  <2>2. 0 \in 0..m /\ Fine(0, x)
    <3>1. Worked(x, x, {})
      BY WorkedNone
    <3>2. 0 \in 0..m
      BY <1>1
    <3>. QED
      BY <2>1, <3>1, <3>2
  <2>. HIDE DEF Fine
  <2>. QED
    BY <2>2
<1>7. ASSUME NEW n \in 1..m, NEW y, <<n - 1, y>> \in Good
      PROVE  <<n, LoopNext("consumeToolCall", c, y, n)>> \in Good
  <2>1. y \in Decoder /\ Worked(x, y, KeysUpTo(c, n - 1))
    BY <1>7
  <2>. DEFINE z == LoopNext("consumeToolCall", c, y, n)
              t == c.tools[n]
              key == KeyOf(c, n)
  <2>2. KeysUpTo(c, n) = KeysUpTo(c, n - 1) \cup {key}
    <3>1. \A k \in 1..n : k \in 1..(n - 1) \/ k = n
      BY <1>1
    <3>2. n \in 1..n /\ \A k \in 1..(n - 1) : k \in 1..n
      BY <1>1
    <3>. QED
      BY <3>1, <3>2 DEF KeysUpTo
  <2>3. n \in 0..m /\ n \in 1..m /\ KeysUpTo(c, n) \subseteq KeysUpTo(c, m)
    <3>1. n \in 0..m /\ n \in 1..m /\ \A k \in 1..n : k \in 1..m
      BY <1>1
    <3>. QED
      BY <3>1 DEF KeysUpTo
  <2>4. CASE y.err # ""
    <3>1. z = y
      BY <2>4 DEF LoopNext
    <3>2. Worked(x, y, KeysUpTo(c, n))
      BY <2>1, <2>2 DEF Worked
    <3>3. Fine(n, z)
      BY <3>1, <3>2
    <3>. HIDE DEF Fine
    <3>. QED
      BY <2>1, <2>3, <3>1, <3>3
  <2>5. CASE y.err = ""
    <3>1. z = consumeToolCall(y, c, t)
      BY <2>5 DEF LoopNext, LoopStep
    <3>2. key \in Keys /\ key \in KeysUpTo(c, m) /\ key = <<c.index, t.index>>
      BY <1>5, <2>2, <2>3 DEF KeyOf
    <3>3. MetadataFits(y, key, t)
      <4>1. key \notin KeysUpTo(c, n - 1)
        BY <1>3, <2>3 DEF ToolFits, KeysUpTo, KeyOf
      <4>2. /\ key \in DOMAIN x.calls <=> key \in DOMAIN y.calls
            /\ key \in DOMAIN x.calls => x.calls[key] = y.calls[key]
        BY <2>1, <4>1 DEF Worked
      <4>3. MetadataFits(x, key, t)
        BY <1>3, <2>3 DEF ToolFits
      <4>. HIDE DEF key, t
      <4>. QED
        BY <4>2, <4>3, FitsCongruent
    <3>4. Cardinality(DOMAIN y.calls \cup {key}) =< MaxToolCalls
      <4>. DEFINE A == DOMAIN y.calls \cup {key}
                  B == DOMAIN x.calls \cup KeysUpTo(c, m)
      <4>1. A \subseteq B
        BY <2>1, <2>2, <2>3, <3>2 DEF Worked
      <4>2. B \subseteq Keys
        BY <1>5, CallMapsAre DEF Decoder, DecoderWith
      <4>3. IsFiniteSet(B)
        BY <4>2, KeysFinite, FS_Subset
      <4>. HIDE DEF A, B
      <4>4. Cardinality(A) =< Cardinality(B) /\ Cardinality(A) \in Nat /\ Cardinality(B) \in Nat
        BY <4>1, <4>3, FS_Subset, FS_CardinalityType
      <4>5. Cardinality(B) =< MaxToolCalls
        BY <1>4 DEF B
      <4>6. Cardinality(A) =< MaxToolCalls
        BY <4>4, <4>5, Bounds
      <4>. QED
        BY <4>6 DEF A
    <3>5. Held(y) /\ t \in ToolFragment
      BY <1>3, <2>1, <2>3 DEF Worked
    <3>6. Touched(y, z, key)
      <4>. HIDE DEF z, t
      <4>. QED
        BY <2>1, <2>5, <3>1, <3>2, <3>3, <3>4, <3>5, ConsumeToolCallTouches
    <3>. HIDE DEF z, key
    <3>7. Worked(x, z, KeysUpTo(c, n))
      BY <2>1, <2>2, <3>6, WorkedMore
    <3>8. z \in Decoder /\ Fine(n, z)
      BY <3>7 DEF Worked
    <3>. HIDE DEF Fine
    <3>. QED
      BY <2>3, <3>8 DEF z
  <2>. QED
    BY <2>4, <2>5
<1>8. <<m, e>> \in Good
  <2>. HIDE DEF Good
  <2>. QED
    BY <1>1, <1>2, <1>6, <1>7, LoopInduction
<1>. QED
  BY <1>8 DEF e, m

-----------------------------------------------------------------------------
(* One choice of a chunk.                                                  *)

ChoiceKeys(c) == KeysUpTo(c, Len(c.tools))

\* An event that was queued before, or one of this choice, which has not finished.
EventOf(y, c, event) ==
    \/ event \in ToSet(y.pending)
    \/ /\ event.type \in {"text", "reasoning"} /\ event.key = <<c.index>> /\ event.callID = << >>
       /\ y.choiceFinishReasons[c.index] = ""

\* What work on a choice may do: it charges for every event, events are of the choice
\* alone, so are the calls it changes, and a finished choice keeps its reason and its
\* calls.
Advanced(y, z, c) ==
    /\ z \in Decoder /\ SameFlags(y, z) /\ Held(z)
    /\ y.aggregateBytes =< z.aggregateBytes
    /\ z.pending # y.pending => y.aggregateBytes + EventOverhead =< z.aggregateBytes
    /\ \A i \in 1..Len(z.pending) : EventOf(y, c, z.pending[i])
    /\ DOMAIN y.calls \subseteq DOMAIN z.calls
    /\ DOMAIN z.calls \subseteq DOMAIN y.calls \cup ChoiceKeys(c)
    /\ \A k \in DOMAIN y.calls \ ChoiceKeys(c) : z.calls[k] = y.calls[k]
    /\ \A k \in ChoiceIndexes : k # c.index \/ y.choiceFinishReasons[k] # "" =>
          z.choiceFinishReasons[k] = y.choiceFinishReasons[k]
    /\ y.choiceFinishReasons[c.index] # "" =>
          /\ DOMAIN z.calls = DOMAIN y.calls
          /\ y.choiceFinishReasons[c.index] # "tool_calls" => z.calls = y.calls

\* The events that are queued are in the queue.
LEMMA QueueMembers ==
    ASSUME NEW d \in Decoder
    PROVE  \A i \in 1..Len(d.pending) : d.pending[i] \in ToSet(d.pending)
<1>1. d.pending \in Seq(EventRecord)
  BY DEF Decoder, DecoderWith
<1>. QED
  BY <1>1 DEF ToSet

\* Work on a choice, and then more of it.
LEMMA AdvancedMore ==
    ASSUME NEW x \in Decoder, NEW c, c.index \in ChoiceIndexes,
           NEW y, Advanced(x, y, c), NEW z, Advanced(y, z, c)
    PROVE  Advanced(x, z, c)
<1>1. /\ x.aggregateBytes \in Nat /\ y.aggregateBytes \in Nat /\ z.aggregateBytes \in Nat
      /\ y \in Decoder /\ z \in Decoder
  BY DEF Advanced, Decoder, DecoderWith
<1>2. /\ x.aggregateBytes =< z.aggregateBytes
      /\ z.pending # x.pending => x.aggregateBytes + EventOverhead =< z.aggregateBytes
  <2>1. /\ x.aggregateBytes =< y.aggregateBytes
        /\ y.pending # x.pending => x.aggregateBytes + EventOverhead =< y.aggregateBytes
    BY DEF Advanced
  <2>2. /\ y.aggregateBytes =< z.aggregateBytes
        /\ z.pending # y.pending => y.aggregateBytes + EventOverhead =< z.aggregateBytes
    BY DEF Advanced
  <2>3. EventOverhead \in Nat
    BY Bounds
  <2>4. CASE z.pending = y.pending /\ y.pending = x.pending
    BY <1>1, <2>1, <2>2, <2>4
  <2>5. CASE z.pending # y.pending
    BY <1>1, <2>1, <2>2, <2>3, <2>5
  <2>6. CASE y.pending # x.pending
    BY <1>1, <2>1, <2>2, <2>3, <2>6
  <2>. QED
    BY <2>4, <2>5, <2>6
<1>3. \A k \in ChoiceIndexes : k # c.index \/ x.choiceFinishReasons[k] # "" =>
         y.choiceFinishReasons[k] = x.choiceFinishReasons[k]
  BY DEF Advanced
<1>4. ASSUME NEW i \in 1..Len(z.pending)
      PROVE  EventOf(x, c, z.pending[i])
  <2>1. EventOf(y, c, z.pending[i])
    BY DEF Advanced
  <2>2. CASE z.pending[i] \in ToSet(y.pending)
    <3>1. PICK j \in DOMAIN y.pending : z.pending[i] = y.pending[j]
      BY <2>2 DEF ToSet
    <3>2. y.pending \in Seq(EventRecord)
      BY <1>1 DEF Decoder, DecoderWith
    <3>3. j \in 1..Len(y.pending)
      BY <3>1, <3>2
    <3>4. EventOf(x, c, y.pending[j])
      BY <3>3 DEF Advanced
    <3>. QED
      BY <3>1, <3>4
  <2>3. CASE z.pending[i] \notin ToSet(y.pending)
    <3>1. /\ z.pending[i].type \in {"text", "reasoning"} /\ z.pending[i].key = <<c.index>>
          /\ z.pending[i].callID = << >> /\ y.choiceFinishReasons[c.index] = ""
      BY <2>1, <2>3 DEF EventOf
    <3>2. x.choiceFinishReasons[c.index] = ""
      BY <1>3, <3>1
    <3>. QED
      BY <3>1, <3>2 DEF EventOf
  <2>. QED
    BY <2>2, <2>3
<1>5. /\ DOMAIN x.calls \subseteq DOMAIN z.calls
      /\ DOMAIN z.calls \subseteq DOMAIN x.calls \cup ChoiceKeys(c)
      /\ \A k \in DOMAIN x.calls \ ChoiceKeys(c) : z.calls[k] = x.calls[k]
  BY DEF Advanced
<1>6. \A k \in ChoiceIndexes : k # c.index \/ x.choiceFinishReasons[k] # "" =>
         z.choiceFinishReasons[k] = x.choiceFinishReasons[k]
  BY DEF Advanced
<1>7. x.choiceFinishReasons[c.index] # "" =>
          /\ DOMAIN z.calls = DOMAIN x.calls
          /\ x.choiceFinishReasons[c.index] # "tool_calls" => z.calls = x.calls
  BY <1>3 DEF Advanced
<1>8. SameFlags(x, z) /\ Held(z)
  BY DEF Advanced, SameFlags
<1>. QED
  BY <1>1, <1>2, <1>4, <1>5, <1>6, <1>7, <1>8 DEF Advanced

\* Work that leaves queue and calls alone.
LEMMA AdvancedQuietly ==
    ASSUME NEW y \in Decoder, NEW z \in Decoder, NEW c, c.index \in ChoiceIndexes, SameFlags(y, z),
           Held(z), y.aggregateBytes =< z.aggregateBytes, z.pending = y.pending,
           z.calls = y.calls, z.choiceFinishReasons = y.choiceFinishReasons
    PROVE  Advanced(y, z, c)
<1>1. \A i \in 1..Len(z.pending) : EventOf(y, c, z.pending[i])
  BY QueueMembers DEF EventOf
<1>. QED
  BY <1>1 DEF Advanced

\* A failure.
LEMMA AdvancedAlike ==
    ASSUME NEW y \in Decoder, Held(y), NEW z, Alike(y, z), NEW c, c.index \in ChoiceIndexes
    PROVE  Advanced(y, z, c)
<1>1. Held(z)
  BY HeldAlike
<1>2. y.aggregateBytes =< z.aggregateBytes
  BY DEF Alike, SameQueue, Decoder, DecoderWith
<1>. QED
  BY <1>1, <1>2, AdvancedQuietly DEF Alike, SameQueue, SameReasons

\* Nothing is done.
LEMMA AdvancedNone ==
    ASSUME NEW y \in Decoder, Held(y), NEW c, c.index \in ChoiceIndexes
    PROVE  Advanced(y, y, c)
<1>1. y.aggregateBytes =< y.aggregateBytes
  BY DEF Decoder, DecoderWith
<1>2. SameFlags(y, y)
  BY DEF SameFlags
<1>. QED
  BY <1>1, <1>2, AdvancedQuietly

\* The first reason is kept, and a different one is a conflict.
LEMMA RecordAdvances ==
    ASSUME NEW y \in Decoder, Held(y), NEW c \in ChunkChoice, c.index \in ChoiceIndexes
    PROVE  LET z == recordFinishReason(y, c.finish)
           IN Advanced(y, z, c) /\ SameBytes(y, z) /\ z.calls = y.calls
              /\ z.choiceFinishReasons = y.choiceFinishReasons
<1>. DEFINE z == recordFinishReason(y, c.finish)
<1>1. c.finish \in Reasons
  BY ChunkParts
<1>2. /\ z \in Decoder /\ SameFlags(y, z) /\ SameQueue(y, z) /\ SameBytes(y, z) /\ z.calls = y.calls
      /\ z.choiceFinishReasons = y.choiceFinishReasons
  BY <1>1 DEF recordFinishReason, Decoder, DecoderWith, SameFlags, SameQueue, SameBytes
<1>. HIDE DEF z
<1>3. Held(z) /\ z.pending = y.pending
  BY <1>2 DEF Held, SameBytes, SameQueue
<1>4. y.aggregateBytes =< z.aggregateBytes
  BY <1>2 DEF SameQueue, Decoder, DecoderWith
<1>5. Advanced(y, z, c)
  BY <1>2, <1>3, <1>4, AdvancedQuietly
<1>. QED
  BY <1>2, <1>5 DEF z

\* An event of a choice that has not finished.
LEMMA AdvancedQueued ==
    ASSUME NEW y \in Decoder, NEW z \in Decoder, NEW c, c.index \in ChoiceIndexes, SameFlags(y, z),
           Held(z), NEW event \in EventRecord, z.pending = Append(y.pending, event),
           event.type \in {"text", "reasoning"}, event.key = <<c.index>>, event.callID = << >>,
           y.choiceFinishReasons[c.index] = "", NEW n \in Nat,
           z.aggregateBytes = y.aggregateBytes + EventOverhead + n,
           z.calls = y.calls, z.choiceFinishReasons = y.choiceFinishReasons
    PROVE  Advanced(y, z, c)
<1>1. y.aggregateBytes \in Nat /\ y.pending \in Seq(EventRecord)
  BY DEF Decoder, DecoderWith
<1>2. /\ y.aggregateBytes =< z.aggregateBytes
      /\ y.aggregateBytes + EventOverhead =< z.aggregateBytes
  <2>1. y.aggregateBytes \in Nat /\ EventOverhead \in Nat
    BY <1>1, Bounds
  <2>2. /\ y.aggregateBytes =< y.aggregateBytes + EventOverhead + n
        /\ y.aggregateBytes + EventOverhead =< y.aggregateBytes + EventOverhead + n
    BY <2>1, AddFacts, Zenon
  <2>. QED
    BY <2>2, Zenon
<1>3. ASSUME NEW i \in 1..Len(z.pending)
      PROVE  EventOf(y, c, z.pending[i])
  <2>1. z.pending[i] = event \/ (i \in 1..Len(y.pending) /\ z.pending[i] = y.pending[i])
    <3>. DEFINE s == Append(y.pending, event)
    <3>1. /\ Len(s) = Len(y.pending) + 1 /\ \A j \in 1..Len(y.pending) : s[j] = y.pending[j]
          /\ s[Len(y.pending) + 1] = event
          /\ \A j \in 1..(Len(y.pending) + 1) : j \in 1..Len(y.pending) \/ j = Len(y.pending) + 1
      BY <1>1, AppendAt
    <3>2. z.pending = s
      OBVIOUS
    <3>. HIDE DEF s
    <3>3. i \in 1..(Len(y.pending) + 1)
      BY <3>1, <3>2
    <3>. QED
      BY <3>1, <3>2, <3>3, Zenon
  <2>2. CASE z.pending[i] = event
    BY <2>2 DEF EventOf
  <2>3. CASE i \in 1..Len(y.pending) /\ z.pending[i] = y.pending[i]
    BY <2>3, QueueMembers DEF EventOf
  <2>. QED
    BY <2>1, <2>2, <2>3
<1>. QED
  BY <1>2, <1>3 DEF Advanced

\* The event of a piece of text or reasoning.
LEMMA PieceEvent ==
    ASSUME NEW type \in {"text", "reasoning"}, NEW c \in ChunkChoice, NEW n \in Nat
    PROVE  LET event == Event(type, <<c.index>>, << >>, n)
           IN event \in EventRecord /\ event.type = type /\ event.key = <<c.index>> /\ event.callID = << >>
<1>1. c.index \in Int
  BY ChunkParts
<1>2. <<c.index>> \in Seq(Int) /\ type \in EventTypes /\ << >> \in CallIDs
  BY <1>1 DEF EventTypes, CallIDs
<1>. QED
  BY <1>2 DEF Event, EventRecord

\* Text is queued, charged and counted, or refused.
LEMMA AddTextAdvances ==
    ASSUME NEW y \in Decoder, Held(y), NEW c \in ChunkChoice, c.index \in ChoiceIndexes,
           c.content # 0 => y.choiceFinishReasons[c.index] = ""
    PROVE  LET z == addText(y, c)
           IN Advanced(y, z, c) /\ z.calls = y.calls
              /\ z.choiceFinishReasons = y.choiceFinishReasons
<1>. DEFINE n == c.content
            cond == n =< MaxTextBytes - y.textBytes /\ n =< MaxOutputBytes - y.outputBytes
            fits == Require(y, cond, "limit")
            event == Event("text", <<c.index>>, << >>, n)
            q == queue(y, event, n)
            z == addText(y, c)
<1>1. n \in Nat /\ cond \in BOOLEAN
  <2>1. n \in Nat
    BY ChunkParts
  <2>. QED
    BY <2>1
<1>2. CASE n = 0
  BY <1>2, AdvancedNone DEF addText
<1>3. CASE n # 0
  <2>1. Checked(y, fits) /\ (fits.err = "" => y.err = "" /\ cond)
    BY <1>1, CheckedSelf, CheckMore, ErrorNames, Zenon
  <2>2. CASE fits.err # ""
    <3>1. z = fits
      BY <1>3, <2>2 DEF addText, Queue, Then
    <3>2. Alike(y, z)
      BY <2>1, <3>1 DEF Checked
    <3>. HIDE DEF z
    <3>3. Advanced(y, z, c)
      BY <3>2, AdvancedAlike
    <3>. QED
      BY <3>2, <3>3 DEF z, Alike, SameReasons
  <2>3. CASE fits.err = ""
    <3>1. y.err = "" /\ cond /\ fits = y
      BY <2>1, <2>3 DEF Checked
    <3>2. event \in EventRecord /\ event.type = "text" /\ event.key = <<c.index>> /\ event.callID = << >>
      BY <1>1, PieceEvent
    <3>3. (Alike(y, q) /\ q.err = "limit") \/ Queued(y, q, event, n)
      <4>. HIDE DEF event, n
      <4>. QED
        BY <1>1, <3>2, QueueQueued
    <3>4. z = IF q.err # "" THEN q ELSE [q EXCEPT !.textBytes = @ + n, !.outputBytes = @ + n]
      <4>1. Queue(fits, event, n) = q
        BY <3>1 DEF Queue, Then
      <4>. QED
        BY <1>3, <4>1 DEF addText, Then
    <3>. HIDE DEF event, q, z
    <3>5. CASE Alike(y, q) /\ q.err = "limit"
      <4>1. z = q
        BY <3>4, <3>5
      <4>2. Advanced(y, z, c)
        BY <3>5, <4>1, AdvancedAlike
      <4>. QED
        BY <3>5, <4>1, <4>2 DEF z, Alike, SameReasons
    <3>6. CASE Queued(y, q, event, n)
      <4>1. z = [q EXCEPT !.textBytes = q.textBytes + n, !.outputBytes = q.outputBytes + n]
        BY <3>1, <3>4, <3>6 DEF Queued
      <4>2. /\ y.textBytes \in Nat /\ y.outputBytes \in Nat /\ q.textBytes = y.textBytes
            /\ q.outputBytes = y.outputBytes /\ q \in Decoder
        BY <3>6 DEF Queued, SameBytes, Decoder, DecoderWith
      <4>3. /\ y.textBytes + n =< MaxTextBytes /\ y.outputBytes + n =< MaxOutputBytes
            /\ y.textBytes + n \in Nat /\ y.outputBytes + n \in Nat
        BY <1>1, <3>1, <4>2, Bounds, AddWithin, AddFacts, Zenon
      <4>. HIDE DEF cond, n
      <4>4. /\ z \in Decoder /\ SameFlags(q, z) /\ SameReasons(q, z) /\ SameQueue(q, z)
            /\ z.calls = q.calls /\ z.textBytes = y.textBytes + n
            /\ z.outputBytes = y.outputBytes + n /\ z.reasoningBytes = q.reasoningBytes
        BY <4>1, <4>2, <4>3 DEF Decoder, DecoderWith, SameFlags, SameReasons, SameQueue
      <4>5. /\ SameFlags(y, z) /\ z.calls = y.calls /\ z.choiceFinishReasons = y.choiceFinishReasons
            /\ z.pending = Append(y.pending, event) /\ z.aggregateBytes = y.aggregateBytes + EventOverhead + n
            /\ z.aggregateBytes =< MaxAggregateBytes /\ z.reasoningBytes = y.reasoningBytes
        BY <3>6, <4>4 DEF Queued, SameFlags, SameReasons, SameQueue, SameBytes
      <4>6. Held(z)
        <5>1. y.calls \in CallMaps
          BY DEF Decoder, DecoderWith
        <5>2. ArgumentBytes(y.calls) \in Nat
          BY <5>1, ArgumentsSum
        <5>3. y.outputBytes = y.textBytes + ArgumentBytes(y.calls)
          BY DEF Held
        <5>4. y.outputBytes + n = (y.textBytes + n) + ArgumentBytes(y.calls)
          <6>1. (y.textBytes + ArgumentBytes(y.calls)) + n = (y.textBytes + n) + ArgumentBytes(y.calls)
            BY <1>1, <4>2, <5>2, AddSwap, Zenon
          <6>. QED
            <7>1. y.outputBytes + n = (y.textBytes + ArgumentBytes(y.calls)) + n
              BY <5>3, Zenon
            <7>. QED
              BY <6>1, <7>1, Zenon
        <5>. QED
          BY <4>3, <4>4, <4>5, <5>4 DEF Held
      <4>7. Advanced(y, z, c)
        BY <1>1, <1>3, <3>2, <4>4, <4>5, <4>6, AdvancedQueued DEF n
      <4>. QED
        BY <4>5, <4>7 DEF z
    <3>. QED
      BY <3>3, <3>5, <3>6
  <2>. QED
    BY <2>2, <2>3
<1>. QED
  BY <1>2, <1>3

\* Reasoning is queued, charged and counted, or refused.
LEMMA AddReasoningAdvances ==
    ASSUME NEW y \in Decoder, Held(y), NEW c \in ChunkChoice, c.index \in ChoiceIndexes,
           c.reasoning # 0 => y.choiceFinishReasons[c.index] = ""
    PROVE  LET z == addReasoning(y, c)
           IN Advanced(y, z, c) /\ z.calls = y.calls
              /\ z.choiceFinishReasons = y.choiceFinishReasons
<1>. DEFINE n == c.reasoning
            cond == n =< MaxReasoningBytes - y.reasoningBytes
            fits == Require(y, cond, "limit")
            event == Event("reasoning", <<c.index>>, << >>, n)
            q == queue(y, event, n)
            z == addReasoning(y, c)
<1>1. n \in Nat /\ cond \in BOOLEAN
  <2>1. n \in Nat
    BY ChunkParts
  <2>. QED
    BY <2>1, LeqBoolean, Zenon
<1>2. CASE n = 0
  BY <1>2, AdvancedNone DEF addReasoning
<1>3. CASE n # 0
  <2>1. Checked(y, fits) /\ (fits.err = "" => y.err = "" /\ cond)
    BY <1>1, CheckedSelf, CheckMore, ErrorNames, Zenon
  <2>2. CASE fits.err # ""
    <3>1. z = fits
      BY <1>3, <2>2 DEF addReasoning, Queue, Then
    <3>2. Alike(y, z)
      BY <2>1, <3>1 DEF Checked
    <3>. HIDE DEF z
    <3>3. Advanced(y, z, c)
      BY <3>2, AdvancedAlike
    <3>. QED
      BY <3>2, <3>3 DEF z, Alike, SameReasons
  <2>3. CASE fits.err = ""
    <3>1. y.err = "" /\ cond /\ fits = y
      BY <2>1, <2>3 DEF Checked
    <3>2. event \in EventRecord /\ event.type = "reasoning" /\ event.key = <<c.index>> /\ event.callID = << >>
      BY <1>1, PieceEvent
    <3>3. (Alike(y, q) /\ q.err = "limit") \/ Queued(y, q, event, n)
      <4>. HIDE DEF event, n
      <4>. QED
        BY <1>1, <3>2, QueueQueued
    <3>4. z = IF q.err # "" THEN q ELSE [q EXCEPT !.reasoningBytes = @ + n]
      <4>1. Queue(fits, event, n) = q
        BY <3>1 DEF Queue, Then
      <4>. QED
        BY <1>3, <4>1 DEF addReasoning, Then
    <3>. HIDE DEF event, q, z
    <3>5. CASE Alike(y, q) /\ q.err = "limit"
      <4>1. z = q
        BY <3>4, <3>5
      <4>2. Advanced(y, z, c)
        BY <3>5, <4>1, AdvancedAlike
      <4>. QED
        BY <3>5, <4>1, <4>2 DEF z, Alike, SameReasons
    <3>6. CASE Queued(y, q, event, n)
      <4>1. z = [q EXCEPT !.reasoningBytes = q.reasoningBytes + n]
        BY <3>1, <3>4, <3>6 DEF Queued
      <4>2. y.reasoningBytes \in Nat /\ q.reasoningBytes = y.reasoningBytes /\ q \in Decoder
        BY <3>6 DEF Queued, SameBytes, Decoder, DecoderWith
      <4>3. y.reasoningBytes + n =< MaxReasoningBytes /\ y.reasoningBytes + n \in Nat
        BY <1>1, <3>1, <4>2, Bounds, AddWithin, AddFacts, Zenon
      <4>. HIDE DEF cond, n
      <4>4. /\ z \in Decoder /\ SameFlags(q, z) /\ SameReasons(q, z) /\ SameQueue(q, z)
            /\ z.calls = q.calls /\ z.textBytes = q.textBytes
            /\ z.outputBytes = q.outputBytes /\ z.reasoningBytes = y.reasoningBytes + n
        BY <4>1, <4>2, <4>3 DEF Decoder, DecoderWith, SameFlags, SameReasons, SameQueue
      <4>5. /\ SameFlags(y, z) /\ z.calls = y.calls /\ z.choiceFinishReasons = y.choiceFinishReasons
            /\ z.pending = Append(y.pending, event) /\ z.aggregateBytes = y.aggregateBytes + EventOverhead + n
            /\ z.aggregateBytes =< MaxAggregateBytes /\ z.textBytes = y.textBytes
            /\ z.outputBytes = y.outputBytes
        BY <3>6, <4>4 DEF Queued, SameFlags, SameReasons, SameQueue, SameBytes
      <4>6. Held(z)
        BY <4>3, <4>4, <4>5 DEF Held
      <4>7. Advanced(y, z, c)
        BY <1>1, <1>3, <3>2, <4>4, <4>5, <4>6, AdvancedQueued DEF n
      <4>. QED
        BY <4>5, <4>7 DEF z
    <3>. QED
      BY <3>3, <3>5, <3>6
  <2>. QED
    BY <2>2, <2>3
<1>. QED
  BY <1>2, <1>3

\* The fragments of a choice that has finished are of calls that exist.
LEMMA ToolsAdvance ==
    ASSUME NEW y \in Decoder, Held(y), NEW c \in ChunkChoice, c.index \in ChoiceIndexes,
           \A k \in 1..Len(c.tools) : ToolFits(y, c, k),
           Cardinality(DOMAIN y.calls \cup ChoiceKeys(c)) =< MaxToolCalls,
           y.choiceFinishReasons[c.index] # "" =>
              /\ y.choiceFinishReasons[c.index] = "tool_calls"
              /\ ChoiceKeys(c) \subseteq DOMAIN y.calls
    PROVE  LET z == ConsumedTools(y, c)
           IN Advanced(y, z, c) /\ z.choiceFinishReasons = y.choiceFinishReasons
<1>. DEFINE z == ConsumedTools(y, c)
<1>1. Worked(y, z, ChoiceKeys(c))
  BY ConsumeTools DEF ChoiceKeys
<1>. HIDE DEF z
<1>2. \A i \in 1..Len(z.pending) : EventOf(y, c, z.pending[i])
  BY <1>1, QueueMembers DEF Worked, EventOf
<1>3. z.choiceFinishReasons = y.choiceFinishReasons
  BY <1>1 DEF Worked, SameReasons
<1>4. /\ DOMAIN y.calls \subseteq DOMAIN z.calls
      /\ DOMAIN z.calls \subseteq DOMAIN y.calls \cup ChoiceKeys(c)
      /\ \A k \in DOMAIN y.calls \ ChoiceKeys(c) : z.calls[k] = y.calls[k]
  BY <1>1 DEF Worked
<1>5. y.choiceFinishReasons[c.index] # "" =>
          /\ DOMAIN z.calls = DOMAIN y.calls
          /\ y.choiceFinishReasons[c.index] # "tool_calls" => z.calls = y.calls
  BY <1>4
<1>6. /\ z \in Decoder /\ SameFlags(y, z) /\ Held(z) /\ y.aggregateBytes =< z.aggregateBytes
      /\ z.pending = y.pending
  BY <1>1 DEF Worked
<1>7. Advanced(y, z, c)
  BY <1>2, <1>3, <1>4, <1>5, <1>6 DEF Advanced
<1>. QED
  BY <1>3, <1>7 DEF z

\* A choice finishes, once.
LEMMA CloseAdvances ==
    ASSUME NEW y \in Decoder, Held(y), NEW c \in ChunkChoice, c.index \in ChoiceIndexes,
           y.choiceFinishReasons[c.index] \in {"", c.finish}
    PROVE  Advanced(y, [y EXCEPT !.choiceFinishReasons[c.index] = c.finish], c)
<1>. DEFINE z == [y EXCEPT !.choiceFinishReasons[c.index] = c.finish]
            f == [y.choiceFinishReasons EXCEPT ![c.index] = c.finish]
<1>1. y.choiceFinishReasons \in [ChoiceIndexes -> Reasons] /\ c.finish \in Reasons
  BY ChunkParts DEF Decoder, DecoderWith
<1>2. /\ f \in [ChoiceIndexes -> Reasons] /\ f[c.index] = c.finish
      /\ \A k \in ChoiceIndexes : k # c.index => f[k] = y.choiceFinishReasons[k]
  BY <1>1
<1>3. z = [y EXCEPT !.choiceFinishReasons = f]
  BY DEF Decoder, DecoderWith
<1>. HIDE DEF f, z
<1>4. /\ z \in Decoder /\ SameFlags(y, z) /\ SameQueue(y, z) /\ SameBytes(y, z) /\ z.calls = y.calls
      /\ z.choiceFinishReasons = f
  BY <1>2, <1>3 DEF Decoder, DecoderWith, SameFlags, SameQueue, SameBytes
<1>5. Held(z) /\ z.pending = y.pending
  BY <1>4 DEF Held, SameBytes, SameQueue
<1>6. y.aggregateBytes =< z.aggregateBytes
  <2>1. y.aggregateBytes \in Nat /\ z.aggregateBytes = y.aggregateBytes
    BY <1>4 DEF SameQueue, Decoder, DecoderWith
  <2>. HIDE DEF z
  <2>2. y.aggregateBytes =< y.aggregateBytes
    BY <2>1, LeqSelf, Zenon
  <2>. QED
    BY <2>1, <2>2, Zenon
<1>7. \A i \in 1..Len(z.pending) : EventOf(y, c, z.pending[i])
  BY <1>5, QueueMembers DEF EventOf
<1>8. \A k \in ChoiceIndexes : k # c.index \/ y.choiceFinishReasons[k] # "" =>
          z.choiceFinishReasons[k] = y.choiceFinishReasons[k]
  BY <1>2, <1>4
<1>9. Advanced(y, z, c)
  BY <1>4, <1>5, <1>6, <1>7, <1>8 DEF Advanced
<1>. QED
  BY <1>9 DEF z

\* x is y after work on a choice that did not reach its calls.
Begun(y, x, c) ==
    Advanced(y, x, c) /\ x.calls = y.calls /\ x.choiceFinishReasons = y.choiceFinishReasons

\* A choice is consumed as a whole, or up to an error.
LEMMA ConsumeChoice ==
    ASSUME NEW y \in Decoder, Held(y), y.err = "", NEW c \in ChunkChoice, c.index \in ChoiceIndexes,
           \A k \in 1..Len(c.tools) : ToolFits(y, c, k),
           Cardinality(DOMAIN y.calls \cup ChoiceKeys(c)) =< MaxToolCalls
    PROVE  Advanced(y, consumeChoice(y, c), c)
<1>. DEFINE accepts == AcceptsTrailing(y, c)
            open == Require(y, accepts, "malformed")
            recorded == IF c.finish = "" THEN y ELSE recordFinishReason(y, c.finish)
            text == IF recorded.err # "" THEN recorded ELSE addText(recorded, c)
            reasoned == IF text.err # "" THEN text ELSE addReasoning(text, c)
            called == IF reasoned.err # "" THEN reasoned ELSE ConsumedTools(reasoned, c)
            z == consumeChoice(y, c)
<1>1. accepts \in BOOLEAN
  BY DEF AcceptsTrailing
<1>2. Checked(y, open) /\ (open.err = "" => accepts)
  BY <1>1, CheckedSelf, CheckMore, ErrorNames, Zenon
<1>3. CASE open.err # ""
  <2>1. z = open
    BY <1>3 DEF consumeChoice, Then
  <2>2. Alike(y, z)
    BY <1>2, <2>1 DEF Checked
  <2>. HIDE DEF z
  <2>3. Advanced(y, z, c)
    BY <2>2, AdvancedAlike
  <2>. QED
    BY <2>3 DEF z
<1>4. CASE open.err = ""
  <2>1. accepts /\ open = y
    BY <1>2, <1>4 DEF Checked
  <2>2. z = IF called.err # "" THEN called
            ELSE IF c.finish = "" THEN called
            ELSE [called EXCEPT !.choiceFinishReasons[c.index] = c.finish]
    <3>1. open.err = "" /\ open = y
      BY <1>4, <2>1
    <3>. HIDE DEF open
    <3>2. Then(open, LAMBDA x : IF c.finish = "" THEN x ELSE recordFinishReason(x, c.finish)) = recorded
      BY <3>1 DEF Then
    <3>. HIDE DEF recorded
    <3>3. Then(recorded, LAMBDA x : addText(x, c)) = text
      BY DEF Then
    <3>. HIDE DEF text
    <3>4. Then(text, LAMBDA x : addReasoning(x, c)) = reasoned
      BY DEF Then
    <3>. HIDE DEF reasoned
    <3>5. Then(reasoned, LAMBDA x : Each(x, c.tools, LAMBDA v, i : consumeToolCall(v, c, c.tools[i]))) = called
      BY DEF Then, ConsumedTools
    <3>. HIDE DEF called
    <3>6. z = Then(called, LAMBDA x : IF c.finish = "" THEN x
                               ELSE [x EXCEPT !.choiceFinishReasons[c.index] = c.finish])
      BY <3>2, <3>3, <3>4, <3>5 DEF consumeChoice, open
    <3>. QED
      BY <3>6 DEF Then
  <2>. HIDE DEF z
  <2>3. /\ c.content # 0 => y.choiceFinishReasons[c.index] = ""
        /\ c.reasoning # 0 => y.choiceFinishReasons[c.index] = ""
        /\ c.finish # "" => y.choiceFinishReasons[c.index] \in {"", c.finish}
        /\ y.choiceFinishReasons[c.index] # "" =>
              /\ y.choiceFinishReasons[c.index] = "tool_calls"
              /\ \A t \in ToSet(c.tools) : <<c.index, t.index>> \in DOMAIN y.calls
    BY <2>1 DEF AcceptsTrailing
  <2>. HIDE DEF accepts, open
  <2>4. y.choiceFinishReasons[c.index] # "" =>
           /\ y.choiceFinishReasons[c.index] = "tool_calls"
           /\ ChoiceKeys(c) \subseteq DOMAIN y.calls
    <3>1. c.tools \in Seq(ToolFragment)
      BY DEF ChunkChoice
    <3>2. \A k \in 1..Len(c.tools) : c.tools[k] \in ToSet(c.tools)
      BY <3>1, SeqMembers, Zenon
    <3>3. ASSUME \A t \in ToSet(c.tools) : <<c.index, t.index>> \in DOMAIN y.calls
          PROVE  \A k \in 1..Len(c.tools) : KeyOf(c, k) \in DOMAIN y.calls
      BY <3>2, <3>3, Zenon DEF KeyOf
    <3>4. ASSUME \A k \in 1..Len(c.tools) : KeyOf(c, k) \in DOMAIN y.calls
          PROVE  ChoiceKeys(c) \subseteq DOMAIN y.calls
      BY <3>4, Zenon DEF ChoiceKeys, KeysUpTo
    <3>. QED
      BY <2>3, <3>3, <3>4, Zenon
  <2>5. Begun(y, recorded, c)
    <3>1. CASE c.finish = ""
      BY <3>1, AdvancedNone DEF Begun
    <3>2. CASE c.finish # ""
      BY <3>2, RecordAdvances DEF Begun
    <3>. QED
      BY <3>1, <3>2
  <2>6. recorded \in Decoder /\ Held(recorded)
    BY <2>5 DEF Begun, Advanced
  <2>. HIDE DEF recorded
  <2>7. Begun(y, text, c)
    <3>1. CASE recorded.err # ""
      BY <2>5, <3>1
    <3>2. CASE recorded.err = ""
      <4>1. c.content # 0 => recorded.choiceFinishReasons[c.index] = ""
        BY <2>3, <2>5 DEF Begun
      <4>2. /\ Advanced(recorded, text, c) /\ text.calls = recorded.calls
            /\ text.choiceFinishReasons = recorded.choiceFinishReasons
        BY <2>6, <3>2, <4>1, AddTextAdvances
      <4>. HIDE DEF text
      <4>. QED
        BY <2>5, <4>2, AdvancedMore DEF Begun
    <3>. QED
      BY <3>1, <3>2
  <2>8. text \in Decoder /\ Held(text)
    BY <2>7 DEF Begun, Advanced
  <2>. HIDE DEF text
  <2>9. Begun(y, reasoned, c)
    <3>1. CASE text.err # ""
      BY <2>7, <3>1
    <3>2. CASE text.err = ""
      <4>1. c.reasoning # 0 => text.choiceFinishReasons[c.index] = ""
        BY <2>3, <2>7 DEF Begun
      <4>2. /\ Advanced(text, reasoned, c) /\ reasoned.calls = text.calls
            /\ reasoned.choiceFinishReasons = text.choiceFinishReasons
        BY <2>8, <3>2, <4>1, AddReasoningAdvances
      <4>. HIDE DEF reasoned
      <4>. QED
        BY <2>7, <4>2, AdvancedMore DEF Begun
    <3>. QED
      BY <3>1, <3>2
  <2>10. reasoned \in Decoder /\ Held(reasoned)
    BY <2>9 DEF Begun, Advanced
  <2>. HIDE DEF reasoned
  <2>11. Advanced(y, called, c) /\ called.choiceFinishReasons = y.choiceFinishReasons
    <3>1. CASE reasoned.err # ""
      BY <2>9, <3>1 DEF Begun
    <3>2. CASE reasoned.err = ""
      <4>1. reasoned.calls = y.calls /\ reasoned.choiceFinishReasons = y.choiceFinishReasons
        BY <2>9 DEF Begun
      <4>2. \A k \in 1..Len(c.tools) : ToolFits(reasoned, c, k)
        BY <4>1 DEF ToolFits, MetadataFits
      <4>3. /\ Cardinality(DOMAIN reasoned.calls \cup ChoiceKeys(c)) =< MaxToolCalls
            /\ reasoned.choiceFinishReasons[c.index] # "" =>
                 /\ reasoned.choiceFinishReasons[c.index] = "tool_calls"
                 /\ ChoiceKeys(c) \subseteq DOMAIN reasoned.calls
        BY <2>4, <4>1, Zenon
      <4>4. Advanced(reasoned, called, c) /\ called.choiceFinishReasons = reasoned.choiceFinishReasons
        BY <2>10, <3>2, <4>2, <4>3, ToolsAdvance
      <4>. HIDE DEF called
      <4>. QED
        BY <2>9, <4>1, <4>4, AdvancedMore DEF Begun
    <3>. QED
      BY <3>1, <3>2
  <2>12. called \in Decoder /\ Held(called)
    BY <2>11 DEF Advanced
  <2>. HIDE DEF called
  <2>13. CASE called.err # "" \/ c.finish = ""
    BY <2>2, <2>11, <2>13 DEF z
  <2>14. CASE called.err = "" /\ c.finish # ""
    <3>1. z = [called EXCEPT !.choiceFinishReasons[c.index] = c.finish]
      BY <2>2, <2>14
    <3>2. called.choiceFinishReasons[c.index] \in {"", c.finish}
      BY <2>3, <2>11, <2>14
    <3>3. Advanced(called, z, c)
      BY <2>12, <3>1, <3>2, CloseAdvances
    <3>. QED
      BY <2>11, <3>3, AdvancedMore DEF z
  <2>. QED
    BY <2>13, <2>14
<1>. QED
  BY <1>3, <1>4

-----------------------------------------------------------------------------
(* The choices of a chunk, and the chunk.                                  *)

\* Text or reasoning of a choice that d has open.
NewPiece(d, event) ==
    /\ event.type \in {"text", "reasoning"} /\ event.callID = << >>
    /\ \E k \in ChoiceIndexes : event.key = <<k>> /\ d.choiceFinishReasons[k] = ""

\* Every choice that has finished in d is frozen: FinishedChoiceFrozen of two decoders.
Frozen(d, x) ==
    \A k \in ChoiceIndexes : d.choiceFinishReasons[k] # "" =>
       /\ x.choiceFinishReasons[k] = d.choiceFinishReasons[k]
       /\ CallsOf(x, k) = CallsOf(d, k)
       /\ d.choiceFinishReasons[k] # "tool_calls" =>
             \A key \in CallsOf(d, k) : x.calls[key] = d.calls[key]

\* x is d after work on choices whose calls have these keys.
Progress(d, x, M) ==
    /\ x \in Decoder /\ SameFlags(d, x) /\ Held(x)
    /\ d.aggregateBytes =< x.aggregateBytes
    /\ x.pending # d.pending => d.aggregateBytes + EventOverhead =< x.aggregateBytes
    /\ \A i \in 1..Len(x.pending) : x.pending[i] \in ToSet(d.pending) \/ NewPiece(d, x.pending[i])
    /\ DOMAIN d.calls \subseteq DOMAIN x.calls
    /\ DOMAIN x.calls \subseteq DOMAIN d.calls \cup M
    /\ \A k \in DOMAIN d.calls \ M : x.calls[k] = d.calls[k]
    /\ Frozen(d, x)

\* The charges of two pieces of work add up.
LEMMA ChargeMore ==
    ASSUME NEW d \in Decoder, NEW y \in Decoder, NEW z \in Decoder,
           d.aggregateBytes =< y.aggregateBytes,
           y.pending # d.pending => d.aggregateBytes + EventOverhead =< y.aggregateBytes,
           y.aggregateBytes =< z.aggregateBytes,
           z.pending # y.pending => y.aggregateBytes + EventOverhead =< z.aggregateBytes
    PROVE  /\ d.aggregateBytes =< z.aggregateBytes
           /\ z.pending # d.pending => d.aggregateBytes + EventOverhead =< z.aggregateBytes
<1>1. /\ d.aggregateBytes \in Nat /\ y.aggregateBytes \in Nat /\ z.aggregateBytes \in Nat
      /\ EventOverhead \in Nat
  BY Bounds DEF Decoder, DecoderWith
<1>2. CASE z.pending = y.pending /\ y.pending = d.pending
  BY <1>1, <1>2
<1>3. CASE z.pending # y.pending
  BY <1>1, <1>3
<1>4. CASE y.pending # d.pending
  BY <1>1, <1>4
<1>. QED
  BY <1>2, <1>3, <1>4

\* The keys of a choice are its own.
LEMMA ChoiceKeysOwn == \A c : \A key \in ChoiceKeys(c) : key[1] = c.index
  BY DEF ChoiceKeys, KeysUpTo, KeyOf

\* Work on one choice leaves the finished ones alone.
LEMMA FrozenMore ==
    ASSUME NEW d \in Decoder, NEW y, Frozen(d, y), NEW c, c.index \in ChoiceIndexes,
           NEW z, Advanced(y, z, c)
    PROVE  Frozen(d, z)
<1>. SUFFICES ASSUME NEW k \in ChoiceIndexes, d.choiceFinishReasons[k] # ""
              PROVE  /\ z.choiceFinishReasons[k] = d.choiceFinishReasons[k]
                     /\ CallsOf(z, k) = CallsOf(d, k)
                     /\ d.choiceFinishReasons[k] # "tool_calls" =>
                           \A key \in CallsOf(d, k) : z.calls[key] = d.calls[key]
  BY DEF Frozen
<1>1. /\ y.choiceFinishReasons[k] = d.choiceFinishReasons[k]
      /\ CallsOf(y, k) = CallsOf(d, k)
      /\ d.choiceFinishReasons[k] # "tool_calls" =>
            \A key \in CallsOf(d, k) : y.calls[key] = d.calls[key]
  BY DEF Frozen
<1>2. z.choiceFinishReasons[k] = d.choiceFinishReasons[k]
  BY <1>1 DEF Advanced
<1>3. CASE k = c.index
  <2>1. /\ DOMAIN z.calls = DOMAIN y.calls
        /\ d.choiceFinishReasons[k] # "tool_calls" => z.calls = y.calls
    BY <1>1, <1>3 DEF Advanced
  <2>2. CallsOf(z, k) = CallsOf(y, k)
    BY <2>1 DEF CallsOf
  <2>. QED
    BY <1>1, <1>2, <2>1, <2>2
<1>4. CASE k # c.index
  <2>1. \A key \in ChoiceKeys(c) : key[1] # k
    BY <1>4, ChoiceKeysOwn
  <2>2. /\ DOMAIN y.calls \subseteq DOMAIN z.calls
        /\ DOMAIN z.calls \subseteq DOMAIN y.calls \cup ChoiceKeys(c)
        /\ \A key \in DOMAIN y.calls \ ChoiceKeys(c) : z.calls[key] = y.calls[key]
    BY DEF Advanced
  <2>3. CallsOf(z, k) = CallsOf(y, k)
    BY <2>1, <2>2 DEF CallsOf
  <2>4. \A key \in CallsOf(y, k) : z.calls[key] = y.calls[key]
    BY <2>1, <2>2 DEF CallsOf
  <2>. QED
    BY <1>1, <1>2, <2>3, <2>4
<1>. QED
  BY <1>3, <1>4

\* Work on one more choice.
LEMMA ProgressMore ==
    ASSUME NEW d \in Decoder, NEW M, NEW y, Progress(d, y, M), NEW c, c.index \in ChoiceIndexes,
           NEW z, Advanced(y, z, c)
    PROVE  Progress(d, z, M \cup ChoiceKeys(c))
<1>1. y \in Decoder /\ z \in Decoder /\ Frozen(d, y) /\ Held(z)
  BY DEF Progress, Advanced
<1>2. /\ d.aggregateBytes =< z.aggregateBytes
      /\ z.pending # d.pending => d.aggregateBytes + EventOverhead =< z.aggregateBytes
  <2>1. /\ d.aggregateBytes =< y.aggregateBytes
        /\ y.pending # d.pending => d.aggregateBytes + EventOverhead =< y.aggregateBytes
    BY DEF Progress
  <2>2. /\ y.aggregateBytes =< z.aggregateBytes
        /\ z.pending # y.pending => y.aggregateBytes + EventOverhead =< z.aggregateBytes
    BY DEF Advanced
  <2>. QED
    BY <1>1, <2>1, <2>2, ChargeMore
<1>3. Frozen(d, z)
  BY <1>1, FrozenMore
<1>4. ASSUME NEW i \in 1..Len(z.pending)
      PROVE  z.pending[i] \in ToSet(d.pending) \/ NewPiece(d, z.pending[i])
  <2>1. EventOf(y, c, z.pending[i])
    BY DEF Advanced
  <2>2. CASE z.pending[i] \in ToSet(y.pending)
    <3>1. y.pending \in Seq(EventRecord)
      BY <1>1 DEF Decoder, DecoderWith
    <3>2. PICK j \in 1..Len(y.pending) : z.pending[i] = y.pending[j]
      BY <2>2, <3>1 DEF ToSet
    <3>3. y.pending[j] \in ToSet(d.pending) \/ NewPiece(d, y.pending[j])
      BY DEF Progress
    <3>. QED
      BY <3>2, <3>3
  <2>3. CASE z.pending[i] \notin ToSet(y.pending)
    <3>1. /\ z.pending[i].type \in {"text", "reasoning"} /\ z.pending[i].key = <<c.index>>
          /\ z.pending[i].callID = << >> /\ y.choiceFinishReasons[c.index] = ""
      BY <2>1, <2>3 DEF EventOf
    <3>2. d.choiceFinishReasons[c.index] = ""
      BY <1>1, <3>1 DEF Frozen
    <3>. QED
      BY <3>1, <3>2 DEF NewPiece
  <2>. QED
    BY <2>2, <2>3
<1>5. /\ DOMAIN d.calls \subseteq DOMAIN z.calls
      /\ DOMAIN z.calls \subseteq DOMAIN d.calls \cup (M \cup ChoiceKeys(c))
      /\ \A k \in DOMAIN d.calls \ (M \cup ChoiceKeys(c)) : z.calls[k] = d.calls[k]
  <2>1. /\ DOMAIN d.calls \subseteq DOMAIN y.calls
        /\ DOMAIN y.calls \subseteq DOMAIN d.calls \cup M
        /\ \A k \in DOMAIN d.calls \ M : y.calls[k] = d.calls[k]
    BY DEF Progress
  <2>2. /\ DOMAIN y.calls \subseteq DOMAIN z.calls
        /\ DOMAIN z.calls \subseteq DOMAIN y.calls \cup ChoiceKeys(c)
        /\ \A key \in DOMAIN y.calls \ ChoiceKeys(c) : z.calls[key] = y.calls[key]
    BY DEF Advanced
  <2>. QED
    BY <2>1, <2>2
<1>6. SameFlags(d, z)
  BY DEF Progress, Advanced, SameFlags
<1>. QED
  BY <1>1, <1>2, <1>3, <1>4, <1>5, <1>6 DEF Progress

\* Nothing is done yet.
LEMMA ProgressNone ==
    ASSUME NEW d \in Decoder, Held(d)
    PROVE  Progress(d, d, {})
<1>1. d.aggregateBytes \in Nat
  BY DEF Decoder, DecoderWith
<1>2. d.aggregateBytes =< d.aggregateBytes
  BY <1>1, LeqSelf, Zenon
<1>3. Frozen(d, d) /\ SameFlags(d, d)
  BY DEF Frozen, SameFlags
<1>. QED
  BY <1>2, <1>3, QueueMembers DEF Progress

ChunkKeys(chunk, n) == UNION {ChoiceKeys(chunk.choices[j]) : j \in 1..n}

\* The calls there would be after a chunk that fits are few enough.
LEMMA ChunkKeysFew ==
    ASSUME NEW d \in Decoder, NEW chunk \in Chunk, ChunkFits(d, chunk)
    PROVE  LET all == DOMAIN d.calls \cup ChunkKeys(chunk, Len(chunk.choices))
           IN all \subseteq Keys /\ IsFiniteSet(all) /\ Cardinality(all) =< MaxToolCalls
<1>. DEFINE m == Len(chunk.choices)
            K == ChunkKeys(chunk, m)
            D == DOMAIN d.calls
            N == NewKeys(d, chunk)
<1>1. D \subseteq Keys /\ IsFiniteSet(Keys)
  BY CallMapsAre, KeysFinite DEF Decoder, DecoderWith
<1>2. ASSUME NEW key \in K
      PROVE  key \in Keys /\ (key \in N \/ key \in D)
  <2>1. PICK j \in 1..m : key \in ChoiceKeys(chunk.choices[j])
    BY <1>2 DEF ChunkKeys
  <2>. DEFINE c == chunk.choices[j]
  <2>2. PICK k \in 1..Len(c.tools) : key = <<c.index, c.tools[k].index>>
    BY <2>1 DEF ChoiceKeys, KeysUpTo, KeyOf
  <2>3. c \in ToSet(chunk.choices)
    <3>1. chunk.choices \in Seq(ChunkChoice)
      BY DEF Chunk
    <3>. QED
      BY <3>1, SeqMembers, Zenon
  <2>4. c.tools[k] \in ToSet(c.tools)
    <3>1. c \in ChunkChoice
      BY ChunkParts
    <3>2. c.tools \in Seq(ToolFragment)
      BY <3>1 DEF ChunkChoice
    <3>. QED
      BY <3>2, SeqMembers, Zenon
  <2>5. c.index \in ChoiceIndexes /\ c.tools[k].index \in 0..(MaxToolCalls - 1)
    BY DEF ChunkFits, ChoiceFits, ToolFits
  <2>. HIDE DEF c
  <2>6. key \in Keys
    BY <2>2, <2>5 DEF Keys
  <2>7. key \in {<<c.index, t.index>> : t \in ToSet(c.tools)}
    BY <2>2, <2>4
  <2>8. {<<c.index, t.index>> : t \in ToSet(c.tools)}
           \in {{<<b.index, t.index>> : t \in ToSet(b.tools)} : b \in ToSet(chunk.choices)}
    BY <2>3
  <2>9. key \in UNION {{<<b.index, t.index>> : t \in ToSet(b.tools)} : b \in ToSet(chunk.choices)}
    BY <2>7, <2>8, Zenon
  <2>. QED
    BY <2>6, <2>9 DEF NewKeys
<1>3. Cardinality(N) =< MaxToolCalls - Cardinality(D)
  BY DEF ChunkFits
<1>. HIDE DEF K, D, N
<1>. DEFINE A == D \cup K
            B == A \ D
<1>4. A \subseteq Keys /\ IsFiniteSet(A) /\ IsFiniteSet(D) /\ IsFiniteSet(B)
  <2>1. A \subseteq Keys /\ D \subseteq Keys /\ B \subseteq Keys
    BY <1>1, <1>2
  <2>. HIDE DEF A, B
  <2>. QED
    BY <1>1, <2>1, FS_Subset
<1>5. B \subseteq N
  BY <1>2
<1>6. IsFiniteSet(N)
  <2>1. N \subseteq Keys
    <3>. SUFFICES ASSUME NEW key \in N
                  PROVE  key \in K
      BY <1>2
    <3>1. PICK c \in ToSet(chunk.choices) : key \in {<<c.index, t.index>> : t \in ToSet(c.tools)}
      BY DEF N, NewKeys
    <3>2. PICK t \in ToSet(c.tools) : key = <<c.index, t.index>>
      BY <3>1
    <3>3. chunk.choices \in Seq(ChunkChoice)
      BY DEF Chunk
    <3>4. PICK j \in 1..m : c = chunk.choices[j]
      BY <3>3 DEF ToSet
    <3>5. c \in ChunkChoice
      BY <3>4, ChunkParts
    <3>6. c.tools \in Seq(ToolFragment)
      BY <3>5 DEF ChunkChoice
    <3>7. PICK k \in 1..Len(c.tools) : t = c.tools[k]
      BY <3>6 DEF ToSet
    <3>8. key \in ChoiceKeys(c)
      BY <3>2, <3>7 DEF ChoiceKeys, KeysUpTo, KeyOf
    <3>. QED
      BY <3>4, <3>8 DEF K, ChunkKeys
  <2>. QED
    BY <1>1, <2>1, FS_Subset
<1>7. /\ Cardinality(B) =< Cardinality(N) /\ Cardinality(B) \in Nat /\ Cardinality(N) \in Nat
      /\ Cardinality(D) \in Nat
  <2>. HIDE DEF A, B
  <2>. QED
    BY <1>4, <1>5, <1>6, FS_Subset, FS_CardinalityType
<1>8. Cardinality(A) =< Cardinality(D) + Cardinality(B)
  <2>1. A = D \cup B /\ D \cap B = {}
    OBVIOUS
  <2>. HIDE DEF A, B
  <2>2. /\ Cardinality(A) = Cardinality(D) + Cardinality(B) - Cardinality(D \cap B)
        /\ Cardinality(D \cap B) = 0
    BY <1>4, <2>1, FS_Union, FS_EmptySet
  <2>. QED
    BY <1>7, <2>2
<1>9. Cardinality(A) \in Nat
  <2>. HIDE DEF A
  <2>. QED
    BY <1>4, FS_CardinalityType
<1>10. Cardinality(A) =< MaxToolCalls
  <2>. HIDE DEF A, B
  <2>. QED
    BY <1>3, <1>7, <1>8, <1>9, Bounds
<1>. QED
  BY <1>4, <1>10 DEF D, K

ConsumedChoices(x, chunk) ==
    Each(x, chunk.choices, LAMBDA y, i : consumeChoice(y, chunk.choices[i]))

\* The choices of a chunk are each within the bounds that were checked before the first
\* of them was applied: no two have the same index.
LEMMA ConsumeChoices ==
    ASSUME NEW d \in Decoder, Held(d), NEW chunk \in Chunk, ChunkFits(d, chunk)
    PROVE  Progress(d, ConsumedChoices(d, chunk), ChunkKeys(chunk, Len(chunk.choices)))
<1>. DEFINE m == Len(chunk.choices)
            e == ConsumedChoices(d, chunk)
            Fine(n, y) == Progress(d, y, ChunkKeys(chunk, n))
            Good == {p \in (0..m) \X Decoder : Fine(p[1], p[2])}
<1>1. m \in Nat
  BY ChunkParts
<1>2. Runs("consumeChoice", chunk, d, m, e)
  BY DEF Runs, LoopBody, LoopNext, LoopStep, ConsumedChoices, Each, Then
<1>3. \A n \in 1..m : ChoiceFits(d, chunk, n) /\ chunk.choices[n] \in ChunkChoice
  BY ChunkParts DEF ChunkFits
<1>. DEFINE all == DOMAIN d.calls \cup ChunkKeys(chunk, m)
<1>4. all \subseteq Keys /\ IsFiniteSet(all) /\ Cardinality(all) =< MaxToolCalls
  BY ChunkKeysFew
<1>. HIDE DEF e, m
<1>6. <<0, d>> \in Good
  <2>1. ChunkKeys(chunk, 0) = {}
    BY DEF ChunkKeys
  <2>2. 0 \in 0..m /\ Fine(0, d)
    BY <1>1, <2>1, ProgressNone
  <2>. HIDE DEF Fine
  <2>. QED
    BY <2>2
<1>7. ASSUME NEW n \in 1..m, NEW y, <<n - 1, y>> \in Good
      PROVE  <<n, LoopNext("consumeChoice", chunk, y, n)>> \in Good
  <2>1. y \in Decoder /\ Progress(d, y, ChunkKeys(chunk, n - 1))
    BY <1>7
  <2>. DEFINE z == LoopNext("consumeChoice", chunk, y, n)
              c == chunk.choices[n]
  <2>2. ChunkKeys(chunk, n) = ChunkKeys(chunk, n - 1) \cup ChoiceKeys(c)
    <3>1. \A k \in 1..n : k \in 1..(n - 1) \/ k = n
      BY <1>1
    <3>2. n \in 1..n /\ \A k \in 1..(n - 1) : k \in 1..n
      BY <1>1
    <3>. QED
      BY <3>1, <3>2 DEF ChunkKeys
  <2>3. n \in 0..m /\ n \in 1..m /\ ChunkKeys(chunk, n) \subseteq ChunkKeys(chunk, m)
    <3>1. n \in 0..m /\ n \in 1..m /\ \A k \in 1..n : k \in 1..m
      BY <1>1
    <3>. QED
      BY <3>1 DEF ChunkKeys
  <2>4. CASE y.err # ""
    <3>1. z = y
      BY <2>4 DEF LoopNext
    <3>2. Progress(d, y, ChunkKeys(chunk, n))
      BY <2>1, <2>2 DEF Progress
    <3>3. Fine(n, z)
      BY <3>1, <3>2
    <3>. HIDE DEF Fine
    <3>. QED
      BY <2>1, <2>3, <3>1, <3>3
  <2>5. CASE y.err = ""
    <3>1. z = consumeChoice(y, c)
      BY <2>5 DEF LoopNext, LoopStep
    <3>2. /\ c \in ChunkChoice /\ c.index \in ChoiceIndexes
          /\ \A j \in 1..(n - 1) : chunk.choices[j].index # c.index
          /\ \A k \in 1..Len(c.tools) : ToolFits(d, c, k)
      BY <1>3, <2>3 DEF ChoiceFits
    <3>. HIDE DEF z, c
    <3>3. \A key \in ChunkKeys(chunk, n - 1) : key[1] # c.index
      BY <3>2, ChoiceKeysOwn DEF ChunkKeys
    <3>4. ASSUME NEW k \in 1..Len(c.tools)
          PROVE  ToolFits(y, c, k)
      <4>. DEFINE key == KeyOf(c, k)
                  t == c.tools[k]
      <4>1. key \notin ChunkKeys(chunk, n - 1)
        BY <3>3 DEF KeyOf
      <4>2. /\ key \in DOMAIN d.calls <=> key \in DOMAIN y.calls
            /\ key \in DOMAIN d.calls => d.calls[key] = y.calls[key]
        BY <2>1, <4>1 DEF Progress
      <4>3. MetadataFits(d, key, t)
        BY <3>2 DEF ToolFits
      <4>4. MetadataFits(y, key, t)
        <5>. HIDE DEF key, t
        <5>. QED
          BY <4>2, <4>3, FitsCongruent
      <4>. QED
        BY <3>2, <4>4 DEF ToolFits
    <3>5. Cardinality(DOMAIN y.calls \cup ChoiceKeys(c)) =< MaxToolCalls
      <4>. DEFINE A == DOMAIN y.calls \cup ChoiceKeys(c)
      <4>1. A \subseteq all
        BY <2>1, <2>2, <2>3 DEF Progress
      <4>. HIDE DEF A, all
      <4>2. Cardinality(A) =< Cardinality(all) /\ Cardinality(A) \in Nat /\ Cardinality(all) \in Nat
        BY <1>4, <4>1, FS_Subset, FS_CardinalityType
      <4>3. Cardinality(A) =< MaxToolCalls
        BY <1>4, <4>2, Bounds
      <4>. QED
        BY <4>3 DEF A
    <3>6. Held(y)
      BY <2>1 DEF Progress
    <3>7. Advanced(y, z, c)
      BY <2>1, <2>5, <3>1, <3>2, <3>4, <3>5, <3>6, ConsumeChoice
    <3>8. Progress(d, z, ChunkKeys(chunk, n))
      BY <2>1, <2>2, <3>2, <3>7, ProgressMore DEF c
    <3>9. z \in Decoder /\ Fine(n, z)
      BY <3>8 DEF Progress
    <3>. HIDE DEF Fine
    <3>. QED
      BY <2>3, <3>9 DEF z
  <2>. QED
    BY <2>4, <2>5
<1>8. <<m, e>> \in Good
  <2>. HIDE DEF Good
  <2>. QED
    BY <1>1, <1>2, <1>6, <1>7, LoopInduction
<1>. QED
  BY <1>8 DEF e, m

\* Work on decoders that hold the same calls finds the same bounds.
LEMMA ChunkFitsSame ==
    ASSUME NEW d, NEW x, x.calls = d.calls, NEW chunk, ChunkFits(d, chunk)
    PROVE  ChunkFits(x, chunk)
<1>1. NewKeys(x, chunk) = NewKeys(d, chunk)
  BY DEF NewKeys
<1>2. \A i \in 1..Len(chunk.choices) : ChoiceFits(x, chunk, i)
  BY ZenonT(60) DEF ChunkFits, ChoiceFits, ToolFits, MetadataFits
<1>. QED
  BY <1>1, <1>2 DEF ChunkFits

\* An event about nothing in particular.
LEMMA PlainEvent ==
    ASSUME NEW type \in EventTypes
    PROVE  LET event == Plain(type)
           IN event \in EventRecord /\ event.type = type /\ event.key = << >> /\ event.callID = << >>
<1>1. << >> \in Seq(Int) /\ << >> \in CallIDs /\ 0 \in Nat
  BY DEF CallIDs
<1>. QED
  BY <1>1 DEF Plain, Event, EventRecord

\* An event that a chunk may queue.
QuietEvent(d, event) ==
    \/ NewPiece(d, event)
    \/ event.type \in {"started", "usage"} /\ event.key = << >> /\ event.callID = << >>

SameEnd(d, x) ==
    x.terminal = d.terminal /\ x.finalized = d.finalized /\ x.toolTurn = d.toolTurn

\* x is d, whose queue was empty, after work on a chunk.
Chunked(d, x) ==
    /\ x \in Decoder /\ Held(x) /\ SameEnd(d, x)
    /\ d.aggregateBytes =< x.aggregateBytes
    /\ x.pending # << >> => d.aggregateBytes + EventOverhead =< x.aggregateBytes
    /\ \A i \in 1..Len(x.pending) : QuietEvent(d, x.pending[i])
    /\ Frozen(d, x)

\* Equal calls and reasons are frozen.
LEMMA FrozenSame ==
    ASSUME NEW d, NEW y, NEW z, Frozen(d, y), z.calls = y.calls,
           z.choiceFinishReasons = y.choiceFinishReasons
    PROVE  Frozen(d, z)
  BY DEF Frozen, CallsOf

\* Work that neither queues nor touches calls.
LEMMA ChunkedAlike ==
    ASSUME NEW d \in Decoder, NEW y, Chunked(d, y), NEW z, Alike(y, z)
    PROVE  Chunked(d, z)
<1>1. Held(y) /\ Frozen(d, y)
  BY DEF Chunked
<1>2. Held(z) /\ Frozen(d, z)
  BY <1>1, HeldAlike, FrozenSame DEF Alike, SameReasons
<1>. QED
  BY <1>2 DEF Chunked, Alike, SameFlags, SameEnd, SameQueue

\* An event about nothing in particular is queued.
LEMMA ChunkedQueued ==
    ASSUME NEW d \in Decoder, NEW y, Chunked(d, y), NEW type \in {"started", "usage"},
           NEW n \in Nat, NEW z, Queued(y, z, Plain(type), n)
    PROVE  Chunked(d, z)
<1>. DEFINE event == Plain(type)
<1>1. event \in EventRecord /\ event.type = type /\ event.key = << >> /\ event.callID = << >>
  BY PlainEvent DEF EventTypes
<1>2. Queued(y, z, event, n)
  OBVIOUS
<1>. HIDE DEF event
<1>3. y \in Decoder /\ z \in Decoder /\ Held(y) /\ Frozen(d, y)
  BY <1>2 DEF Chunked, Queued
<1>4. y.pending \in Seq(EventRecord) /\ y.aggregateBytes \in Nat /\ d.aggregateBytes \in Nat
  BY <1>3 DEF Decoder, DecoderWith
<1>5. Held(z)
  BY <1>2, <1>3 DEF Held, Queued, SameBytes
<1>6. Frozen(d, z)
  BY <1>2, <1>3, FrozenSame DEF Queued, SameReasons
<1>7. SameEnd(d, z)
  BY <1>2 DEF Queued, Chunked, SameEnd, SameFlags
<1>8. /\ d.aggregateBytes =< z.aggregateBytes
      /\ d.aggregateBytes + EventOverhead =< z.aggregateBytes
  <2>1. d.aggregateBytes =< y.aggregateBytes /\ z.aggregateBytes = y.aggregateBytes + EventOverhead + n
    BY <1>2 DEF Chunked, Queued
  <2>2. EventOverhead \in Nat
    BY Bounds
  <2>3. \A a, b, e, k \in Nat : a =< b => a =< b + e + k /\ a + e =< b + e + k
    OBVIOUS
  <2>4. /\ d.aggregateBytes =< y.aggregateBytes + EventOverhead + n
        /\ d.aggregateBytes + EventOverhead =< y.aggregateBytes + EventOverhead + n
    BY <1>4, <2>1, <2>2, <2>3
  <2>. QED
    BY <2>1, <2>4, Zenon
<1>9. ASSUME NEW i \in 1..Len(z.pending)
      PROVE  QuietEvent(d, z.pending[i])
  <2>1. z.pending = Append(y.pending, event)
    BY <1>2 DEF Queued
  <2>2. CASE z.pending[i] = event
    BY <1>1, <2>2 DEF QuietEvent
  <2>3. CASE z.pending[i] # event
    <3>1. i \in 1..Len(y.pending) /\ z.pending[i] = y.pending[i]
      BY <1>1, <1>4, <2>1, <2>3, AppendAt
    <3>. QED
      BY <3>1 DEF Chunked
  <2>. QED
    BY <2>2, <2>3
<1>. QED
  BY <1>3, <1>5, <1>6, <1>7, <1>8, <1>9 DEF Chunked

\* Nothing is done yet.
LEMMA ChunkedNone ==
    ASSUME NEW d \in Decoder, Held(d), d.pending = << >>
    PROVE  Chunked(d, d)
<1>1. d.aggregateBytes \in Nat
  BY DEF Decoder, DecoderWith
<1>2. d.aggregateBytes =< d.aggregateBytes
  BY <1>1, LeqSelf, Zenon
<1>3. Frozen(d, d) /\ SameEnd(d, d)
  BY DEF Frozen, SameEnd
<1>. QED
  BY <1>2, <1>3 DEF Chunked

\* The choices are worked on.
LEMMA ChunkedProgress ==
    ASSUME NEW d \in Decoder, NEW y, Chunked(d, y), y.calls = d.calls,
           y.choiceFinishReasons = d.choiceFinishReasons, NEW M, NEW z, Progress(y, z, M)
    PROVE  Chunked(d, z)
<1>1. y \in Decoder /\ z \in Decoder /\ Held(z) /\ Frozen(y, z)
  BY DEF Chunked, Progress
<1>2. Frozen(d, z)
  BY <1>1 DEF Frozen, CallsOf
<1>3. SameEnd(d, z)
  BY DEF Chunked, Progress, SameEnd, SameFlags
<1>4. /\ d.aggregateBytes =< z.aggregateBytes
      /\ z.pending # << >> => d.aggregateBytes + EventOverhead =< z.aggregateBytes
  <2>1. /\ d.aggregateBytes \in Nat /\ y.aggregateBytes \in Nat /\ z.aggregateBytes \in Nat
        /\ EventOverhead \in Nat
    BY <1>1, Bounds DEF Decoder, DecoderWith
  <2>2. /\ d.aggregateBytes =< y.aggregateBytes
        /\ y.pending # << >> => d.aggregateBytes + EventOverhead =< y.aggregateBytes
    BY DEF Chunked
  <2>3. /\ y.aggregateBytes =< z.aggregateBytes
        /\ z.pending # y.pending => y.aggregateBytes + EventOverhead =< z.aggregateBytes
    BY DEF Progress
  <2>4. CASE z.pending = y.pending
    BY <2>1, <2>2, <2>3, <2>4
  <2>5. CASE z.pending # y.pending
    BY <2>1, <2>2, <2>3, <2>5
  <2>. QED
    BY <2>4, <2>5
<1>5. ASSUME NEW i \in 1..Len(z.pending)
      PROVE  QuietEvent(d, z.pending[i])
  <2>1. z.pending[i] \in ToSet(y.pending) \/ NewPiece(y, z.pending[i])
    BY DEF Progress
  <2>2. CASE z.pending[i] \in ToSet(y.pending)
    <3>1. y.pending \in Seq(EventRecord)
      BY <1>1 DEF Decoder, DecoderWith
    <3>2. PICK j \in 1..Len(y.pending) : z.pending[i] = y.pending[j]
      BY <2>2, <3>1 DEF ToSet
    <3>. QED
      BY <3>2 DEF Chunked
  <2>3. CASE NewPiece(y, z.pending[i])
    BY <2>3 DEF QuietEvent, NewPiece
  <2>. QED
    BY <2>1, <2>2, <2>3
<1>. QED
  BY <1>1, <1>2, <1>3, <1>4, <1>5 DEF Chunked

\* The first chunk starts the response.
LEMMA StartChunked ==
    ASSUME NEW d \in Decoder, Held(d), d.pending = << >>, d.err = "", NEW n \in Nat
    PROVE  LET x == queue([d EXCEPT !.started = TRUE], Plain("started"), n)
           IN Chunked(d, x) /\ x.calls = d.calls /\ x.choiceFinishReasons = d.choiceFinishReasons
<1>. DEFINE y == [d EXCEPT !.started = TRUE]
            event == Plain("started")
            x == queue(y, event, n)
<1>1. /\ y \in Decoder /\ SameEnd(d, y) /\ SameReasons(d, y) /\ SameBytes(d, y) /\ SameQueue(d, y)
      /\ y.calls = d.calls
  BY DEF Decoder, DecoderWith, SameEnd, SameReasons, SameBytes, SameQueue
<1>. HIDE DEF y
<1>2. Held(y)
  BY <1>1 DEF Held, SameBytes, SameQueue
<1>3. Chunked(d, y)
  <2>1. Chunked(d, d)
    BY ChunkedNone
  <2>2. Frozen(d, d)
    BY DEF Frozen
  <2>3. Frozen(d, y)
    BY <1>1, <2>2, FrozenSame DEF SameReasons
  <2>. QED
    BY <1>1, <1>2, <2>1, <2>3 DEF Chunked, SameEnd, SameQueue
<1>4. event \in EventRecord
  BY PlainEvent DEF EventTypes
<1>5. (Alike(y, x) /\ x.err = "limit") \/ Queued(y, x, event, n)
  <2>. HIDE DEF event
  <2>. QED
    BY <1>1, <1>4, QueueQueued
<1>6. x.calls = d.calls /\ x.choiceFinishReasons = d.choiceFinishReasons
  BY <1>1, <1>5 DEF Alike, Queued, SameReasons
<1>7. Chunked(d, x)
  <2>. HIDE DEF x
  <2>1. CASE Alike(y, x)
    BY <1>3, <2>1, ChunkedAlike
  <2>2. CASE Queued(y, x, event, n)
    BY <1>3, <2>2, ChunkedQueued
  <2>. QED
    BY <1>5, <2>1, <2>2
<1>. QED
  BY <1>6, <1>7 DEF y

\* A chunk is consumed as a whole, or up to an error.
LEMMA ConsumeChunk ==
    ASSUME NEW d \in Decoder, Held(d), d.pending = << >>, d.err = "", NEW chunk \in Chunk
    PROVE  Chunked(d, consumeChunk(d, chunk))
<1>. DEFINE valid == validateChunkToolBounds(d, chunk)
            started == IF d.started THEN d
                       ELSE queue([d EXCEPT !.started = TRUE], Plain("started"), chunk.idBytes)
            consumed == IF valid.err # "" THEN valid ELSE
                        IF started.err # "" THEN started ELSE ConsumedChoices(started, chunk)
            z == consumeChunk(d, chunk)
<1>1. Checked(d, valid) /\ (valid.err = "" => ChunkFits(d, chunk))
  BY ValidateChunk
<1>2. valid.err = "" => valid = d
  BY <1>1 DEF Checked
<1>3. z = IF chunk.usage THEN Queue(consumed, Plain("usage"), 0) ELSE consumed
  <2>. DEFINE s == Then(valid, LAMBDA x : IF x.started THEN x
                      ELSE queue([x EXCEPT !.started = TRUE], Plain("started"), chunk.idBytes))
              u == Then(s, LAMBDA x :
                       Each(x, chunk.choices, LAMBDA y, i : consumeChoice(y, chunk.choices[i])))
  <2>1. z = IF chunk.usage THEN Queue(u, Plain("usage"), 0) ELSE u
    BY DEF consumeChunk
  <2>2. u = IF s.err # "" THEN s ELSE ConsumedChoices(s, chunk)
    BY DEF Then, ConsumedChoices
  <2>3. s = IF valid.err # "" THEN valid ELSE started
    BY <1>2 DEF Then
  <2>. HIDE DEF z, s, u, valid, started
  <2>4. u = consumed
    BY <2>2, <2>3
  <2>. QED
    BY <2>1, <2>4
<1>. HIDE DEF z, valid
<1>4. Chunked(d, started) /\ started.calls = d.calls /\ started.choiceFinishReasons = d.choiceFinishReasons
  <2>1. chunk.idBytes \in Nat
    BY ChunkParts
  <2>. QED
    BY <2>1, ChunkedNone, StartChunked
<1>. HIDE DEF started
<1>5. Chunked(d, consumed)
  <2>1. CASE valid.err # ""
    BY <1>1, <2>1, ChunkedNone, ChunkedAlike DEF Checked
  <2>2. CASE valid.err = "" /\ started.err # ""
    BY <1>4, <2>2
  <2>3. CASE valid.err = "" /\ started.err = ""
    <3>1. started \in Decoder /\ Held(started)
      BY <1>4 DEF Chunked
    <3>2. ChunkFits(started, chunk)
      BY <1>1, <1>4, <2>3, ChunkFitsSame
    <3>. DEFINE M == ChunkKeys(chunk, Len(chunk.choices))
                e == ConsumedChoices(started, chunk)
    <3>3. Progress(started, e, M)
      BY <3>1, <3>2, ConsumeChoices
    <3>4. consumed = e
      BY <2>3
    <3>. HIDE DEF M, e
    <3>5. Chunked(d, e)
      BY <1>4, <3>3, ChunkedProgress
    <3>. QED
      BY <3>4, <3>5
  <2>. QED
    BY <2>1, <2>2, <2>3
<1>. HIDE DEF consumed
<1>6. CASE ~chunk.usage \/ consumed.err # ""
  BY <1>3, <1>5, <1>6 DEF Queue, Then, z
<1>7. CASE chunk.usage /\ consumed.err = ""
  <2>1. z = queue(consumed, Plain("usage"), 0)
    BY <1>3, <1>7 DEF Queue, Then
  <2>. DEFINE event == Plain("usage")
  <2>2. event \in EventRecord /\ consumed \in Decoder /\ 0 \in Nat
    BY <1>5, PlainEvent DEF EventTypes, Chunked
  <2>3. (Alike(consumed, z) /\ z.err = "limit") \/ Queued(consumed, z, event, 0)
    <3>. HIDE DEF event
    <3>. QED
      BY <2>1, <2>2, QueueQueued DEF event
  <2>4. CASE Alike(consumed, z)
    BY <1>5, <2>4, ChunkedAlike DEF z
  <2>5. CASE Queued(consumed, z, event, 0)
    <3>1. Chunked(d, z)
      BY <1>5, <2>2, <2>5, ChunkedQueued
    <3>. QED
      BY <3>1 DEF z
  <2>. QED
    BY <2>3, <2>4, <2>5
<1>. QED
  BY <1>6, <1>7

\* Every chunk is charged for, the one that yields nothing too.
LEMMA TranslateChunk ==
    ASSUME NEW d \in Decoder, Held(d), d.pending = << >>, d.err = "", NEW p \in DOMAIN ChunkOf
    PROVE  LET x == Translate(d, p)
           IN Chunked(d, x) /\ (x.err = "" => d.aggregateBytes + EventOverhead =< x.aggregateBytes)
<1>. DEFINE x == Translate(d, p)
            y == consumeChunk(d, ChunkOf[p])
            z == reserveAggregateBytes(y, EventOverhead)
<1>1. p # "[DONE]" /\ ChunkOf[p] \in Chunk
  BY DecoderAssumption
<1>2. x = IF y.err # "" THEN y ELSE IF y.pending = << >> THEN z ELSE y
  BY <1>1 DEF Translate, Then
<1>3. Chunked(d, y)
  BY <1>1, ConsumeChunk
<1>. HIDE DEF x, y
<1>4. CASE y.err # "" \/ y.pending # << >>
  <2>1. y.pending # << >> => d.aggregateBytes + EventOverhead =< y.aggregateBytes
    BY <1>3 DEF Chunked
  <2>. QED
    BY <1>2, <1>3, <1>4, <2>1 DEF x
<1>5. CASE y.err = "" /\ y.pending = << >>
  <2>1. y \in Decoder /\ EventOverhead \in Nat /\ x = z
    BY <1>2, <1>3, <1>5, Bounds DEF Chunked
  <2>2. (Alike(y, z) /\ z.err = "limit") \/ Paid(y, z, EventOverhead)
    BY <2>1, ReservePaid
  <2>. HIDE DEF z
  <2>3. CASE Alike(y, z) /\ z.err = "limit"
    <3>1. Chunked(d, z) /\ z.err # ""
      BY <1>3, <2>3, ChunkedAlike
    <3>. QED
      BY <2>1, <3>1 DEF x
  <2>4. CASE Paid(y, z, EventOverhead)
    <3>1. Frozen(d, z)
      BY <1>3, <2>4, FrozenSame DEF Chunked, Paid, SameReasons
    <3>2. Held(z)
      BY <1>3, <2>4 DEF Chunked, Held, Paid, SameBytes
    <3>3. d.aggregateBytes + EventOverhead =< z.aggregateBytes /\ d.aggregateBytes =< z.aggregateBytes
      <4>1. /\ d.aggregateBytes \in Nat /\ y.aggregateBytes \in Nat
            /\ d.aggregateBytes =< y.aggregateBytes /\ z.aggregateBytes = y.aggregateBytes + EventOverhead
        BY <1>3, <2>1, <2>4 DEF Chunked, Paid, Decoder, DecoderWith
      <4>2. /\ d.aggregateBytes + EventOverhead =< y.aggregateBytes + EventOverhead
            /\ d.aggregateBytes =< y.aggregateBytes + EventOverhead
        BY <2>1, <4>1, AddMonotone, Zenon
      <4>. QED
        BY <4>1, <4>2, Zenon
    <3>4. Chunked(d, z)
      BY <1>3, <2>4, <3>1, <3>2, <3>3 DEF Chunked, Paid, SameEnd, SameFlags
    <3>. QED
      BY <2>1, <3>3, <3>4 DEF x
  <2>. QED
    BY <2>2, <2>3, <2>4
<1>. QED
  BY <1>4, <1>5

-----------------------------------------------------------------------------
(* The order of the calls.  CHOOSE takes a sorted enumeration of them;     *)
(* there is one, and it leaves no call out.                                *)

\* The order of keys is strict and total.
LEMMA KeyOrder ==
    /\ \A a, b \in Keys : a = b \/ toolKeyLess(a, b) \/ toolKeyLess(b, a)
    /\ \A a, b \in Keys : ~(toolKeyLess(a, b) /\ toolKeyLess(b, a))
    /\ \A a \in Keys : ~toolKeyLess(a, a)
    /\ \A a, b, e \in Keys : toolKeyLess(a, b) /\ toolKeyLess(b, e) => toolKeyLess(a, e)
<1>1. \A a \in Keys : a = <<a[1], a[2]>> /\ a[1] \in Int /\ a[2] \in Int
  BY Bounds DEF Keys, ChoiceIndexes
<1>2. \A a, b \in Keys : a[1] = b[1] /\ a[2] = b[2] => a = b
  BY <1>1
<1>3. \A a, b \in Keys : a = b \/ toolKeyLess(a, b) \/ toolKeyLess(b, a)
  BY <1>1, <1>2 DEF toolKeyLess
<1>4. \A a, b \in Keys : ~(toolKeyLess(a, b) /\ toolKeyLess(b, a))
  BY <1>1 DEF toolKeyLess
<1>5. \A a, b, e \in Keys : toolKeyLess(a, b) /\ toolKeyLess(b, e) => toolKeyLess(a, e)
  BY <1>1 DEF toolKeyLess
<1>. QED
  BY <1>3, <1>4, <1>5

\* Of some calls there is a last one.
LEMMA LastKey ==
    ASSUME NEW M \in SUBSET Keys, M # {}
    PROVE  \E k \in M : \A a \in M \ {k} : toolKeyLess(a, k)
<1>. DEFINE Good == {T \in SUBSET M : T = {} \/ \E k \in T : \A a \in T \ {k} : toolKeyLess(a, k)}
<1>1. {} \in Good
  OBVIOUS
<1>2. ASSUME NEW T \in SUBSET M, NEW z \in M \ T, T \in Good
      PROVE  T \cup {z} \in Good
  <2>1. CASE T = {}
    BY <2>1
  <2>2. CASE T # {}
    <3>1. PICK k \in T : \A a \in T \ {k} : toolKeyLess(a, k)
      BY <1>2, <2>2
    <3>2. k \in Keys /\ z \in Keys /\ k # z /\ T \subseteq Keys
      OBVIOUS
    <3>3. CASE toolKeyLess(z, k)
      <4>1. \A a \in (T \cup {z}) \ {k} : toolKeyLess(a, k)
        BY <3>1, <3>3
      <4>. QED
        BY <4>1
    <3>4. CASE toolKeyLess(k, z)
      <4>1. \A a \in (T \cup {z}) \ {z} : toolKeyLess(a, z)
        BY <3>1, <3>2, <3>4, KeyOrder
      <4>. QED
        BY <4>1
    <3>. QED
      BY <3>2, <3>3, <3>4, KeyOrder
  <2>. QED
    BY <2>1, <2>2
<1>3. M \in Good
  <2>1. IsFiniteSet(M)
    BY KeysFinite, FS_Subset
  <2>. HIDE DEF Good
  <2>. QED
    BY <1>1, <1>2, <2>1, SubsetInduction
<1>. QED
  BY <1>3

Sorts(keys, M) ==
    /\ keys \in [1..Cardinality(M) -> M]
    /\ \A i, j \in DOMAIN keys : i < j => toolKeyLess(keys[i], keys[j])

\* The keys of some calls can be sorted.
LEMMA SortExists ==
    ASSUME NEW M \in SUBSET Keys
    PROVE  \E keys : Sorts(keys, M)
<1>. DEFINE Good == {T \in SUBSET M : \E keys : Sorts(keys, T)}
<1>1. IsFiniteSet(M)
  BY KeysFinite, FS_Subset
<1>2. ASSUME NEW U \in SUBSET M, \A V \in SUBSET U : V # U => V \in Good
      PROVE  U \in Good
  <2>1. CASE U = {}
    <3>1. Cardinality(U) = 0 /\ 1..0 = {}
      BY <2>1, FS_EmptySet
    <3>. DEFINE keys == [i \in 1..0 |-> 0]
    <3>2. keys \in [1..0 -> U]
      BY <3>1
    <3>3. DOMAIN keys = {}
      BY <3>1
    <3>. HIDE DEF keys
    <3>4. Sorts(keys, U)
      BY <3>1, <3>2, <3>3 DEF Sorts
    <3>. QED
      BY <3>4
  <2>2. CASE U # {}
    <3>1. PICK k \in U : \A a \in U \ {k} : toolKeyLess(a, k)
      BY <2>2, LastKey
    <3>. DEFINE V == U \ {k}
                n == Cardinality(V)
    <3>2. V \in Good
      BY <1>2
    <3>3. PICK f : Sorts(f, V)
      BY <3>2
    <3>4. n \in Nat /\ Cardinality(U) = n + 1
      <4>1. IsFiniteSet(U)
        BY <1>1, FS_Subset
      <4>2. IsFiniteSet(V) /\ n = Cardinality(U) - 1 /\ Cardinality(U) \in Nat
        BY <4>1, FS_RemoveElement, FS_CardinalityType
      <4>3. n \in Nat
        BY <4>2, FS_CardinalityType
      <4>. HIDE DEF V, n
      <4>. QED
        BY <4>2, <4>3
    <3>5. f \in [1..n -> V] /\ \A i, j \in 1..n : i < j => toolKeyLess(f[i], f[j])
      BY <3>3 DEF Sorts
    <3>. HIDE DEF n
    <3>. DEFINE g == [i \in 1..(n + 1) |-> IF i = n + 1 THEN k ELSE f[i]]
    <3>6. \A i \in 1..(n + 1) : i = n + 1 \/ i \in 1..n
      BY <3>4
    <3>7. n + 1 \notin 1..n /\ \A i \in 1..n : i \in 1..(n + 1) /\ i # n + 1
      BY <3>4
    <3>8. g \in [1..(n + 1) -> U] /\ g[n + 1] = k /\ \A i \in 1..n : g[i] = f[i] /\ f[i] \in V
      BY <3>4, <3>5, <3>6, <3>7
    <3>. HIDE DEF g, V
    <3>9. ASSUME NEW i \in 1..(n + 1), NEW j \in 1..(n + 1), i < j
          PROVE  toolKeyLess(g[i], g[j])
      <4>1. i \in 1..n
        BY <3>4, <3>9
      <4>2. CASE j = n + 1
        BY <3>1, <3>8, <4>1, <4>2 DEF V
      <4>3. CASE j \in 1..n
        BY <3>5, <3>8, <3>9, <4>1, <4>3
      <4>. QED
        BY <3>6, <4>2, <4>3
    <3>10. DOMAIN g = 1..(n + 1)
      BY <3>8
    <3>11. Sorts(g, U)
      BY <3>4, <3>8, <3>9, <3>10 DEF Sorts
    <3>. QED
      BY <3>11
  <2>. QED
    BY <2>1, <2>2
<1>3. \A U \in SUBSET M : U \in Good
  <2>. HIDE DEF Good
  <2>. QED
    BY <1>1, <1>2, StrictSubsetInduction
<1>. QED
  BY <1>3

\* The sorted keys of some calls: in order, each once, none left out.
LEMMA SortedKeys ==
    ASSUME NEW calls \in CallMaps
    PROVE  LET keys == sortedToolKeys(calls)
               n == Cardinality(DOMAIN calls)
           IN /\ n \in Nat /\ keys \in [1..n -> DOMAIN calls] /\ Len(keys) = n
              /\ \A i, j \in 1..n : i < j => toolKeyLess(keys[i], keys[j])
              /\ \A i, j \in 1..n : keys[i] = keys[j] => i = j
              /\ \A k \in DOMAIN calls : \E i \in 1..n : keys[i] = k
<1>. DEFINE M == DOMAIN calls
            keys == sortedToolKeys(calls)
            n == Cardinality(M)
<1>1. M \in SUBSET Keys /\ IsFiniteSet(M) /\ n \in Nat
  BY CallMapsAre, KeysFinite, FS_CardinalityType
<1>2. Sorts(keys, M)
  <2>1. \E f : Sorts(f, M)
    BY <1>1, SortExists
  <2>2. \E f \in [1..n -> M] : \A i, j \in DOMAIN f : i < j => toolKeyLess(f[i], f[j])
    BY <2>1 DEF Sorts
  <2>. QED
    BY <2>2 DEF Sorts, sortedToolKeys
<1>. HIDE DEF keys
<1>3. /\ keys \in [1..n -> M]
      /\ \A i, j \in 1..n : i < j => toolKeyLess(keys[i], keys[j])
  BY <1>2 DEF Sorts
<1>. HIDE DEF n
<1>4. \A i, j \in 1..n : keys[i] = keys[j] => i = j
  <2>1. \A i, j \in 1..n : i < j => keys[i] # keys[j]
    BY <1>1, <1>3, KeyOrder
  <2>2. \A i, j \in 1..n : i = j \/ i < j \/ j < i
    BY <1>1
  <2>. QED
    BY <2>1, <2>2
<1>5. ASSUME NEW k \in M
      PROVE  \E i \in 1..n : keys[i] = k
  <2>. SUFFICES ASSUME \A i \in 1..n : keys[i] # k
                PROVE  FALSE
    OBVIOUS
  <2>. DEFINE T == M \ {k}
              I == 1..n
  <2>1. keys \in [I -> T]
    BY <1>3
  <2>2. IsFiniteSet(T) /\ Cardinality(T) = n - 1
    BY <1>1, FS_RemoveElement DEF n
  <2>3. IsFiniteSet(I) /\ Cardinality(I) = n
    BY <1>1, FS_Interval
  <2>4. Cardinality(T) < Cardinality(I)
    BY <1>1, <2>2, <2>3
  <2>. HIDE DEF T, I
  <2>5. \E i, j \in I : i # j /\ keys[i] = keys[j]
    BY <2>1, <2>2, <2>3, <2>4, FS_PigeonHole
  <2>. QED
    BY <1>4, <2>5 DEF I
<1>6. Len(keys) = n
  BY <1>1, <1>3
<1>. QED
  BY <1>1, <1>3, <1>4, <1>5, <1>6 DEF n, keys

-----------------------------------------------------------------------------
(* What the queue holds while a turn of tool calls is finished.            *)

\* keys are sorted, each once.
InOrder(keys, calls, n) ==
    /\ n \in Nat /\ calls \in CallMaps /\ keys \in [1..n -> DOMAIN calls]
    /\ \A i, j \in 1..n : i < j => toolKeyLess(keys[i], keys[j])
    /\ \A i, j \in 1..n : keys[i] = keys[j] => i = j

\* An event about a call with a declared name, under the identifier of the call.
ToolEvent(calls, event) ==
    /\ event \in EventRecord /\ event.type \in ToolEvents /\ event.key \in DOMAIN calls
    /\ event.callID = calls[event.key].callID
    /\ calls[event.key].name \in AllowedToolNames

OnceEach(p) ==
    \A i, j \in 1..Len(p) :
       /\ p[i].type = p[j].type /\ p[i].type \in {"tool_started", "tool_completed"}
       /\ p[i].key = p[j].key
       => i = j

StartsFirst(p) ==
    \A i, j \in 1..Len(p) : p[i].type = "tool_started" /\ p[j].type = "tool_completed" => i < j

\* Arguments come between the start and the completion of their call.
ArgumentsInside(p) ==
    \A i \in 1..Len(p) : p[i].type = "tool_arguments" =>
       /\ \E j \in 1..Len(p) : j < i /\ p[j].type = "tool_started" /\ p[j].key = p[i].key
       /\ \A j \in 1..Len(p) : p[j].type = "tool_completed" /\ p[j].key = p[i].key => i < j

KeysAscend(p) ==
    \A i, j \in 1..Len(p) :
       /\ p[i].type = "tool_completed" /\ p[j].type = "tool_completed"
       /\ toolKeyLess(p[i].key, p[j].key)
       => i < j

\* The first s calls were started, the first n completed, each once, the starts before
\* the completions and these in the order of the keys.
Journal(p, calls, keys, s, n) ==
    /\ p \in Seq(EventRecord)
    /\ \A i \in 1..Len(p) : ToolEvent(calls, p[i])
    /\ \A m \in 1..s : \E i \in 1..Len(p) : p[i].type = "tool_started" /\ p[i].key = keys[m]
    /\ \A m \in 1..n : \E i \in 1..Len(p) : p[i].type = "tool_completed" /\ p[i].key = keys[m]
    /\ \A i \in 1..Len(p) : p[i].type = "tool_started" => \E m \in 1..s : p[i].key = keys[m]
    /\ \A i \in 1..Len(p) : p[i].type = "tool_completed" => \E m \in 1..n : p[i].key = keys[m]
    /\ OnceEach(p)
    /\ StartsFirst(p)
    /\ ArgumentsInside(p)
    /\ KeysAscend(p)

\* q is p with one more event.
Added(p, q, event) ==
    /\ p \in Seq(EventRecord) /\ q \in Seq(EventRecord) /\ Len(p) \in Nat
    /\ Len(q) = Len(p) + 1 /\ q[Len(p) + 1] = event
    /\ \A i \in 1..Len(p) : q[i] = p[i] /\ i \in 1..Len(q) /\ i < Len(p) + 1
    /\ Len(p) + 1 \in 1..Len(q)
    /\ \A i \in 1..Len(q) : i \in 1..Len(p) \/ i = Len(p) + 1

\* Appending adds one event.
LEMMA AppendAdds ==
    ASSUME NEW p \in Seq(EventRecord), NEW event \in EventRecord
    PROVE  Added(p, Append(p, event), event)
<1>. DEFINE q == Append(p, event)
<1>1. /\ q \in Seq(EventRecord) /\ Len(q) = Len(p) + 1 /\ Len(p) \in Nat
      /\ \A i \in 1..Len(p) : q[i] = p[i]
      /\ q[Len(p) + 1] = event
      /\ \A i \in 1..(Len(p) + 1) : i \in 1..Len(p) \/ i = Len(p) + 1
  BY AppendAt
<1>. HIDE DEF q
<1>2. /\ \A i \in 1..Len(p) : i \in 1..Len(q) /\ i < Len(p) + 1
      /\ Len(p) + 1 \in 1..Len(q)
      /\ \A i \in 1..Len(q) : i \in 1..Len(p) \/ i = Len(p) + 1
  BY <1>1
<1>3. Added(p, q, event)
  BY <1>1, <1>2 DEF Added
<1>. QED
  BY <1>3 DEF q

\* What is true of the events so far and of the new one is true of all.
LEMMA AddedAll ==
    ASSUME NEW p, NEW q, NEW event, Added(p, q, event), NEW calls,
           \A i \in 1..Len(p) : ToolEvent(calls, p[i]), ToolEvent(calls, event)
    PROVE  \A i \in 1..Len(q) : ToolEvent(calls, q[i])
  BY DEF Added

\* Arguments stay inside, and those of the new event are, too.
LEMMA InsideAdded ==
    ASSUME NEW p, NEW q, NEW event, Added(p, q, event), ArgumentsInside(p),
           event.type = "tool_arguments" =>
              /\ \E i \in 1..Len(p) : p[i].type = "tool_started" /\ p[i].key = event.key
              /\ \A i \in 1..Len(p) : p[i].type = "tool_completed" => p[i].key # event.key
    PROVE  ArgumentsInside(q)
<1>1. /\ \A i \in 1..Len(p) : q[i] = p[i] /\ i \in 1..Len(q) /\ i < Len(p) + 1
      /\ \A i \in 1..Len(q) : i \notin 1..Len(p) => i = Len(p) + 1 /\ q[i] = event
  <2>1. /\ \A i \in 1..Len(p) : q[i] = p[i] /\ i \in 1..Len(q) /\ i < Len(p) + 1
        /\ \A i \in 1..Len(q) : i \in 1..Len(p) \/ i = Len(p) + 1
        /\ q[Len(p) + 1] = event
    BY DEF Added
  <2>2. ASSUME NEW i \in 1..Len(q), i \notin 1..Len(p)
        PROVE  i = Len(p) + 1 /\ q[i] = event
    <3>1. i = Len(p) + 1
      BY <2>1, <2>2
    <3>. QED
      BY ONLY <2>1, <3>1
  <2>. QED
    BY <2>1, <2>2
<1>. SUFFICES ASSUME NEW i \in 1..Len(q), q[i].type = "tool_arguments"
              PROVE  /\ \E j \in 1..Len(q) : j < i /\ q[j].type = "tool_started" /\ q[j].key = q[i].key
                     /\ \A j \in 1..Len(q) : q[j].type = "tool_completed" /\ q[j].key = q[i].key => i < j
  BY DEF ArgumentsInside
<1>2. CASE i \in 1..Len(p)
  <2>1. /\ q[i] = p[i] /\ i < Len(p) + 1
        /\ \E j \in 1..Len(p) : j < i /\ p[j].type = "tool_started" /\ p[j].key = p[i].key
        /\ \A j \in 1..Len(p) : p[j].type = "tool_completed" /\ p[j].key = p[i].key => i < j
    BY <1>1, <1>2 DEF ArgumentsInside
  <2>. QED
    BY <1>1, <2>1
<1>3. CASE i \notin 1..Len(p)
  <2>0. i = Len(p) + 1 /\ q[i] = event
    BY <1>1, <1>3
  <2>1. PICK j \in 1..Len(p) : p[j].type = "tool_started" /\ p[j].key = event.key
    BY <2>0
  <2>2. j \in 1..Len(q) /\ j < i /\ q[j].type = "tool_started" /\ q[j].key = q[i].key
    BY <1>1, <2>0, <2>1
  <2>3. \A k \in 1..Len(q) : q[k].type = "tool_completed" => q[k].key # event.key
    <3>1. event.type # "tool_completed"
      BY <2>0
    <3>. QED
      BY <1>1, <2>0, <3>1
  <2>. QED
    BY <2>0, <2>2, <2>3
<1>. QED
  BY <1>2, <1>3

\* Arguments are sent.
LEMMA JournalArguments ==
    ASSUME NEW p, NEW calls, NEW keys, NEW s, NEW n, Journal(p, calls, keys, s, n), NEW event,
           ToolEvent(calls, event), event.type = "tool_arguments", NEW q, Added(p, q, event),
           \E i \in 1..Len(p) : p[i].type = "tool_started" /\ p[i].key = event.key,
           \A m \in 1..n : keys[m] # event.key
    PROVE  Journal(q, calls, keys, s, n)
<1>1. \A i \in 1..Len(q) : \/ i \in 1..Len(p) /\ q[i] = p[i]
                           \/ q[i].type # "tool_started" /\ q[i].type # "tool_completed"
  BY DEF Added
<1>2. \A i \in 1..Len(p) : q[i] = p[i] /\ i \in 1..Len(q)
  BY DEF Added
<1>3. \A i \in 1..Len(q) : ToolEvent(calls, q[i])
  BY AddedAll DEF Journal
<1>4. /\ \A m \in 1..s : \E i \in 1..Len(q) : q[i].type = "tool_started" /\ q[i].key = keys[m]
      /\ \A m \in 1..n : \E i \in 1..Len(q) : q[i].type = "tool_completed" /\ q[i].key = keys[m]
  <2>1. /\ \A m \in 1..s : \E i \in 1..Len(p) : p[i].type = "tool_started" /\ p[i].key = keys[m]
        /\ \A m \in 1..n : \E i \in 1..Len(p) : p[i].type = "tool_completed" /\ p[i].key = keys[m]
    BY DEF Journal
  <2>. QED
    BY <1>2, <2>1, SMTT(60)
<1>5. /\ \A i \in 1..Len(q) : q[i].type = "tool_started" => \E m \in 1..s : q[i].key = keys[m]
      /\ \A i \in 1..Len(q) : q[i].type = "tool_completed" => \E m \in 1..n : q[i].key = keys[m]
  <2>1. /\ \A i \in 1..Len(p) : p[i].type = "tool_started" => \E m \in 1..s : p[i].key = keys[m]
        /\ \A i \in 1..Len(p) : p[i].type = "tool_completed" => \E m \in 1..n : p[i].key = keys[m]
    BY DEF Journal
  <2>. QED
    BY <1>1, <2>1
<1>6. OnceEach(q)
  <2>1. OnceEach(p)
    BY DEF Journal
  <2>. SUFFICES ASSUME NEW i \in 1..Len(q), NEW j \in 1..Len(q), q[i].type \in {"tool_started", "tool_completed"},
                       q[i].type = q[j].type, q[i].key = q[j].key
                PROVE  i = j
    BY DEF OnceEach
  <2>2. i \in 1..Len(p) /\ j \in 1..Len(p) /\ q[i] = p[i] /\ q[j] = p[j]
    BY <1>1
  <2>. QED
    BY <2>1, <2>2 DEF OnceEach, StartsFirst, KeysAscend
<1>7. StartsFirst(q)
  <2>1. StartsFirst(p)
    BY DEF Journal
  <2>. SUFFICES ASSUME NEW i \in 1..Len(q), NEW j \in 1..Len(q), q[i].type = "tool_started",
                       q[j].type = "tool_completed"
                PROVE  i < j
    BY DEF StartsFirst, KeysAscend
  <2>2. i \in 1..Len(p) /\ j \in 1..Len(p) /\ q[i] = p[i] /\ q[j] = p[j]
    BY <1>1
  <2>. QED
    BY <2>1, <2>2 DEF OnceEach, StartsFirst, KeysAscend
<1>8. KeysAscend(q)
  <2>1. KeysAscend(p)
    BY DEF Journal
  <2>. SUFFICES ASSUME NEW i \in 1..Len(q), NEW j \in 1..Len(q), q[i].type = "tool_completed",
                       q[j].type = "tool_completed", toolKeyLess(q[i].key, q[j].key)
                PROVE  i < j
    BY DEF StartsFirst, KeysAscend
  <2>2. i \in 1..Len(p) /\ j \in 1..Len(p) /\ q[i] = p[i] /\ q[j] = p[j]
    BY <1>1
  <2>. QED
    BY <2>1, <2>2 DEF OnceEach, StartsFirst, KeysAscend
<1>9. ArgumentsInside(q)
  <2>1. ArgumentsInside(p)
    BY DEF Journal
  <2>2. \A i \in 1..Len(p) : p[i].type = "tool_completed" => \E m \in 1..n : p[i].key = keys[m]
    BY DEF Journal
  <2>3. \A i \in 1..Len(p) : p[i].type = "tool_completed" => p[i].key # event.key
    BY <2>2
  <2>. QED
    BY <2>1, <2>3, InsideAdded
<1>. QED
  BY <1>3, <1>4, <1>5, <1>6, <1>7, <1>8, <1>9 DEF Journal, Added

\* One more call is started, before any is completed.
LEMMA JournalStarted ==
    ASSUME NEW p, NEW calls, NEW keys, NEW l, InOrder(keys, calls, l), NEW s \in Nat, s + 1 \in 1..l,
           Journal(p, calls, keys, s, 0), NEW event, ToolEvent(calls, event),
           event.type = "tool_started", event.key = keys[s + 1], NEW q, Added(p, q, event)
    PROVE  Journal(q, calls, keys, s + 1, 0)
<1>1. \A i \in 1..Len(q) : \/ i \in 1..Len(p) /\ q[i] = p[i]
                           \/ i = Len(p) + 1 /\ q[i] = event
  BY DEF Added
<1>2. \A i \in 1..Len(p) : q[i] = p[i] /\ i \in 1..Len(q)
  BY DEF Added
<1>3. \A i \in 1..Len(q) : ToolEvent(calls, q[i])
  BY AddedAll DEF Journal
<1>4. /\ \A m \in 1..(s + 1) : m \in 1..s \/ m = s + 1
      /\ \A m \in 1..s : m \in 1..(s + 1) /\ m \in 1..l /\ m # s + 1
      /\ s + 1 \in 1..(s + 1) /\ \A m \in 1..0 : FALSE
  <2>1. l \in Nat
    BY DEF InOrder
  <2>. QED
    BY <2>1
<1>5. \A i \in 1..Len(q) : q[i].type # "tool_completed"
  BY <1>1, <1>4 DEF Journal
<1>6. \A m \in 1..(s + 1) : \E i \in 1..Len(q) : q[i].type = "tool_started" /\ q[i].key = keys[m]
  <2>1. Len(p) + 1 \in 1..Len(q) /\ q[Len(p) + 1] = event
    BY DEF Added
  <2>2. \A m \in 1..s : \E i \in 1..Len(p) : p[i].type = "tool_started" /\ p[i].key = keys[m]
    BY DEF Journal
  <2>. QED
    BY <1>2, <1>4, <2>1, <2>2
<1>7. \A i \in 1..Len(p) : p[i].type = "tool_started" => \E m \in 1..s : p[i].key = keys[m]
  BY DEF Journal
<1>8. \A i \in 1..Len(q) : q[i].type = "tool_started" => \E m \in 1..(s + 1) : q[i].key = keys[m]
  BY <1>1, <1>4, <1>7
<1>9. \A i \in 1..Len(p) : p[i].type = "tool_started" => p[i].key # event.key
  BY <1>4, <1>7 DEF InOrder
<1>10. OnceEach(q)
  <2>1. OnceEach(p)
    BY DEF Journal
  <2>. SUFFICES ASSUME NEW i \in 1..Len(q), NEW j \in 1..Len(q), q[i].type \in {"tool_started", "tool_completed"},
                       q[i].type = q[j].type, q[i].key = q[j].key
                PROVE  i = j
    BY DEF OnceEach
  <2>2. CASE i \in 1..Len(p) /\ j \in 1..Len(p) /\ q[i] = p[i] /\ q[j] = p[j]
    BY <2>1, <2>2 DEF OnceEach
  <2>3. CASE i = Len(p) + 1 /\ q[i] = event /\ j = Len(p) + 1
    BY <2>3
  <2>4. CASE i \in 1..Len(p) /\ q[i] = p[i] /\ j = Len(p) + 1 /\ q[j] = event
    BY <1>9, <2>4
  <2>5. CASE j \in 1..Len(p) /\ q[j] = p[j] /\ i = Len(p) + 1 /\ q[i] = event
    BY <1>9, <2>5
  <2>. QED
    BY <1>1, <2>2, <2>3, <2>4, <2>5
<1>11. /\ \A m \in 1..0 : \E i \in 1..Len(q) : q[i].type = "tool_completed" /\ q[i].key = keys[m]
       /\ \A i \in 1..Len(q) : q[i].type = "tool_completed" => \E m \in 1..0 : q[i].key = keys[m]
       /\ StartsFirst(q)
       /\ KeysAscend(q)
  BY <1>4, <1>5 DEF StartsFirst, KeysAscend
<1>12. ArgumentsInside(q)
  BY InsideAdded DEF Journal
<1>. QED
  BY <1>3, <1>6, <1>8, <1>10, <1>11, <1>12 DEF Journal, Added

\* One more call is completed, after all are started.
LEMMA JournalCompleted ==
    ASSUME NEW p, NEW calls, NEW keys, NEW l, InOrder(keys, calls, l), NEW s, NEW n \in Nat,
           n + 1 \in 1..l,
           Journal(p, calls, keys, s, n), NEW event, ToolEvent(calls, event),
           event.type = "tool_completed", event.key = keys[n + 1], NEW q, Added(p, q, event)
    PROVE  Journal(q, calls, keys, s, n + 1)
<1>1. \A i \in 1..Len(q) : \/ i \in 1..Len(p) /\ q[i] = p[i]
                           \/ i = Len(p) + 1 /\ q[i] = event
  BY DEF Added
<1>2. \A i \in 1..Len(p) : q[i] = p[i] /\ i \in 1..Len(q) /\ i < Len(p) + 1
  BY DEF Added
<1>3. \A i \in 1..Len(q) : ToolEvent(calls, q[i])
  BY AddedAll DEF Journal
<1>4. /\ \A m \in 1..(n + 1) : m \in 1..n \/ m = n + 1
      /\ \A m \in 1..n : m \in 1..(n + 1) /\ m \in 1..l /\ m # n + 1 /\ m < n + 1
      /\ n + 1 \in 1..(n + 1)
  <2>1. l \in Nat
    BY DEF InOrder
  <2>. QED
    BY <2>1
<1>5. \A m \in 1..(n + 1) : \E i \in 1..Len(q) : q[i].type = "tool_completed" /\ q[i].key = keys[m]
  <2>1. Len(p) + 1 \in 1..Len(q) /\ q[Len(p) + 1] = event
    BY DEF Added
  <2>2. \A m \in 1..n : \E i \in 1..Len(p) : p[i].type = "tool_completed" /\ p[i].key = keys[m]
    BY DEF Journal
  <2>. QED
    BY <1>2, <1>4, <2>1, <2>2
<1>6. \A m \in 1..s : \E i \in 1..Len(q) : q[i].type = "tool_started" /\ q[i].key = keys[m]
  <2>1. \A m \in 1..s : \E i \in 1..Len(p) : p[i].type = "tool_started" /\ p[i].key = keys[m]
    BY DEF Journal
  <2>. QED
    BY <1>2, <2>1
<1>7. \A i \in 1..Len(p) : p[i].type = "tool_completed" => \E m \in 1..n : p[i].key = keys[m]
  BY DEF Journal
<1>8. /\ \A i \in 1..Len(q) : q[i].type = "tool_completed" => \E m \in 1..(n + 1) : q[i].key = keys[m]
      /\ \A i \in 1..Len(q) : q[i].type = "tool_started" => \E m \in 1..s : q[i].key = keys[m]
  <2>1. \A i \in 1..Len(q) : q[i].type = "tool_completed" => \E m \in 1..(n + 1) : q[i].key = keys[m]
    BY <1>1, <1>4, <1>7
  <2>2. \A i \in 1..Len(q) : q[i].type = "tool_started" => i \in 1..Len(p) /\ q[i] = p[i]
    BY <1>1
  <2>3. \A i \in 1..Len(q) : q[i].type = "tool_started" => \E m \in 1..s : q[i].key = keys[m]
    <3>1. \A i \in 1..Len(p) : p[i].type = "tool_started" => \E m \in 1..s : p[i].key = keys[m]
      BY DEF Journal
    <3>. QED
      BY <2>2, <3>1
  <2>. QED
    BY <2>1, <2>3
<1>9. \A i \in 1..Len(p) : p[i].type = "tool_completed" =>
         p[i].key # event.key /\ ~toolKeyLess(event.key, p[i].key)
  <2>. SUFFICES ASSUME NEW i \in 1..Len(p), p[i].type = "tool_completed"
                PROVE  p[i].key # event.key /\ ~toolKeyLess(event.key, p[i].key)
    OBVIOUS
  <2>1. PICK m \in 1..n : p[i].key = keys[m]
    BY <1>7
  <2>2. toolKeyLess(keys[m], keys[n + 1]) /\ keys[m] \in Keys /\ keys[n + 1] \in Keys
    BY <1>4, CallMapsAre DEF InOrder
  <2>. QED
    BY <2>1, <2>2, KeyOrder
<1>10. OnceEach(q)
  <2>1. OnceEach(p)
    BY DEF Journal
  <2>. SUFFICES ASSUME NEW i \in 1..Len(q), NEW j \in 1..Len(q), q[i].type \in {"tool_started", "tool_completed"},
                       q[i].type = q[j].type, q[i].key = q[j].key
                PROVE  i = j
    BY DEF OnceEach
  <2>2. CASE i \in 1..Len(p) /\ j \in 1..Len(p) /\ q[i] = p[i] /\ q[j] = p[j]
    BY <2>1, <2>2 DEF OnceEach
  <2>3. CASE i = Len(p) + 1 /\ q[i] = event /\ j = Len(p) + 1
    BY <2>3
  <2>4. CASE i \in 1..Len(p) /\ q[i] = p[i] /\ j = Len(p) + 1 /\ q[j] = event
    BY <1>9, <2>4
  <2>5. CASE j \in 1..Len(p) /\ q[j] = p[j] /\ i = Len(p) + 1 /\ q[i] = event
    BY <1>9, <2>5
  <2>. QED
    BY <1>1, <2>2, <2>3, <2>4, <2>5
<1>11. StartsFirst(q)
  <2>1. StartsFirst(p)
    BY DEF Journal
  <2>. SUFFICES ASSUME NEW i \in 1..Len(q), NEW j \in 1..Len(q), q[i].type = "tool_started",
                       q[j].type = "tool_completed"
                PROVE  i < j
    BY DEF StartsFirst, KeysAscend
  <2>2. i \in 1..Len(p) /\ q[i] = p[i]
    BY <1>1
  <2>3. CASE j \in 1..Len(p) /\ q[j] = p[j]
    BY <2>1, <2>2, <2>3 DEF StartsFirst
  <2>4. CASE j = Len(p) + 1
    BY <1>2, <2>2, <2>4
  <2>. QED
    BY <1>1, <2>3, <2>4
<1>12. KeysAscend(q)
  <2>1. event.key \in Keys
    BY CallMapsAre DEF InOrder
  <2>2. ~toolKeyLess(event.key, event.key)
    BY <2>1, KeyOrder
  <2>3. KeysAscend(p)
    BY DEF Journal
  <2>. SUFFICES ASSUME NEW i \in 1..Len(q), NEW j \in 1..Len(q), q[i].type = "tool_completed",
                       q[j].type = "tool_completed", toolKeyLess(q[i].key, q[j].key)
                PROVE  i < j
    BY DEF StartsFirst, KeysAscend
  <2>4. CASE i = Len(p) + 1 /\ q[i] = event
    <3>1. CASE j = Len(p) + 1 /\ q[j] = event
      BY <2>2, <2>4, <3>1
    <3>2. CASE j \in 1..Len(p) /\ q[j] = p[j]
      BY <1>9, <2>4, <3>2
    <3>. QED
      BY <1>1, <3>1, <3>2
  <2>5. CASE i \in 1..Len(p) /\ q[i] = p[i]
    <3>1. CASE j = Len(p) + 1
      BY <1>2, <2>5, <3>1
    <3>2. CASE j \in 1..Len(p) /\ q[j] = p[j]
      BY <2>3, <2>5, <3>2 DEF KeysAscend
    <3>. QED
      BY <1>1, <3>1, <3>2
  <2>. QED
    BY <1>1, <2>4, <2>5
<1>13. ArgumentsInside(q)
  BY InsideAdded DEF Journal
<1>. QED
  BY <1>3, <1>5, <1>6, <1>8, <1>10, <1>11, <1>12, <1>13 DEF Journal, Added

-----------------------------------------------------------------------------
(* The end of the stream: calls are only marked.                           *)

\* g is f with calls that were started or completed.
Kept(f, g) ==
    /\ DOMAIN g = DOMAIN f
    /\ \A k \in DOMAIN f :
          /\ g[k].callID = f[k].callID /\ g[k].providerCallID = f[k].providerCallID
          /\ g[k].name = f[k].name /\ g[k].arguments = f[k].arguments
          /\ f[k].started => g[k].started
          /\ f[k].completed => g[k].completed

\* x is d after work on the end of the stream.
Ending(d, x) ==
    /\ x \in Decoder /\ SameFlags(d, x) /\ SameReasons(d, x) /\ SameBytes(d, x)
    /\ Kept(d.calls, x.calls) /\ x.aggregateBytes =< MaxAggregateBytes

\* Work, and then more of it.
LEMMA EndingMore ==
    ASSUME NEW d, NEW x, Ending(d, x), NEW y, Ending(x, y)
    PROVE  Ending(d, y)
<1>1. Kept(d.calls, y.calls)
  BY DEF Ending, Kept
<1>. QED
  BY <1>1 DEF Ending, SameFlags, SameReasons, SameBytes

\* An error is remembered.
LEMMA EndingAlike ==
    ASSUME NEW d, d.aggregateBytes =< MaxAggregateBytes, NEW x, Alike(d, x)
    PROVE  Ending(d, x)
<1>1. Kept(d.calls, x.calls)
  BY DEF Alike, Kept
<1>2. x.aggregateBytes =< MaxAggregateBytes
  BY DEF Alike, SameQueue
<1>. QED
  BY <1>1, <1>2 DEF Ending, Alike

\* Marked calls hold what they held.
LEMMA EndingHeld ==
    ASSUME NEW d \in Decoder, Held(d), NEW x, Ending(d, x)
    PROVE  Held(x)
<1>1. d.calls \in CallMaps /\ x.calls \in CallMaps /\ Kept(d.calls, x.calls)
  BY DEF Ending, Decoder, DecoderWith
<1>2. DOMAIN x.calls = DOMAIN d.calls /\ \A k \in DOMAIN d.calls :
          /\ x.calls[k].callID = d.calls[k].callID
          /\ x.calls[k].providerCallID = d.calls[k].providerCallID
          /\ x.calls[k].name = d.calls[k].name /\ x.calls[k].arguments = d.calls[k].arguments
  BY <1>1 DEF Kept
<1>3. ArgumentBytes(x.calls) = ArgumentBytes(d.calls)
  <2>. DEFINE w == Weights(x.calls)
              v == Weights(d.calls)
              M == DOMAIN d.calls
  <2>1. IsFiniteSet(M)
    BY <1>1, KeysFinite
  <2>2. \A k \in M : w[k] = v[k]
    BY <1>2 DEF Weights
  <2>3. ArgumentBytes(x.calls) = SumOf(w, M) /\ ArgumentBytes(d.calls) = SumOf(v, M)
    BY <1>1, <1>2, ArgumentsSum
  <2>. HIDE DEF w, v, M
  <2>4. SumOf(w, M) = SumOf(v, M)
    BY <2>1, <2>2, SumCongruent
  <2>. QED
    BY <2>3, <2>4
<1>4. CallsHeld(x.calls)
  BY <1>2 DEF Held, CallsHeld, CallHeld
<1>. QED
  BY <1>3, <1>4 DEF Held, Ending, SameBytes

\* An event is refused, or added.
LEMMA QueueEnding ==
    ASSUME NEW x \in Decoder, x.err = "", x.aggregateBytes =< MaxAggregateBytes,
           NEW event \in EventRecord, NEW n \in Nat
    PROVE  LET z == queue(x, event, n)
           IN /\ Ending(x, z)
              /\ z.err = "" => z.calls = x.calls /\ Added(x.pending, z.pending, event)
<1>. DEFINE z == queue(x, event, n)
<1>1. (Alike(x, z) /\ z.err = "limit") \/ Queued(x, z, event, n)
  BY QueueQueued
<1>. HIDE DEF z
<1>2. CASE Alike(x, z) /\ z.err = "limit"
  BY <1>2, EndingAlike DEF z
<1>3. CASE Queued(x, z, event, n)
  <2>1. x.pending \in Seq(EventRecord) /\ z.pending = Append(x.pending, event) /\ z.calls = x.calls
    BY <1>3 DEF Queued, Decoder, DecoderWith
  <2>2. Added(x.pending, z.pending, event)
    BY <2>1, AppendAdds
  <2>3. Kept(x.calls, z.calls)
    BY <2>1 DEF Kept
  <2>4. Ending(x, z)
    BY <1>3, <2>3 DEF Ending, Queued
  <2>. QED
    BY <2>1, <2>2, <2>4 DEF z
<1>. QED
  BY <1>1, <1>2, <1>3

\* Only the call of a key differs, in its marks.
Marks(x, y, key) ==
    Ending(x, y) /\ SameQueue(x, y) /\ y.err = x.err
    /\ \A k \in DOMAIN x.calls \ {key} : y.calls[k] = x.calls[k]

\* A call is replaced by one that differs in its marks.
LEMMA MarkCall ==
    ASSUME NEW x \in Decoder, x.aggregateBytes =< MaxAggregateBytes, NEW key \in DOMAIN x.calls,
           NEW new \in Call, NEW y, y = [x EXCEPT !.calls = [x.calls EXCEPT ![key] = new]],
           new.callID = x.calls[key].callID, new.providerCallID = x.calls[key].providerCallID,
           new.name = x.calls[key].name, new.arguments = x.calls[key].arguments,
           x.calls[key].started => new.started, x.calls[key].completed => new.completed
    PROVE  Marks(x, y, key) /\ y.calls[key] = new
<1>. DEFINE f == x.calls
            g == [x.calls EXCEPT ![key] = new]
<1>1. f \in CallMaps /\ DOMAIN f \subseteq Keys /\ \A k \in DOMAIN f : f[k] \in Call
  BY CallMapsAre DEF Decoder, DecoderWith
<1>2. /\ DOMAIN g = DOMAIN f /\ g[key] = new /\ \A k \in DOMAIN f \ {key} : g[k] = f[k]
      /\ g = [k \in DOMAIN f |-> g[k]]
  OBVIOUS
<1>. HIDE DEF g
<1>3. g \in [DOMAIN f -> Call]
  BY <1>1, <1>2
<1>4. g \in CallMaps
  BY <1>1, <1>3, CallMapsAre
<1>5. y = [x EXCEPT !.calls = g]
  BY DEF g
<1>6. /\ y \in Decoder /\ SameFlags(x, y) /\ SameReasons(x, y) /\ SameBytes(x, y) /\ SameQueue(x, y)
      /\ y.err = x.err /\ y.calls = g
  BY <1>4, <1>5 DEF Decoder, DecoderWith, SameFlags, SameReasons, SameBytes, SameQueue
<1>7. Kept(x.calls, y.calls)
  BY <1>2, <1>6 DEF Kept
<1>8. y.aggregateBytes =< MaxAggregateBytes
  BY <1>6 DEF SameQueue
<1>. QED
  BY <1>2, <1>6, <1>7, <1>8 DEF Marks, Ending

\* A call is marked as started.
LEMMA MarkStarted ==
    ASSUME NEW x \in Decoder, x.aggregateBytes =< MaxAggregateBytes, NEW key \in DOMAIN x.calls
    PROVE  LET y == [x EXCEPT !.calls[key].started = TRUE]
           IN Marks(x, y, key) /\ y.calls[key].started
<1>. DEFINE y == [x EXCEPT !.calls[key].started = TRUE]
            old == x.calls[key]
            new == [old EXCEPT !.started = TRUE]
<1>1. old \in Call
  BY CallMapsAre DEF Decoder, DecoderWith
<1>2. y = [x EXCEPT !.calls = [x.calls EXCEPT ![key] = new]]
  BY DEF Decoder, DecoderWith
<1>3. /\ new \in Call /\ new.callID = old.callID /\ new.providerCallID = old.providerCallID
      /\ new.name = old.name /\ new.arguments = old.arguments /\ new.started
      /\ old.completed => new.completed
  BY <1>1 DEF Call
<1>. HIDE DEF y, new
<1>4. Marks(x, y, key) /\ y.calls[key] = new
  BY <1>2, <1>3, MarkCall
<1>. QED
  BY <1>3, <1>4 DEF y

\* A call is marked as completed.
LEMMA MarkCompleted ==
    ASSUME NEW x \in Decoder, x.aggregateBytes =< MaxAggregateBytes, NEW key \in DOMAIN x.calls
    PROVE  LET y == [x EXCEPT !.calls[key].completed = TRUE]
           IN Marks(x, y, key) /\ y.calls[key].completed
<1>. DEFINE y == [x EXCEPT !.calls[key].completed = TRUE]
            old == x.calls[key]
            new == [old EXCEPT !.completed = TRUE]
<1>1. old \in Call
  BY CallMapsAre DEF Decoder, DecoderWith
<1>2. y = [x EXCEPT !.calls = [x.calls EXCEPT ![key] = new]]
  BY DEF Decoder, DecoderWith
<1>3. /\ new \in Call /\ new.callID = old.callID /\ new.providerCallID = old.providerCallID
      /\ new.name = old.name /\ new.arguments = old.arguments /\ new.completed
      /\ old.started => new.started
  BY <1>1 DEF Call
<1>. HIDE DEF y, new
<1>4. Marks(x, y, key) /\ y.calls[key] = new
  BY <1>2, <1>3, MarkCall
<1>. QED
  BY <1>3, <1>4 DEF y

\* An event about a call is an event.
LEMMA CallRecord ==
    ASSUME NEW calls \in CallMaps, NEW key \in DOMAIN calls, NEW type \in ToolEvents, NEW n \in Nat
    PROVE  Event(type, key, calls[key].callID, n) \in EventRecord
<1>1. key \in Keys /\ calls[key] \in Call
  BY CallMapsAre
<1>2. key \in Seq(Int)
  <2>1. key = <<key[1], key[2]>> /\ key[1] \in Int /\ key[2] \in Int
    BY <1>1, Bounds DEF Keys, ChoiceIndexes
  <2>2. \A a, b \in Int : <<a, b>> \in Seq(Int)
    OBVIOUS
  <2>3. <<key[1], key[2]>> \in Seq(Int)
    BY <2>1, <2>2
  <2>. QED
    BY <2>1, <2>3
<1>3. calls[key].callID \in CallIDs
  BY <1>1 DEF Call
<1>4. type \in EventTypes
  BY DEF EventTypes
<1>. QED
  BY <1>2, <1>3, <1>4 DEF Event, EventRecord

\* An event about a call with a declared name.
LEMMA CallEvent ==
    ASSUME NEW calls \in CallMaps, NEW key \in DOMAIN calls, NEW type \in ToolEvents, NEW n \in Nat,
           calls[key].name \in AllowedToolNames
    PROVE  LET event == Event(type, key, calls[key].callID, n)
           IN ToolEvent(calls, event) /\ event.type = type /\ event.key = key
  BY CallRecord DEF ToolEvent, Event

\* The identifier and the public name of a call are measured.
LEMMA CallCost ==
    ASSUME NEW calls \in CallMaps, NEW key \in DOMAIN calls
    PROVE  Len(calls[key].callID) + Len(publicName(calls[key].name)) \in Nat
<1>1. calls[key] \in Call
  BY CallMapsAre
<1>2. calls[key].callID \in CallIDs /\ calls[key].name \in Strings
  BY <1>1 DEF Call
<1>3. publicName(calls[key].name) \in Strings
  BY <1>2, DecoderAssumption DEF publicName
<1>4. Len(calls[key].callID) \in Nat /\ Len(publicName(calls[key].name)) \in Nat
  BY <1>2, <1>3, StringFacts
<1>. QED
  BY <1>4, AddFacts, Zenon

\* A call is started, with the arguments it has, or the turn fails.
LEMMA StartCall ==
    ASSUME NEW x \in Decoder, x.err = "", x.aggregateBytes =< MaxAggregateBytes,
           NEW key \in DOMAIN x.calls
    PROVE  LET z == startCall(x, key)
               id == x.calls[key].callID
               n == Len(x.calls[key].arguments)
               start == Event("tool_started", key, id, 0)
               arguments == Event("tool_arguments", key, id, n)
           IN /\ Ending(x, z)
              /\ z.err = "" => /\ z.calls[key].started /\ x.calls[key].name \in AllowedToolNames
                               /\ \/ Added(x.pending, z.pending, start)
                                  \/ \E q : /\ Added(x.pending, q, start)
                                            /\ Added(q, z.pending, arguments)
<1>. DEFINE call == x.calls[key]
            z == startCall(x, key)
            id == call.callID
            n == Len(call.arguments)
            cost == Len(call.callID) + Len(publicName(call.name))
            start == Event("tool_started", key, id, 0)
            arguments == Event("tool_arguments", key, id, n)
            s == queue(x, start, cost)
            m == [s EXCEPT !.calls[key].started = TRUE]
            more == call.name \notin CustomNames /\ call.arguments # << >>
            a == queue(m, arguments, 0)
<1>1. x.calls \in CallMaps /\ call \in Call
  BY CallMapsAre DEF Decoder, DecoderWith
<1>2. n \in Nat /\ cost \in Nat /\ 0 \in Nat
  <2>1. call.arguments \in Strings
    BY <1>1 DEF Call
  <2>. QED
    BY <1>1, <2>1, CallCost, StringFacts
<1>3. start \in EventRecord /\ arguments \in EventRecord
  BY <1>1, <1>2, CallRecord, ZenonT(60) DEF ToolEvents
<1>4. CASE call.name \notin AllowedToolNames
  <2>. DEFINE named == Require(x, call.name # << >>, "malformed")
  <2>1. z = Require(named, call.name \in AllowedToolNames, "undeclared")
    BY <1>4 DEF startCall, ensureToolStarted
  <2>2. Checked(x, named)
    BY CheckedSelf, CheckMore, ErrorNames, Zenon
  <2>. HIDE DEF named, z
  <2>3. z = Require(named, FALSE, "undeclared")
    BY <1>4, <2>1 DEF Require
  <2>4. FALSE \in BOOLEAN
    OBVIOUS
  <2>5. Checked(x, z) /\ (z.err = "" => FALSE)
    BY <2>2, <2>3, <2>4, CheckMore, ErrorNames, Zenon
  <2>6. Alike(x, z) /\ z.err # ""
    BY <2>5 DEF Checked
  <2>7. Ending(x, z)
    BY <2>6, EndingAlike
  <2>. QED
    BY <2>6, <2>7 DEF z
<1>5. CASE call.name \in AllowedToolNames
  <2>1. call.name # << >>
    BY <1>5, DecoderAssumption
  <2>2. z = ensureToolStarted(x, key)
    BY <1>5, <2>1 DEF startCall, Require
  <2>3. z = IF s.err # "" THEN s ELSE IF ~more THEN m ELSE IF m.err # "" THEN m ELSE a
    <3>. DEFINE marked == Then(s, LAMBDA y : [y EXCEPT !.calls[key].started = TRUE])
    <3>1. marked = IF s.err # "" THEN s ELSE m
      BY DEF Then
    <3>2. z = IF more THEN Queue(marked, arguments, 0) ELSE marked
      BY <1>5, <2>2 DEF ensureToolStarted
    <3>3. Queue(marked, arguments, 0) = IF marked.err # "" THEN marked ELSE queue(marked, arguments, 0)
      BY DEF Queue, Then
    <3>. HIDE DEF marked, s, m, z
    <3>. QED
      BY <3>1, <3>2, <3>3
  <2>. HIDE DEF z
  <2>4. Ending(x, s) /\ (s.err = "" => s.calls = x.calls /\ Added(x.pending, s.pending, start))
    <3>. HIDE DEF start, cost
    <3>. QED
      BY <1>2, <1>3, QueueEnding
  <2>. HIDE DEF s
  <2>5. CASE s.err # ""
    BY <2>3, <2>4, <2>5 DEF z
  <2>6. CASE s.err = ""
    <3>1. s \in Decoder /\ s.aggregateBytes =< MaxAggregateBytes /\ key \in DOMAIN s.calls
      BY <2>4, <2>6 DEF Ending
    <3>2. Marks(s, m, key) /\ m.calls[key].started
      BY <3>1, MarkStarted
    <3>. HIDE DEF m
    <3>3. /\ Ending(s, m) /\ m.err = "" /\ m.pending = s.pending /\ m \in Decoder
          /\ m.aggregateBytes =< MaxAggregateBytes /\ DOMAIN m.calls = DOMAIN x.calls
      BY <2>4, <2>6, <3>2 DEF Marks, SameQueue, Ending, Kept
    <3>4. Ending(x, m) /\ Added(x.pending, m.pending, start)
      BY <2>4, <2>6, <3>3, EndingMore
    <3>5. CASE ~more
      BY <1>5, <2>3, <2>6, <3>2, <3>4, <3>5 DEF z
    <3>6. CASE more
      <4>1. z = a
        BY <2>3, <2>6, <3>3, <3>6
      <4>2. Ending(m, a) /\ (a.err = "" => a.calls = m.calls /\ Added(m.pending, a.pending, arguments))
        <5>. HIDE DEF arguments
        <5>. QED
          BY <1>2, <1>3, <3>3, QueueEnding
      <4>. HIDE DEF a
      <4>3. Ending(x, a)
        BY <3>4, <4>2, EndingMore
      <4>4. a.err = "" => /\ a.calls[key].started
                          /\ Added(x.pending, m.pending, start) /\ Added(m.pending, a.pending, arguments)
        BY <3>2, <3>4, <4>2
      <4>. QED
        BY <1>5, <4>1, <4>3, <4>4 DEF z
    <3>. QED
      BY <3>5, <3>6
  <2>. QED
    BY <2>5, <2>6
<1>. QED
  BY <1>4, <1>5

\* A call is completed, under an identifier that no earlier call has, or the turn fails.
LEMMA CompleteCall ==
    ASSUME NEW x \in Decoder, x.err = "", x.aggregateBytes =< MaxAggregateBytes,
           NEW keys, NEW i \in Nat, keys[i] \in DOMAIN x.calls
    PROVE  LET z == completeCall(x, keys, i)
               key == keys[i]
               id == x.calls[key].callID
           IN /\ Ending(x, z)
              /\ z.err = "" =>
                    /\ z.calls[key].completed
                    /\ \A j \in 1..(i - 1) : x.calls[keys[j]].callID # id
                    /\ \E n \in Nat :
                          \/ Added(x.pending, z.pending, Event("tool_completed", key, id, n))
                          \/ \E q : /\ Added(x.pending, q, Event("tool_arguments", key, id, n))
                                    /\ Added(q, z.pending, Event("tool_completed", key, id, n))
<1>. DEFINE key == keys[i]
            call == x.calls[key]
            id == call.callID
            z == completeCall(x, keys, i)
            distinct == \A j \in 1..(i - 1) : x.calls[keys[j]].callID # id
            unique == Require(x, distinct, "malformed")
            m == [x EXCEPT !.calls[key].completed = TRUE]
            custom == call.name \in CustomNames
            patch == call.arguments \in DOMAIN PatchInput
            accepted == Require(m, custom => patch, "custom")
            n == IF custom THEN PatchInput[call.arguments] ELSE Len(call.arguments)
            cost == Len(call.callID) + Len(publicName(call.name))
            arguments == Event("tool_arguments", key, id, n)
            complete == Event("tool_completed", key, id, n)
            a == IF custom THEN queue(m, arguments, 0) ELSE m
            b == queue(a, complete, cost)
<1>1. x.calls \in CallMaps /\ call \in Call
  BY CallMapsAre DEF Decoder, DecoderWith
<1>2. Checked(x, unique) /\ (unique.err = "" => distinct)
  BY CheckedSelf, CheckMore, ErrorNames, Zenon
<1>3. z = IF unique.err # "" THEN unique
          ELSE IF accepted.err # "" THEN accepted
          ELSE IF a.err # "" THEN a ELSE b
  <2>. DEFINE marked == Then(unique, LAMBDA y : [y EXCEPT !.calls[key].completed = TRUE])
              taken == Require(marked, custom => patch, "custom")
              done == Then(taken, LAMBDA y :
                        Queue(IF custom THEN queue(y, arguments, 0) ELSE y, complete, cost))
  <2>1. z = done
    BY DEF completeCall
  <2>2. marked = IF unique.err # "" THEN unique ELSE m
    BY <1>2 DEF Then, Checked
  <2>3. CASE unique.err # ""
    <3>1. taken = unique
      BY <2>2, <2>3 DEF Require
    <3>2. done = unique
      BY <2>3, <3>1 DEF Then
    <3>. QED
      BY <2>1, <2>3, <3>2
  <2>4. CASE unique.err = ""
    <3>1. taken = accepted
      BY <2>2, <2>4
    <3>2. CASE accepted.err # ""
      BY <2>1, <2>4, <3>1, <3>2 DEF Then
    <3>3. CASE accepted.err = ""
      <4>1. accepted = m
        BY <3>3, ErrorNames DEF Require, Fails
      <4>2. done = Queue(a, complete, cost)
        BY <3>1, <3>3, <4>1 DEF Then
      <4>3. Queue(a, complete, cost) = IF a.err # "" THEN a ELSE b
        BY DEF Queue, Then
      <4>. QED
        BY <2>1, <2>4, <3>3, <4>2, <4>3
    <3>. QED
      BY <3>2, <3>3
  <2>. QED
    BY <2>3, <2>4
<1>. HIDE DEF z, unique
<1>4. CASE unique.err # ""
  <2>1. z = unique /\ Alike(x, unique)
    BY <1>2, <1>3, <1>4 DEF Checked
  <2>2. Ending(x, z)
    BY <2>1, EndingAlike
  <2>. QED
    BY <1>4, <2>1, <2>2 DEF z
<1>5. CASE unique.err = ""
  <2>1. distinct
    BY <1>2, <1>5
  <2>2. Marks(x, m, key) /\ m.calls[key].completed
    BY MarkCompleted
  <2>. HIDE DEF distinct, m
  <2>3. /\ Ending(x, m) /\ m.err = "" /\ m.pending = x.pending /\ m \in Decoder
        /\ m.aggregateBytes =< MaxAggregateBytes
    BY <2>2 DEF Marks, SameQueue, Ending
  <2>4. Checked(m, accepted) /\ (accepted.err = "" => (custom => patch))
    <3>. DEFINE cond == custom => patch
    <3>1. cond \in BOOLEAN
      OBVIOUS
    <3>. HIDE DEF cond
    <3>2. Checked(m, Require(m, cond, "custom")) /\ (Require(m, cond, "custom").err = "" => cond)
      BY <2>3, <3>1, CheckedSelf, CheckMore, ErrorNames, Zenon
    <3>. QED
      BY <3>2 DEF cond
  <2>. HIDE DEF accepted
  <2>5. CASE accepted.err # ""
    <3>1. z = accepted
      BY <1>3, <1>5, <2>5
    <3>2. Ending(m, accepted)
      BY <2>3, <2>4, EndingAlike DEF Checked
    <3>3. Ending(x, z)
      BY <2>3, <3>1, <3>2, EndingMore
    <3>. QED
      BY <2>5, <3>1, <3>3 DEF z
  <2>6. CASE accepted.err = ""
    <3>1. n \in Nat /\ cost \in Nat /\ 0 \in Nat
      <4>1. call.arguments \in Strings
        BY <1>1 DEF Call
      <4>2. Len(call.arguments) \in Nat /\ cost \in Nat
        BY <1>1, <4>1, CallCost, StringFacts
      <4>3. custom => PatchInput[call.arguments] \in Nat
        BY <2>4, <2>6, DecoderAssumption
      <4>. QED
        BY <4>2, <4>3
    <3>. HIDE DEF n
    <3>2. arguments \in EventRecord /\ complete \in EventRecord
      BY <1>1, <3>1, CallRecord DEF ToolEvents
    <3>3. /\ Ending(m, a)
          /\ a.err = "" => /\ a.calls = m.calls
                           /\ a = m \/ Added(m.pending, a.pending, arguments)
      <4>1. CASE ~custom
        <5>1. a = m
          BY <4>1
        <5>2. Alike(m, m)
          BY <2>3, CheckedSelf DEF Checked
        <5>. QED
          BY <2>3, <5>1, <5>2, EndingAlike
      <4>2. CASE custom
        <5>1. a = queue(m, arguments, 0)
          BY <4>2
        <5>. HIDE DEF arguments, a
        <5>. QED
          BY <2>3, <3>1, <3>2, <5>1, QueueEnding
      <4>. QED
        BY <4>1, <4>2
    <3>. HIDE DEF a
    <3>4. Ending(x, a)
      BY <2>3, <3>3, EndingMore
    <3>5. z = IF a.err # "" THEN a ELSE b
      BY <1>3, <1>5, <2>6
    <3>6. CASE a.err # ""
      BY <3>4, <3>5, <3>6 DEF z
    <3>7. CASE a.err = ""
      <4>1. a \in Decoder /\ a.aggregateBytes =< MaxAggregateBytes /\ z = b
        BY <3>4, <3>5, <3>7 DEF Ending
      <4>2. Ending(a, b) /\ (b.err = "" => b.calls = a.calls /\ Added(a.pending, b.pending, complete))
        <5>. HIDE DEF complete, cost
        <5>. QED
          BY <3>1, <3>2, <3>7, <4>1, QueueEnding
      <4>. HIDE DEF b
      <4>3. Ending(x, z)
        BY <3>4, <4>1, <4>2, EndingMore
      <4>4. ASSUME z.err = ""
            PROVE  /\ z.calls[key].completed
                   /\ \/ Added(x.pending, z.pending, complete)
                      \/ Added(x.pending, a.pending, arguments) /\ Added(a.pending, z.pending, complete)
        BY <2>2, <2>3, <3>3, <3>7, <4>1, <4>2, <4>4
      <4>5. ASSUME z.err = ""
            PROVE  \E k \in Nat :
                      \/ Added(x.pending, z.pending, Event("tool_completed", key, id, k))
                      \/ \E q : /\ Added(x.pending, q, Event("tool_arguments", key, id, k))
                                /\ Added(q, z.pending, Event("tool_completed", key, id, k))
        BY <3>1, <4>4, <4>5
      <4>. QED
        BY <2>1, <4>3, <4>4, <4>5 DEF z, distinct
    <3>. QED
      BY <3>6, <3>7
  <2>. QED
    BY <2>5, <2>6
<1>. QED
  BY <1>4, <1>5

StartedCalls(x, keys) == Each(x, keys, LAMBDA y, i : startCall(y, keys[i]))

\* What the loop over the calls that starts them has done after n turns.
StartedUpTo(d, keys, n, x) ==
    /\ Ending(d, x)
    /\ x.err = "" => /\ Journal(x.pending, d.calls, keys, n, 0)
                     /\ \A m \in 1..n : x.calls[keys[m]].started

\* The turns of a loop after one more.
LEMMA OneMore ==
    \A s, l \in Nat : s + 1 \in 1..l =>
       \A m \in 1..(s + 1) : m \in 1..l /\ (m \in 1..s \/ m = s + 1)
OBVIOUS

\* The turns before one more.
LEMMA Turns ==
    \A s \in Nat : /\ s + 1 \in Nat /\ s + 1 \in 1..(s + 1) /\ 1..((s + 1) - 1) = 1..s
                    /\ \A j \in 1..s : j \in 1..(s + 1) /\ j # s + 1
OBVIOUS

\* The turn before one.
LEMMA LastTurn ==
    \A l \in Nat :
       /\ 0 \in 0..l
       /\ \A n \in 1..l : n - 1 \in Nat /\ n = (n - 1) + 1 /\ (n - 1) + 1 \in 1..l /\ n \in 0..l
OBVIOUS

\* No turn at all.
LEMMA NoTurn == \A m \in 1..0 : FALSE
OBVIOUS

\* One more call.
LEMMA StartNext ==
    ASSUME NEW d \in Decoder, NEW keys, NEW l, InOrder(keys, d.calls, l), NEW s \in Nat, s + 1 \in 1..l,
           NEW y, y.err = "", StartedUpTo(d, keys, s, y)
    PROVE  StartedUpTo(d, keys, s + 1, startCall(y, keys[s + 1]))
<1>. DEFINE key == keys[s + 1]
            z == startCall(y, key)
            id == y.calls[key].callID
            n == Len(y.calls[key].arguments)
            start == Event("tool_started", key, id, 0)
            arguments == Event("tool_arguments", key, id, n)
<1>1. /\ Ending(d, y) /\ y \in Decoder /\ y.aggregateBytes =< MaxAggregateBytes
      /\ Journal(y.pending, d.calls, keys, s, 0) /\ \A m \in 1..s : y.calls[keys[m]].started
      /\ DOMAIN y.calls = DOMAIN d.calls
  BY DEF StartedUpTo, Ending, Kept
<1>2. /\ key \in DOMAIN d.calls /\ d.calls \in CallMaps
      /\ \A m \in 1..(s + 1) : m \in 1..l /\ (m \in 1..s \/ m = s + 1)
  <2>1. l \in Nat /\ keys \in [1..l -> DOMAIN d.calls] /\ d.calls \in CallMaps
    BY DEF InOrder, Decoder, DecoderWith
  <2>2. key \in DOMAIN d.calls
    BY <2>1
  <2>3. ASSUME NEW m \in 1..(s + 1)
        PROVE  m \in 1..l /\ (m \in 1..s \/ m = s + 1)
    BY <2>1, OneMore
  <2>. QED
    BY <2>1, <2>2, <2>3
<1>3. /\ Ending(y, z)
      /\ z.err = "" => /\ z.calls[key].started /\ y.calls[key].name \in AllowedToolNames
                       /\ \/ Added(y.pending, z.pending, start)
                          \/ \E q : Added(y.pending, q, start) /\ Added(q, z.pending, arguments)
  BY <1>1, <1>2, StartCall
<1>4. id = d.calls[key].callID /\ n \in Nat /\ 0 \in Nat
  <2>1. y.calls \in CallMaps
    BY <1>1 DEF Decoder, DecoderWith
  <2>2. y.calls[key] \in Call
    BY <1>1, <1>2, <2>1, CallMapsAre
  <2>3. y.calls[key].arguments \in Strings
    BY <2>2 DEF Call
  <2>. QED
    BY <1>1, <1>2, <2>3, StringFacts DEF Ending, Kept
<1>5. ASSUME z.err = ""
      PROVE  /\ ToolEvent(d.calls, start) /\ start.type = "tool_started" /\ start.key = key
             /\ ToolEvent(d.calls, arguments) /\ arguments.type = "tool_arguments" /\ arguments.key = key
  <2>0. d.calls[key].name \in AllowedToolNames
    BY <1>1, <1>2, <1>3, <1>5 DEF Ending, Kept
  <2>. HIDE DEF id, n, key
  <2>1. "tool_started" \in ToolEvents /\ "tool_arguments" \in ToolEvents
    BY DEF ToolEvents
  <2>2. /\ start = Event("tool_started", key, d.calls[key].callID, 0)
        /\ arguments = Event("tool_arguments", key, d.calls[key].callID, n)
    BY <1>4
  <2>3. PICK f : f = d.calls
    OBVIOUS
  <2>4. f \in CallMaps /\ key \in DOMAIN f /\ f[key].name \in AllowedToolNames
    BY <1>2, <2>0, <2>3
  <2>5. /\ start = Event("tool_started", key, f[key].callID, 0)
        /\ arguments = Event("tool_arguments", key, f[key].callID, n)
    BY <2>2, <2>3
  <2>. HIDE DEF start, arguments
  <2>6. ToolEvent(f, start) /\ start.type = "tool_started" /\ start.key = key
    BY ONLY <1>4, <2>1, <2>4, <2>5, CallEvent
  <2>7. ToolEvent(f, arguments) /\ arguments.type = "tool_arguments" /\ arguments.key = key
    BY ONLY <1>4, <2>1, <2>4, <2>5, CallEvent
  <2>. QED
    BY <2>3, <2>6, <2>7
<1>. HIDE DEF start, arguments, z
<1>6. Ending(d, z)
  BY <1>1, <1>3, EndingMore
<1>7. ASSUME z.err = ""
      PROVE  Journal(z.pending, d.calls, keys, s + 1, 0)
  <2>1. CASE Added(y.pending, z.pending, start)
    BY <1>1, <1>5, <1>7, <2>1, JournalStarted
  <2>2. ASSUME NEW q, Added(y.pending, q, start), Added(q, z.pending, arguments)
        PROVE  Journal(z.pending, d.calls, keys, s + 1, 0)
    <3>1. Journal(q, d.calls, keys, s + 1, 0)
      BY <1>1, <1>5, <1>7, <2>2, JournalStarted
    <3>2. \E i \in 1..Len(q) : q[i].type = "tool_started" /\ q[i].key = arguments.key
      <4>1. s + 1 \in 1..(s + 1) /\ keys[s + 1] = arguments.key
        BY <1>5, <1>7, Turns
      <4>2. \A m \in 1..(s + 1) : \E i \in 1..Len(q) : q[i].type = "tool_started" /\ q[i].key = keys[m]
        BY <3>1 DEF Journal
      <4>. QED
        BY ONLY <4>1, <4>2
    <3>3. \A m \in 1..0 : keys[m] # arguments.key
      BY NoTurn
    <3>. QED
      BY <1>5, <1>7, <2>2, <3>1, <3>2, <3>3, JournalArguments
  <2>. QED
    BY <1>3, <1>7, <2>1, <2>2
<1>8. ASSUME z.err = "", NEW m \in 1..(s + 1)
      PROVE  z.calls[keys[m]].started
  <2>1. CASE m = s + 1
    BY <1>3, <1>8, <2>1
  <2>2. CASE m \in 1..s
    <3>1. keys[m] \in DOMAIN y.calls /\ y.calls[keys[m]].started
      BY <1>1, <1>2, <2>2 DEF InOrder
    <3>. QED
      BY <1>3, <3>1 DEF Ending, Kept
  <2>. QED
    BY <1>2, <2>1, <2>2
<1>. QED
  BY <1>6, <1>7, <1>8 DEF StartedUpTo, z

\* No call yet.
LEMMA StartNone ==
    ASSUME NEW d \in Decoder, Held(d), d.pending = << >>, NEW keys
    PROVE  StartedUpTo(d, keys, 0, d)
<1>1. Journal(<< >>, d.calls, keys, 0, 0)
  <2>1. Len(<< >>) = 0 /\ << >> \in Seq(EventRecord) /\ \A m \in 1..0 : FALSE
    OBVIOUS
  <2>. QED
    BY <2>1 DEF Journal, OnceEach, StartsFirst, ArgumentsInside, KeysAscend
<1>2. Ending(d, d)
  BY CheckedSelf, EndingAlike DEF Checked, Held
<1>3. \A m \in 1..0 : FALSE
  OBVIOUS
<1>. QED
  BY <1>1, <1>2, <1>3 DEF StartedUpTo

\* The calls are started in order, or the turn fails.
LEMMA StartCalls ==
    ASSUME NEW d \in Decoder, Held(d), d.pending = << >>, NEW keys, NEW l,
           InOrder(keys, d.calls, l), Len(keys) = l
    PROVE  StartedUpTo(d, keys, l, StartedCalls(d, keys))
<1>. DEFINE e == StartedCalls(d, keys)
            Good == {p \in (0..l) \X Decoder : StartedUpTo(d, keys, p[1], p[2])}
<1>1. l \in Nat
  BY DEF InOrder
<1>2. Runs("startCall", keys, d, Len(keys), e)
  BY DEF Runs, LoopBody, LoopNext, LoopStep, StartedCalls, Each, Then
<1>3. Runs("startCall", keys, d, l, e)
  BY <1>2
<1>. HIDE DEF e
<1>4. <<0, d>> \in Good
  BY <1>1, StartNone
<1>5. ASSUME NEW n \in 1..l, NEW y, <<n - 1, y>> \in Good
      PROVE  <<n, LoopNext("startCall", keys, y, n)>> \in Good
  <2>. DEFINE z == LoopNext("startCall", keys, y, n)
              s == n - 1
  <2>1. y \in Decoder /\ StartedUpTo(d, keys, s, y)
    BY <1>5
  <2>2. s \in Nat /\ n = s + 1 /\ s + 1 \in 1..l /\ n \in 0..l
    BY <1>1
  <2>. HIDE DEF s
  <2>3. CASE y.err # ""
    <3>1. z = y
      BY <2>3 DEF LoopNext
    <3>2. StartedUpTo(d, keys, n, y)
      BY <2>1, <2>3 DEF StartedUpTo
    <3>. QED
      BY <2>1, <2>2, <3>1, <3>2
  <2>4. CASE y.err = ""
    <3>1. z = startCall(y, keys[n])
      BY <2>4 DEF LoopNext, LoopStep
    <3>2. StartedUpTo(d, keys, s + 1, startCall(y, keys[s + 1]))
      BY <2>1, <2>2, <2>4, StartNext
    <3>3. StartedUpTo(d, keys, n, z)
      BY <2>2, <3>1, <3>2
    <3>. HIDE DEF z
    <3>4. z \in Decoder
      BY <3>3 DEF StartedUpTo, Ending
    <3>. QED
      BY <2>2, <3>3, <3>4 DEF z
  <2>. QED
    BY <2>3, <2>4
<1>6. <<l, e>> \in Good
  <2>. HIDE DEF Good
  <2>. QED
    BY <1>1, <1>3, <1>4, <1>5, LoopInduction
<1>. QED
  BY <1>6 DEF e

CompletedCalls(x, keys) == Each(x, keys, LAMBDA y, i : completeCall(y, keys, i))

\* The calls before the n-th have identifiers of their own.
Distinct(calls, keys, n) ==
    \A a, b \in 1..n : a < b => calls[keys[a]].callID # calls[keys[b]].callID

\* What the loop that completes them has done after n turns.
CompletedUpTo(d, keys, l, n, x) ==
    /\ Ending(d, x)
    /\ x.err = "" => /\ Journal(x.pending, d.calls, keys, l, n)
                     /\ \A m \in 1..l : x.calls[keys[m]].started
                     /\ \A m \in 1..n : x.calls[keys[m]].completed
                     /\ Distinct(d.calls, keys, n)

\* The two events of a call that is completed.
LEMMA CompletionEvents ==
    ASSUME NEW f \in CallMaps, NEW key \in DOMAIN f, f[key].name \in AllowedToolNames,
           NEW id, id = f[key].callID, NEW n \in Nat
    PROVE  LET arguments == Event("tool_arguments", key, id, n)
               complete == Event("tool_completed", key, id, n)
           IN /\ ToolEvent(f, arguments) /\ arguments.type = "tool_arguments" /\ arguments.key = key
              /\ ToolEvent(f, complete) /\ complete.type = "tool_completed" /\ complete.key = key
<1>1. "tool_arguments" \in ToolEvents /\ "tool_completed" \in ToolEvents
  BY DEF ToolEvents
<1>. QED
  BY <1>1, CallEvent

\* One more identifier differs from those before it.
LEMMA DistinctMore ==
    ASSUME NEW calls, NEW keys, NEW n \in Nat, Distinct(calls, keys, n),
           \A j \in 1..n : calls[keys[j]].callID # calls[keys[n + 1]].callID
    PROVE  Distinct(calls, keys, n + 1)
<1>1. \A a, b \in 1..(n + 1) : a < b => a \in 1..n /\ (b \in 1..n \/ b = n + 1)
  OBVIOUS
<1>. QED
  BY <1>1 DEF Distinct

\* One more call is completed.
LEMMA CompleteNext ==
    ASSUME NEW d \in Decoder, NEW keys, NEW l, InOrder(keys, d.calls, l), NEW s \in Nat, s + 1 \in 1..l,
           NEW y, y.err = "", CompletedUpTo(d, keys, l, s, y)
    PROVE  CompletedUpTo(d, keys, l, s + 1, completeCall(y, keys, s + 1))
<1>. DEFINE i == s + 1
            key == keys[i]
            z == completeCall(y, keys, i)
            id == y.calls[key].callID
            f == d.calls
<1>1. /\ Ending(d, y) /\ y \in Decoder /\ y.aggregateBytes =< MaxAggregateBytes
      /\ Journal(y.pending, f, keys, l, s) /\ Distinct(f, keys, s)
      /\ DOMAIN y.calls = DOMAIN f
  BY DEF CompletedUpTo, Ending, Kept
<1>2. /\ \A m \in 1..l : y.calls[keys[m]].started
      /\ \A m \in 1..s : y.calls[keys[m]].completed
      /\ \A k \in DOMAIN f : y.calls[k].callID = f[k].callID
  BY DEF CompletedUpTo, Ending, Kept
<1>3. /\ l \in Nat /\ f \in CallMaps /\ i \in Nat /\ i \in 1..l
      /\ \A m \in 1..l : keys[m] \in DOMAIN f
      /\ \A m \in 1..i : m \in 1..l /\ (m \in 1..s \/ m = i)
      /\ 1..(i - 1) = 1..s
  <2>1. l \in Nat /\ keys \in [1..l -> DOMAIN f] /\ f \in CallMaps
    BY DEF InOrder
  <2>2. \A m \in 1..i : m \in 1..l /\ (m \in 1..s \/ m = i)
    BY <2>1, OneMore
  <2>3. i \in Nat /\ 1..(i - 1) = 1..s
    BY Turns
  <2>. QED
    BY <2>1, <2>2, <2>3
<1>4. key \in DOMAIN f /\ key \in DOMAIN y.calls /\ id = f[key].callID
  BY <1>1, <1>2, <1>3
<1>5. /\ Ending(y, z)
      /\ z.err = "" =>
            /\ z.calls[key].completed
            /\ \A j \in 1..(i - 1) : y.calls[keys[j]].callID # id
            /\ \E n \in Nat :
                  \/ Added(y.pending, z.pending, Event("tool_completed", key, id, n))
                  \/ \E q : /\ Added(y.pending, q, Event("tool_arguments", key, id, n))
                            /\ Added(q, z.pending, Event("tool_completed", key, id, n))
  <2>. HIDE DEF i
  <2>. QED
    BY <1>1, <1>3, <1>4, CompleteCall
<1>. HIDE DEF z, id
<1>6. Ending(d, z)
  BY <1>1, <1>5, EndingMore
<1>7. ASSUME z.err = ""
      PROVE  Journal(z.pending, f, keys, l, i)
  <2>1. PICK n \in Nat :
           \/ Added(y.pending, z.pending, Event("tool_completed", key, id, n))
           \/ \E q : /\ Added(y.pending, q, Event("tool_arguments", key, id, n))
                     /\ Added(q, z.pending, Event("tool_completed", key, id, n))
    BY <1>5, <1>7
  <2>. DEFINE arguments == Event("tool_arguments", key, id, n)
              complete == Event("tool_completed", key, id, n)
  <2>0. PICK first \in 1..Len(y.pending) : y.pending[first].type = "tool_started" /\ y.pending[first].key = key
    BY <1>1, <1>3 DEF Journal
  <2>8. f[key].name \in AllowedToolNames
    BY <1>1, <2>0 DEF Journal, ToolEvent
  <2>2. /\ ToolEvent(f, arguments) /\ arguments.type = "tool_arguments" /\ arguments.key = key
        /\ ToolEvent(f, complete) /\ complete.type = "tool_completed" /\ complete.key = key
    <3>. HIDE DEF f, key
    <3>. QED
      BY ONLY <1>3, <1>4, <2>8, n \in Nat, CompletionEvents
  <2>3. \/ Added(y.pending, z.pending, complete)
        \/ \E q : Added(y.pending, q, arguments) /\ Added(q, z.pending, complete)
    BY <2>1
  <2>. HIDE DEF arguments, complete, f
  <2>4. InOrder(keys, f, l)
    BY DEF f
  <2>5. ASSUME NEW p, Journal(p, f, keys, l, s), Added(p, z.pending, complete)
        PROVE  Journal(z.pending, f, keys, l, i)
    BY <1>3, <2>2, <2>4, <2>5, JournalCompleted
  <2>6. CASE Added(y.pending, z.pending, complete)
    BY <1>1, <2>5, <2>6
  <2>7. ASSUME NEW q, Added(y.pending, q, arguments), Added(q, z.pending, complete)
        PROVE  Journal(z.pending, f, keys, l, i)
    <3>1. Journal(q, f, keys, l, s)
      <4>1. \A m \in 1..s : keys[m] # arguments.key
        <5>1. \A m \in 1..s : m \in 1..i /\ m # i
          BY Turns
        <5>. QED
          BY <1>3, <2>2, <2>4, <5>1 DEF InOrder
      <4>. QED
        BY <1>1, <2>0, <2>2, <2>7, <4>1, JournalArguments
    <3>. QED
      BY <2>5, <2>7, <3>1
  <2>. QED
    BY <2>3, <2>6, <2>7
<1>8. ASSUME z.err = "", NEW m \in 1..l
      PROVE  z.calls[keys[m]].started
  <2>1. keys[m] \in DOMAIN y.calls /\ y.calls[keys[m]].started
    BY <1>1, <1>2, <1>3
  <2>. QED
    BY <1>5, <2>1 DEF Ending, Kept
<1>9. ASSUME z.err = "", NEW m \in 1..i
      PROVE  z.calls[keys[m]].completed
  <2>1. CASE m = i
    BY <1>5, <1>9, <2>1
  <2>2. CASE m \in 1..s
    <3>1. keys[m] \in DOMAIN y.calls /\ y.calls[keys[m]].completed
      BY <1>1, <1>2, <1>3, <2>2
    <3>. QED
      BY <1>5, <3>1 DEF Ending, Kept
  <2>. QED
    BY <1>3, <2>1, <2>2
<1>10. ASSUME z.err = ""
       PROVE  Distinct(f, keys, i)
  <2>1. ASSUME NEW j \in 1..s
        PROVE  f[keys[j]].callID # f[keys[i]].callID
    <3>1. keys[j] \in DOMAIN f
      <4>1. j \in 1..i
        BY Turns
      <4>. QED
        BY <1>3, <4>1
    <3>2. y.calls[keys[j]].callID # id
      BY <1>3, <1>5, <1>10
    <3>. QED
      BY <1>2, <1>4, <3>1, <3>2
  <2>. HIDE DEF f
  <2>. QED
    BY <1>1, <2>1, DistinctMore
<1>. QED
  BY <1>6, <1>7, <1>8, <1>9, <1>10 DEF CompletedUpTo, z

\* The calls are completed in order, or the turn fails.
LEMMA CompleteCalls ==
    ASSUME NEW d \in Decoder, NEW keys, NEW l, InOrder(keys, d.calls, l), Len(keys) = l,
           NEW x \in Decoder, StartedUpTo(d, keys, l, x), x.err = ""
    PROVE  CompletedUpTo(d, keys, l, l, CompletedCalls(x, keys))
<1>. DEFINE e == CompletedCalls(x, keys)
            Good == {p \in (0..l) \X Decoder : CompletedUpTo(d, keys, l, p[1], p[2])}
<1>1. l \in Nat
  BY DEF InOrder
<1>2. Runs("completeCall", keys, x, Len(keys), e)
  BY ZenonT(60) DEF Runs, LoopBody, LoopNext, LoopStep, CompletedCalls, Each, Then
<1>3. Runs("completeCall", keys, x, l, e)
  BY <1>2
<1>. HIDE DEF e
<1>4. <<0, x>> \in Good
  <2>1. \A m \in 1..0 : FALSE
    BY NoTurn
  <2>2. Distinct(d.calls, keys, 0)
    BY <2>1 DEF Distinct
  <2>3. CompletedUpTo(d, keys, l, 0, x)
    BY <2>1, <2>2 DEF CompletedUpTo, StartedUpTo
  <2>. QED
    BY <1>1, <2>3, LastTurn
<1>5. ASSUME NEW n \in 1..l, NEW y, <<n - 1, y>> \in Good
      PROVE  <<n, LoopNext("completeCall", keys, y, n)>> \in Good
  <2>. DEFINE z == LoopNext("completeCall", keys, y, n)
              s == n - 1
  <2>1. y \in Decoder /\ CompletedUpTo(d, keys, l, s, y)
    BY <1>5
  <2>2. s \in Nat /\ n = s + 1 /\ s + 1 \in 1..l /\ n \in 0..l
    BY <1>1, LastTurn
  <2>. HIDE DEF s
  <2>3. CASE y.err # ""
    <3>1. z = y
      BY <2>3 DEF LoopNext
    <3>2. CompletedUpTo(d, keys, l, n, y)
      BY <2>1, <2>3 DEF CompletedUpTo
    <3>. QED
      BY <2>1, <2>2, <3>1, <3>2
  <2>4. CASE y.err = ""
    <3>1. z = completeCall(y, keys, n)
      BY <2>4 DEF LoopNext, LoopStep
    <3>2. CompletedUpTo(d, keys, l, s + 1, completeCall(y, keys, s + 1))
      BY <2>1, <2>2, <2>4, CompleteNext
    <3>3. CompletedUpTo(d, keys, l, n, z)
      BY <2>2, <3>1, <3>2
    <3>. HIDE DEF z
    <3>4. z \in Decoder
      BY <3>3 DEF CompletedUpTo, Ending
    <3>. QED
      BY <2>2, <3>3, <3>4 DEF z
  <2>. QED
    BY <2>3, <2>4
<1>6. <<l, e>> \in Good
  <2>. HIDE DEF Good
  <2>. QED
    BY <1>1, <1>3, <1>4, <1>5, LoopInduction
<1>. QED
  BY <1>6 DEF e

-----------------------------------------------------------------------------
(* The end of the stream.                                                  *)

\* Every call has an event of this type.
EveryCall(p, calls, type) ==
    \A key \in DOMAIN calls : \E i \in 1..Len(p) : p[i].type = type /\ p[i].key = key

\* The events of a whole tool turn, and the pending turn it leaves.
Whole(p, x) ==
    /\ p[Len(p)].type = "completed"
    /\ \A i \in 1..Len(p) : p[i].type \in ToolEvents => ToolEvent(x.calls, p[i])
    /\ EveryCall(p, x.calls, "tool_started")
    /\ EveryCall(p, x.calls, "tool_completed")
    /\ OnceEach(p)
    /\ StartsFirst(p)
    /\ ArgumentsInside(p)
    /\ KeysAscend(p)
    /\ HasPendingTurn(x)
    /\ IsInjective(PendingCallIDs(x))

\* The end is that of a whole tool turn as soon as a tool event or a completion says so.
WholeIfTold(p, x) ==
    /\ (\E i \in 1..Len(p) : p[i].type \in ToolEvents) => Whole(p, x)
    /\ p[Len(p)].type = "completed" /\ DOMAIN x.calls # {} => Whole(p, x)

\* The terminal event is about nothing else.
TerminalEvent(event) == event.type \in Terminals /\ event.key = << >> /\ event.callID = << >>

\* What finish leaves in the queue: one terminal event, last, and before it tool
\* events only, those of a whole turn.
Concluded(x) ==
    /\ Len(x.pending) \in Nat /\ Len(x.pending) \in 1..Len(x.pending)
    /\ TerminalEvent(x.pending[Len(x.pending)])
    /\ \A i \in 1..Len(x.pending) : i = Len(x.pending) \/ ToolEvent(x.calls, x.pending[i])
    /\ WholeIfTold(x.pending, x)

Ended(d, x) ==
    /\ x \in Decoder /\ Held(x) /\ x.choiceFinishReasons = d.choiceFinishReasons
    /\ Kept(d.calls, x.calls)
    /\ x.err = "" => Concluded(x)

\* Events of different kinds are different events.
LEMMA EventKinds ==
    /\ ToolEvents \cap Terminals = {}
    /\ "completed" \in Terminals /\ "incomplete" \in Terminals /\ "failed" \in Terminals
    /\ "completed" \notin ToolEvents /\ "completed" # "tool_started" /\ "completed" # "tool_completed"
    /\ "tool_started" \in ToolEvents /\ "tool_completed" \in ToolEvents
    /\ Terminals \subseteq EventTypes /\ ToolEvents \subseteq EventTypes
    /\ "incomplete" # "completed" /\ "failed" # "completed" /\ "failed" # "incomplete"
BY DEF ToolEvents, Terminals, EventTypes

\* A queue that held nothing holds the one event put into it.
LEMMA OneEvent ==
    ASSUME NEW p, p = << >>, NEW q, NEW event, Added(p, q, event)
    PROVE  Len(q) = 1 /\ q[1] = event /\ 1 \in Nat /\ 1 \in 1..1 /\ \A i \in 1..1 : i = 1
<1>1. Len(p) = 0
  OBVIOUS
<1>2. Len(q) = Len(p) + 1 /\ q[Len(p) + 1] = event
  BY DEF Added
<1>3. 0 + 1 = 1 /\ 1 \in Nat /\ 1 \in 1..1 /\ \A i \in 1..1 : i = 1
  OBVIOUS
<1>. QED
  BY <1>1, <1>2, <1>3

\* A turn without tools ends with one terminal event.
LEMMA QueueEnds ==
    ASSUME NEW d \in Decoder, Held(d), d.pending = << >>, NEW x \in Decoder, x.err = "",
           Held(x), x.pending = << >>, x.calls = d.calls,
           x.choiceFinishReasons = d.choiceFinishReasons, NEW type \in Terminals,
           type # "completed" \/ DOMAIN d.calls = {}
    PROVE  Ended(d, queue(x, Plain(type), 0))
<1>. DEFINE event == Plain(type)
            z == queue(x, event, 0)
<1>1. event \in EventRecord /\ event.type = type /\ event.key = << >> /\ event.callID = << >>
  BY PlainEvent, EventKinds
<1>. HIDE DEF event
<1>2. /\ Ending(x, z)
      /\ z.err = "" => z.calls = x.calls /\ Added(x.pending, z.pending, event)
  <2>1. 0 \in Nat /\ x.aggregateBytes =< MaxAggregateBytes
    BY AddZero DEF Held
  <2>. QED
    BY <1>1, <2>1, QueueEnding
<1>. HIDE DEF z
<1>3. z \in Decoder /\ Held(z)
  BY <1>2, EndingHeld DEF Ending
<1>4. z.choiceFinishReasons = d.choiceFinishReasons /\ Kept(d.calls, z.calls)
  BY <1>2 DEF Ending, SameReasons
<1>5. ASSUME z.err = ""
      PROVE  Concluded(z)
  <2>1. Len(z.pending) = 1 /\ z.pending[1] = event /\ 1 \in Nat /\ 1 \in 1..1 /\ \A i \in 1..1 : i = 1
    BY <1>2, <1>5, OneEvent
  <2>2. \A i \in 1..1 : z.pending[i].type \notin ToolEvents
    BY <1>1, <2>1, EventKinds
  <2>3. ~(z.pending[1].type = "completed" /\ DOMAIN z.calls # {})
    BY <1>1, <1>2, <1>5, <2>1
  <2>4. WholeIfTold(z.pending, z)
    BY <2>1, <2>2, <2>3 DEF WholeIfTold
  <2>. QED
    BY <1>1, <2>1, <2>2, <2>4 DEF Concluded, TerminalEvent
<1>. QED
  BY <1>3, <1>4, <1>5 DEF Ended, z, event

\* The order of the keys depends on the keys alone.
LEMMA SameOrder ==
    ASSUME NEW f, NEW g, DOMAIN g = DOMAIN f
    PROVE  sortedToolKeys(g) = sortedToolKeys(f)
BY DEF sortedToolKeys

\* A tool event of calls that are kept.
LEMMA ToolEventKept ==
    ASSUME NEW f, NEW g, Kept(f, g), NEW event, ToolEvent(f, event)
    PROVE  ToolEvent(g, event)
BY DEF ToolEvent, Kept

\* The journal of all the calls, and the terminal event after it.
LEMMA JournalEnds ==
    ASSUME NEW f, NEW keys, NEW l, NEW p, Journal(p, f, keys, l, l),
           \A k \in DOMAIN f : \E m \in 1..l : keys[m] = k,
           NEW q, NEW event, event.type = "completed", Added(p, q, event)
    PROVE  /\ Len(q) = Len(p) + 1 /\ Len(q) \in Nat /\ Len(q) \in 1..Len(q) /\ q[Len(q)] = event
           /\ \A i \in 1..Len(q) : i = Len(q) \/ ToolEvent(f, q[i])
           /\ EveryCall(q, f, "tool_started") /\ EveryCall(q, f, "tool_completed")
           /\ OnceEach(q) /\ StartsFirst(q) /\ ArgumentsInside(q) /\ KeysAscend(q)
<1>1. /\ Len(q) = Len(p) + 1 /\ Len(p) \in Nat /\ Len(q) \in 1..Len(q) /\ q[Len(q)] = event
      /\ \A i \in 1..Len(p) : q[i] = p[i] /\ i \in 1..Len(q)
      /\ \A i \in 1..Len(q) : i \in 1..Len(p) \/ i = Len(q)
  BY DEF Added
<1>2. Len(q) \in Nat
  BY <1>1, Turns
<1>3. \A i \in 1..Len(q) : q[i].type \in {"tool_started", "tool_completed"} => i \in 1..Len(p) /\ q[i] = p[i]
  BY <1>1, EventKinds
<1>4. ASSUME NEW i \in 1..Len(q)
      PROVE  i = Len(q) \/ ToolEvent(f, q[i])
  <2>1. \A k \in 1..Len(p) : ToolEvent(f, p[k])
    BY DEF Journal
  <2>. QED
    BY <1>1, <2>1
<1>5. EveryCall(q, f, "tool_started")
  <2>1. \A m \in 1..l : \E i \in 1..Len(p) : p[i].type = "tool_started" /\ p[i].key = keys[m]
    BY DEF Journal
  <2>. QED
    BY <1>1, <2>1 DEF EveryCall
<1>6. EveryCall(q, f, "tool_completed")
  <2>1. \A m \in 1..l : \E i \in 1..Len(p) : p[i].type = "tool_completed" /\ p[i].key = keys[m]
    BY DEF Journal
  <2>. QED
    BY <1>1, <2>1 DEF EveryCall
<1>7. OnceEach(q)
  <2>1. OnceEach(p)
    BY DEF Journal
  <2>. QED
    BY <1>3, <2>1 DEF OnceEach
<1>8. StartsFirst(q)
  <2>1. StartsFirst(p)
    BY DEF Journal
  <2>. QED
    BY <1>3, <2>1 DEF StartsFirst
<1>9. KeysAscend(q)
  <2>1. KeysAscend(p)
    BY DEF Journal
  <2>. QED
    BY <1>3, <2>1 DEF KeysAscend
<1>10. ArgumentsInside(q)
  BY InsideAdded DEF Journal
<1>. QED
  BY <1>1, <1>2, <1>4, <1>5, <1>6, <1>7, <1>8, <1>9, <1>10

\* The pending turn of calls that are all started and completed under identifiers of
\* their own.
LEMMA TurnIsPending ==
    ASSUME NEW x, NEW f \in CallMaps, Kept(f, x.calls), x.finalized, x.toolTurn,
           Distinct(f, sortedToolKeys(f), Cardinality(DOMAIN f)),
           \A m \in 1..Cardinality(DOMAIN f) :
              x.calls[sortedToolKeys(f)[m]].started /\ x.calls[sortedToolKeys(f)[m]].completed
    PROVE  HasPendingTurn(x) /\ IsInjective(PendingCallIDs(x))
<1>. DEFINE keys == sortedToolKeys(f)
            l == Cardinality(DOMAIN f)
            ids == PendingCallIDs(x)
<1>1. /\ l \in Nat /\ keys \in [1..l -> DOMAIN f] /\ Len(keys) = l
      /\ \A k \in DOMAIN f : \E i \in 1..l : keys[i] = k
  BY SortedKeys
<1>2. DOMAIN x.calls = DOMAIN f /\ sortedToolKeys(x.calls) = keys
  BY SameOrder DEF Kept
<1>3. ids = [i \in 1..l |-> x.calls[keys[i]].callID]
  BY <1>1, <1>2 DEF PendingCallIDs
<1>4. Distinct(f, keys, l)
  OBVIOUS
<1>5. \A m \in 1..l : x.calls[keys[m]].started /\ x.calls[keys[m]].completed
  OBVIOUS
<1>. HIDE DEF keys, l, ids
<1>6. HasPendingTurn(x)
  BY <1>1, <1>2, <1>5 DEF HasPendingTurn
<1>7. DOMAIN ids = 1..l
  BY <1>3
<1>8. ASSUME NEW a \in 1..l
      PROVE  ids[a] = f[keys[a]].callID
  BY <1>1, <1>3 DEF Kept
<1>9. ASSUME NEW a \in 1..l, NEW b \in 1..l, ids[a] = ids[b]
      PROVE  a = b
  <2>1. f[keys[a]].callID = f[keys[b]].callID
    BY <1>8, <1>9
  <2>2. ~(a < b) /\ ~(b < a)
    BY <1>4, <2>1 DEF Distinct
  <2>3. a \in Int /\ b \in Int
    BY <1>1
  <2>. QED
    BY <2>2, <2>3
<1>. QED
  BY <1>6, <1>7, <1>9 DEF IsInjective, ids

\* The turn is closed: nothing else changes.
LEMMA FinalizeCloses ==
    ASSUME NEW x \in Decoder, NEW b \in BOOLEAN, NEW y, y = [x EXCEPT !.finalized = TRUE, !.toolTurn = b]
    PROVE  /\ y \in Decoder /\ y.finalized /\ y.toolTurn = b
           /\ SameReasons(x, y) /\ SameBytes(x, y) /\ SameQueue(x, y)
           /\ y.calls = x.calls /\ y.err = x.err /\ y.terminal = x.terminal
BY DEF Decoder, DecoderWith, SameReasons, SameBytes, SameQueue

\* A decoder that differs in neither bytes nor calls holds the same budgets.
LEMMA HeldSame ==
    ASSUME NEW x, Held(x), NEW y, SameBytes(x, y), y.aggregateBytes = x.aggregateBytes, y.calls = x.calls
    PROVE  Held(y)
BY DEF Held, SameBytes

\* A failure on the way fails the turn.
LEMMA FailedEnds ==
    ASSUME NEW d \in Decoder, Held(d), NEW x, Ending(d, x), x.err # ""
    PROVE  Ended(d, x)
<1>1. Held(x)
  BY EndingHeld
<1>. QED
  BY <1>1 DEF Ended, Ending, SameReasons

\* finishToolCalls: the calls come out whole, or the turn fails.
LEMMA FinishToolCalls ==
    ASSUME NEW d \in Decoder, Held(d), d.pending = << >>, d.err = ""
    PROVE  Ended(d, finishToolCalls(d))
<1>. DEFINE keys == sortedToolKeys(d.calls)
            l == Cardinality(DOMAIN d.calls)
            s == StartedCalls(d, keys)
            c == IF s.err # "" THEN s ELSE CompletedCalls(s, keys)
            b == (DOMAIN c.calls # {})
            y == [c EXCEPT !.finalized = TRUE, !.toolTurn = b]
            event == Plain("completed")
            z == queue(y, event, 0)
<1>1. finishToolCalls(d) = IF c.err # "" THEN c ELSE IF y.err # "" THEN y ELSE z
  <2>1. finishToolCalls(d) = LET final == IF c.err # "" THEN c ELSE y
                             IN IF final.err # "" THEN final ELSE queue(final, event, 0)
    BY DEF finishToolCalls, StartedCalls, CompletedCalls, Then, Queue
  <2>. HIDE DEF c, y, event
  <2>. QED
    BY <2>1 DEF z
<1>2. d.calls \in CallMaps
  BY DEF Decoder, DecoderWith
<1>3. /\ InOrder(keys, d.calls, l) /\ Len(keys) = l /\ l \in Nat
      /\ \A k \in DOMAIN d.calls : \E m \in 1..l : keys[m] = k
  BY <1>2, SortedKeys DEF InOrder
<1>. HIDE DEF keys, l
<1>4. StartedUpTo(d, keys, l, s)
  BY <1>3, StartCalls
<1>. HIDE DEF s
<1>5. Ending(d, s) /\ s \in Decoder
  BY <1>4 DEF StartedUpTo, Ending
<1>6. CASE s.err # ""
  <2>1. c = s
    BY <1>6
  <2>2. finishToolCalls(d) = s
    <3>. HIDE DEF c, y, z
    <3>. QED
      BY <1>1, <1>6, <2>1
  <2>. QED
    BY <1>5, <1>6, <2>2, FailedEnds
<1>7. CASE s.err = ""
  <2>1. c = CompletedCalls(s, keys)
    BY <1>7
  <2>2. CompletedUpTo(d, keys, l, l, c)
    BY <1>3, <1>4, <1>5, <1>7, <2>1, CompleteCalls
  <2>. HIDE DEF c
  <2>3. Ending(d, c) /\ c \in Decoder /\ Kept(d.calls, c.calls) /\ c.choiceFinishReasons = d.choiceFinishReasons
    BY <2>2 DEF CompletedUpTo, Ending, SameReasons
  <2>4. Held(c)
    BY <2>3, EndingHeld
  <2>5. CASE c.err # ""
    <3>1. finishToolCalls(d) = c
      <4>. HIDE DEF y, z
      <4>. QED
        BY <1>1, <2>5
    <3>. QED
      BY <2>3, <2>5, <3>1, FailedEnds
  <2>6. CASE c.err = ""
    <3>1. b \in BOOLEAN
      OBVIOUS
    <3>2. b <=> DOMAIN c.calls # {}
      OBVIOUS
    <3>. HIDE DEF b
    <3>3. /\ y \in Decoder /\ y.finalized /\ y.toolTurn = b
          /\ SameReasons(c, y) /\ SameBytes(c, y) /\ SameQueue(c, y)
          /\ y.calls = c.calls /\ y.err = c.err
      BY <2>3, <3>1, FinalizeCloses, ZenonT(60)
    <3>. HIDE DEF y
    <3>4. finishToolCalls(d) = z
      <4>. HIDE DEF z
      <4>. QED
        BY <1>1, <2>6, <3>3
    <3>5. Held(y)
      BY <2>4, <3>3, HeldSame DEF SameQueue
    <3>6. event \in EventRecord /\ event.type = "completed" /\ event.key = << >> /\ event.callID = << >>
      BY PlainEvent, EventKinds
    <3>. HIDE DEF event
    <3>7. /\ Ending(y, z)
          /\ z.err = "" => z.calls = y.calls /\ Added(y.pending, z.pending, event)
      <4>1. 0 \in Nat /\ y.aggregateBytes =< MaxAggregateBytes
        BY <3>5, AddZero DEF Held
      <4>. QED
        BY <2>6, <3>3, <3>6, <4>1, QueueEnding
    <3>. HIDE DEF z
    <3>8. z \in Decoder /\ Held(z) /\ Kept(y.calls, z.calls)
      BY <3>3, <3>5, <3>7, EndingHeld DEF Ending
    <3>9. z.choiceFinishReasons = d.choiceFinishReasons /\ Kept(d.calls, z.calls)
      <4>1. z.choiceFinishReasons = d.choiceFinishReasons
        BY <2>3, <3>3, <3>7 DEF Ending, SameReasons
      <4>2. Kept(c.calls, z.calls)
        BY <3>3, <3>8
      <4>3. Kept(d.calls, z.calls)
        BY <2>3, <4>2 DEF Kept
      <4>. QED
        BY <4>1, <4>3
    <3>10. ASSUME z.err = ""
           PROVE  Concluded(z)
      <4>. DEFINE p == c.pending
                  q == z.pending
                  f == d.calls
      <4>1. Added(p, q, event) /\ z.calls = c.calls
        BY <3>3, <3>7, <3>10 DEF SameQueue
      <4>2. /\ Journal(p, f, keys, l, l) /\ Distinct(f, keys, l)
            /\ \A m \in 1..l : z.calls[keys[m]].started /\ z.calls[keys[m]].completed
        BY <2>2, <2>6, <4>1 DEF CompletedUpTo
      <4>3. Kept(f, z.calls) /\ DOMAIN z.calls = DOMAIN f /\ f \in CallMaps
        BY <1>2, <3>9 DEF Kept
      <4>4. /\ z.finalized
            /\ z.toolTurn <=> DOMAIN z.calls # {}
        BY <3>2, <3>3, <3>7, <4>1 DEF Ending, SameFlags
      <4>5. \A k \in DOMAIN f : \E m \in 1..l : keys[m] = k
        BY <1>3
      <4>. HIDE DEF p, q, f
      <4>6. /\ Len(q) \in Nat /\ Len(q) \in 1..Len(q) /\ q[Len(q)] = event
            /\ \A i \in 1..Len(q) : i = Len(q) \/ ToolEvent(f, q[i])
            /\ EveryCall(q, f, "tool_started") /\ EveryCall(q, f, "tool_completed")
            /\ OnceEach(q) /\ StartsFirst(q) /\ ArgumentsInside(q) /\ KeysAscend(q)
        BY ONLY <3>6, <4>1, <4>2, <4>5, JournalEnds
      <4>7. \A i \in 1..Len(q) : i = Len(q) \/ ToolEvent(z.calls, q[i])
        BY <4>3, <4>6, ToolEventKept
      <4>8. ASSUME DOMAIN z.calls # {}
            PROVE  Whole(q, z)
        <5>1. \A j \in 1..Len(q) : q[j].type \in ToolEvents => ToolEvent(z.calls, q[j])
          BY <3>6, <4>6, <4>7, EventKinds
        <5>2. z.toolTurn
          BY <4>4, <4>8
        <5>3. EveryCall(q, z.calls, "tool_started") /\ EveryCall(q, z.calls, "tool_completed")
          BY <4>3, <4>6 DEF EveryCall
        <5>4. HasPendingTurn(z) /\ IsInjective(PendingCallIDs(z))
          <6>1. keys = sortedToolKeys(f) /\ l = Cardinality(DOMAIN f)
            BY DEF keys, l, f
          <6>. QED
            BY <4>2, <4>3, <4>4, <5>2, <6>1, TurnIsPending
        <5>. QED
          BY <3>6, <4>6, <5>1, <5>3, <5>4 DEF Whole
      <4>9. ASSUME NEW i \in 1..Len(q), q[i].type \in ToolEvents
            PROVE  DOMAIN z.calls # {}
        <5>1. ToolEvent(z.calls, q[i])
          BY <3>6, <4>6, <4>7, <4>9, EventKinds
        <5>. QED
          BY <5>1 DEF ToolEvent
      <4>10. WholeIfTold(q, z)
        BY <4>8, <4>9 DEF WholeIfTold
      <4>. QED
        BY <3>6, <4>6, <4>7, <4>10, EventKinds DEF Concluded, TerminalEvent, q
    <3>. QED
      BY <3>4, <3>8, <3>9, <3>10 DEF Ended
  <2>. QED
    BY <2>5, <2>6
<1>. QED
  BY <1>6, <1>7

\* finish: one terminal event for every finish reason, and tool events only for a
\* whole tool turn.
LEMMA Finish ==
    ASSUME NEW d \in Decoder, Held(d), d.pending = << >>, d.err = ""
    PROVE  Ended(d, finish(d))
<1>1. Ended(d, finishToolCalls(d))
  BY FinishToolCalls
<1>2. ASSUME NEW type \in Terminals, type # "completed"
      PROVE  Ended(d, queue(d, Plain(type), 0))
  BY <1>2, QueueEnds
<1>3. ASSUME DOMAIN d.calls = {}
      PROVE  Ended(d, queue([d EXCEPT !.finalized = TRUE], Plain("completed"), 0))
  <2>. DEFINE x == [d EXCEPT !.finalized = TRUE]
  <2>1. x \in Decoder /\ x.err = "" /\ x.pending = << >> /\ x.calls = d.calls
        /\ x.choiceFinishReasons = d.choiceFinishReasons
        /\ SameBytes(d, x) /\ x.aggregateBytes = d.aggregateBytes
    BY DEF Decoder, DecoderWith, SameBytes
  <2>. HIDE DEF x
  <2>2. Held(x)
    BY <2>1, HeldSame
  <2>3. Ended(d, queue(x, Plain("completed"), 0))
    BY <1>3, <2>1, <2>2, QueueEnds, EventKinds
  <2>. QED
    BY <2>3 DEF x
<1>4. \/ finish(d) = queue(d, Plain("failed"), 0)
      \/ finish(d) = queue(d, Plain("incomplete"), 0)
      \/ finish(d) = finishToolCalls(d)
      \/ /\ DOMAIN d.calls = {}
         /\ finish(d) = queue([d EXCEPT !.finalized = TRUE], Plain("completed"), 0)
  BY DEF finish
<1>. QED
  BY <1>1, <1>2, <1>3, <1>4, EventKinds

-----------------------------------------------------------------------------
(* The events returned and the events queued.                              *)

QuietTypes == {"started", "text", "reasoning", "usage"}

\* Neither a tool event nor the end: nothing about a call, and text about a choice.
Quiet(event) ==
    /\ event.type \in QuietTypes /\ event.callID = << >>
    /\ event.type = "text" => \E c \in ChoiceIndexes : event.key = <<c>>

QuietEvents(p) == \A i \in 1..Len(p) : Quiet(p[i])

\* The events of a stream that has ended.
Final(p, x) ==
    /\ Len(p) \in 1..Len(p) /\ TerminalEvent(p[Len(p)])
    /\ \A i \in 1..Len(p) : p[i].type \in Terminals => i = Len(p)
    /\ \A i \in 1..Len(p) : i = Len(p) \/ Quiet(p[i]) \/ ToolEvent(x.calls, p[i])
    /\ WholeIfTold(p, x)

\* One sequence after another.
Joined(o, p, e) ==
    /\ Len(e) = Len(o) + Len(p)
    /\ \A i \in 1..Len(o) : i \in 1..Len(e) /\ e[i] = o[i]
    /\ \A j \in 1..Len(p) : Len(o) + j \in 1..Len(e) /\ e[Len(o) + j] = p[j]
    /\ \A i \in 1..Len(e) : i \in 1..Len(o) \/ \E j \in 1..Len(p) : i = Len(o) + j
    /\ \A i, j \in 1..Len(p) : i < j => Len(o) + i < Len(o) + j

\* Quiet events are neither tool events nor the end.
LEMMA QuietKinds ==
    /\ QuietTypes \cap Terminals = {} /\ QuietTypes \cap ToolEvents = {}
    /\ "tool_started" \notin QuietTypes /\ "tool_completed" \notin QuietTypes
    /\ "tool_arguments" \notin QuietTypes
    /\ "completed" \notin QuietTypes /\ "incomplete" \notin QuietTypes /\ "failed" \notin QuietTypes
BY DEF QuietTypes, Terminals, ToolEvents

\* The indices of a concatenation.
LEMMA JoinIndices ==
    \A m, n \in Nat :
       /\ \A i \in 1..m : i \in 1..(m + n) /\ i =< m
       /\ \A j \in 1..n : m + j \in 1..(m + n) /\ ~(m + j =< m) /\ (m + j) - m = j
       /\ \A i \in 1..(m + n) : i \in 1..m \/ (i - m \in 1..n /\ i = m + (i - m))
       /\ \A i, j \in 1..n : i < j => m + i < m + j
OBVIOUS

\* A concatenation is one sequence after the other.
LEMMA ConcatJoins ==
    ASSUME NEW o \in Seq(EventRecord), NEW p \in Seq(EventRecord)
    PROVE  Joined(o, p, o \o p) /\ o \o p \in Seq(EventRecord)
<1>. DEFINE e == o \o p
            m == Len(o)
            n == Len(p)
<1>1. /\ e \in Seq(EventRecord) /\ Len(e) = m + n
      /\ \A i \in 1..(m + n) : e[i] = IF i =< m THEN o[i] ELSE p[i - m]
  BY ConcatProperties
<1>2. m \in Nat /\ n \in Nat
  OBVIOUS
<1>. HIDE DEF e, m, n
<1>3. \A i \in 1..m : i \in 1..(m + n) /\ e[i] = o[i]
  BY <1>1, <1>2, JoinIndices
<1>4. \A j \in 1..n : m + j \in 1..(m + n) /\ e[m + j] = p[j]
  BY <1>1, <1>2, JoinIndices, ZenonT(60)
<1>5. \A i \in 1..(m + n) : i \in 1..m \/ \E j \in 1..n : i = m + j
  BY <1>2, JoinIndices
<1>6. \A i, j \in 1..n : i < j => m + i < m + j
  BY <1>2, JoinIndices
<1>. QED
  BY <1>1, <1>3, <1>4, <1>5, <1>6 DEF Joined, e, m, n

\* What is not quiet comes from the queue, when what was returned is quiet.
LEMMA LoudEvents ==
    ASSUME NEW o, NEW p, NEW e, Joined(o, p, e), QuietEvents(o)
    PROVE  \A i \in 1..Len(e) : e[i].type \notin QuietTypes =>
              \E j \in 1..Len(p) : i = Len(o) + j /\ e[i] = p[j]
BY DEF Joined, QuietEvents, Quiet

\* A whole turn is whole after quiet events.
LEMMA WholeJoined ==
    ASSUME NEW o, NEW p, NEW e, Joined(o, p, e), QuietEvents(o), Len(p) \in 1..Len(p),
           NEW x, Whole(p, x)
    PROVE  Whole(e, x)
<1>1. \A i \in 1..Len(e) : e[i].type \notin QuietTypes =>
         \E j \in 1..Len(p) : i = Len(o) + j /\ e[i] = p[j]
  BY LoudEvents
<1>2. e[Len(e)].type = "completed"
  <2>1. p[Len(p)].type = "completed"
    BY DEF Whole
  <2>. QED
    BY <2>1 DEF Joined
<1>3. ASSUME NEW i \in 1..Len(e), e[i].type \in ToolEvents
      PROVE  ToolEvent(x.calls, e[i])
  <2>1. PICK j \in 1..Len(p) : e[i] = p[j]
    BY <1>1, <1>3, QuietKinds
  <2>. QED
    BY <1>3, <2>1 DEF Whole
<1>4. ASSUME NEW type, EveryCall(p, x.calls, type)
      PROVE  EveryCall(e, x.calls, type)
  <2>1. SUFFICES ASSUME NEW key \in DOMAIN x.calls
                 PROVE  \E i \in 1..Len(e) : e[i].type = type /\ e[i].key = key
    BY DEF EveryCall
  <2>2. PICK j \in 1..Len(p) : p[j].type = type /\ p[j].key = key
    BY <1>4 DEF EveryCall
  <2>3. Len(o) + j \in 1..Len(e) /\ e[Len(o) + j] = p[j]
    BY DEF Joined
  <2>. QED
    BY <2>2, <2>3
<1>5. OnceEach(e)
  <2>1. SUFFICES ASSUME NEW i \in 1..Len(e), NEW j \in 1..Len(e), e[i].type = e[j].type,
                        e[i].type \in {"tool_started", "tool_completed"}, e[i].key = e[j].key
                 PROVE  i = j
    BY DEF OnceEach
  <2>2. PICK a \in 1..Len(p) : i = Len(o) + a /\ e[i] = p[a]
    BY <1>1, <2>1, QuietKinds
  <2>3. PICK b \in 1..Len(p) : j = Len(o) + b /\ e[j] = p[b]
    BY <1>1, <2>1, QuietKinds
  <2>4. OnceEach(p)
    BY DEF Whole
  <2>5. a = b
    BY <2>1, <2>2, <2>3, <2>4 DEF OnceEach
  <2>. QED
    BY <2>2, <2>3, <2>5
<1>6. StartsFirst(e)
  <2>1. SUFFICES ASSUME NEW i \in 1..Len(e), NEW j \in 1..Len(e),
                        e[i].type = "tool_started", e[j].type = "tool_completed"
                 PROVE  i < j
    BY DEF StartsFirst
  <2>2. PICK a \in 1..Len(p) : i = Len(o) + a /\ e[i] = p[a]
    BY <1>1, <2>1, QuietKinds
  <2>3. PICK b \in 1..Len(p) : j = Len(o) + b /\ e[j] = p[b]
    BY <1>1, <2>1, QuietKinds
  <2>4. StartsFirst(p)
    BY DEF Whole
  <2>5. a < b
    BY <2>1, <2>2, <2>3, <2>4 DEF StartsFirst
  <2>. QED
    BY <2>2, <2>3, <2>5 DEF Joined
<1>8. ArgumentsInside(e)
  <2>1. SUFFICES ASSUME NEW i \in 1..Len(e), e[i].type = "tool_arguments"
                 PROVE  /\ \E j \in 1..Len(e) : j < i /\ e[j].type = "tool_started" /\ e[j].key = e[i].key
                        /\ \A j \in 1..Len(e) :
                              e[j].type = "tool_completed" /\ e[j].key = e[i].key => i < j
    BY DEF ArgumentsInside
  <2>2. PICK a \in 1..Len(p) : i = Len(o) + a /\ e[i] = p[a]
    BY <1>1, <2>1, QuietKinds
  <2>3. /\ \E j \in 1..Len(p) : j < a /\ p[j].type = "tool_started" /\ p[j].key = p[a].key
        /\ \A j \in 1..Len(p) : p[j].type = "tool_completed" /\ p[j].key = p[a].key => a < j
    BY <2>1, <2>2 DEF Whole, ArgumentsInside
  <2>4. \E j \in 1..Len(e) : j < i /\ e[j].type = "tool_started" /\ e[j].key = e[i].key
    <3>1. PICK b \in 1..Len(p) : b < a /\ p[b].type = "tool_started" /\ p[b].key = p[a].key
      BY <2>3
    <3>2. Len(o) + b \in 1..Len(e) /\ e[Len(o) + b] = p[b] /\ Len(o) + b < i
      BY <2>2, <3>1 DEF Joined
    <3>. QED
      BY <2>2, <3>1, <3>2
  <2>5. ASSUME NEW j \in 1..Len(e), e[j].type = "tool_completed", e[j].key = e[i].key
        PROVE  i < j
    <3>1. PICK b \in 1..Len(p) : j = Len(o) + b /\ e[j] = p[b]
      BY <1>1, <2>5, QuietKinds
    <3>2. a < b
      BY <2>2, <2>3, <2>5, <3>1
    <3>. QED
      BY <2>2, <3>1, <3>2 DEF Joined
  <2>. QED
    BY <2>4, <2>5
<1>7. KeysAscend(e)
  <2>1. SUFFICES ASSUME NEW i \in 1..Len(e), NEW j \in 1..Len(e),
                        e[i].type = "tool_completed", e[j].type = "tool_completed",
                        toolKeyLess(e[i].key, e[j].key)
                 PROVE  i < j
    BY DEF KeysAscend
  <2>2. PICK a \in 1..Len(p) : i = Len(o) + a /\ e[i] = p[a]
    BY <1>1, <2>1, QuietKinds
  <2>3. PICK b \in 1..Len(p) : j = Len(o) + b /\ e[j] = p[b]
    BY <1>1, <2>1, QuietKinds
  <2>4. KeysAscend(p)
    BY DEF Whole
  <2>5. a < b
    BY <2>1, <2>2, <2>3, <2>4 DEF KeysAscend
  <2>. QED
    BY <2>2, <2>3, <2>5 DEF Joined
<1>. QED
  BY <1>2, <1>3, <1>4, <1>5, <1>6, <1>7, <1>8 DEF Whole

\* The stream ends once, after quiet events.
LEMMA FinalJoined ==
    ASSUME NEW o, NEW x, NEW e, Joined(o, x.pending, e), QuietEvents(o), Concluded(x)
    PROVE  Final(e, x)
<1>. DEFINE p == x.pending
            n == Len(x.pending)
<1>1. /\ n \in Nat /\ n \in 1..n
      /\ TerminalEvent(p[n])
      /\ \A i \in 1..n : i = n \/ ToolEvent(x.calls, p[i])
      /\ (\E i \in 1..n : p[i].type \in ToolEvents) => Whole(p, x)
      /\ p[n].type = "completed" /\ DOMAIN x.calls # {} => Whole(p, x)
  BY DEF Concluded, WholeIfTold
<1>2. \A i \in 1..Len(e) : e[i].type \notin QuietTypes => \E j \in 1..n : i = Len(o) + j /\ e[i] = p[j]
  <2>1. SUFFICES ASSUME NEW i \in 1..Len(e), e[i].type \notin QuietTypes
                 PROVE  \E j \in 1..n : i = Len(o) + j /\ e[i] = p[j]
    OBVIOUS
  <2>2. i \notin 1..Len(o)
    BY <2>1 DEF Joined, QuietEvents, Quiet
  <2>3. PICK j \in 1..n : i = Len(o) + j
    BY <2>1, <2>2 DEF Joined
  <2>4. e[i] = p[j]
    BY <2>3 DEF Joined
  <2>. QED
    BY <2>3, <2>4
<1>3. /\ Len(e) = Len(o) + n /\ Len(e) \in 1..Len(e) /\ e[Len(e)] = p[n]
  BY <1>1 DEF Joined
<1>4. ASSUME NEW i \in 1..Len(e), e[i].type \in Terminals
      PROVE  i = Len(e)
  <2>1. PICK j \in 1..n : i = Len(o) + j /\ e[i] = p[j]
    BY <1>2, <1>4, QuietKinds
  <2>2. j = n
    BY <1>1, <1>4, <2>1, EventKinds DEF ToolEvent
  <2>. QED
    BY <1>3, <2>1, <2>2
<1>5. ASSUME NEW i \in 1..Len(e), e[i].type \in ToolEvents
      PROVE  Whole(e, x)
  <2>1. PICK j \in 1..n : e[i] = p[j]
    BY <1>2, <1>5, QuietKinds
  <2>2. Whole(p, x)
    BY <1>1, <1>5, <2>1
  <2>. QED
    BY <1>1, <2>2, WholeJoined
<1>6. ASSUME NEW i \in 1..Len(e)
      PROVE  i = Len(e) \/ Quiet(e[i]) \/ ToolEvent(x.calls, e[i])
  <2>1. CASE i \in 1..Len(o)
    BY <2>1 DEF Joined, QuietEvents
  <2>2. CASE i \notin 1..Len(o)
    <3>1. PICK j \in 1..n : i = Len(o) + j /\ e[i] = p[j]
      BY <2>2 DEF Joined
    <3>. QED
      BY <1>1, <1>3, <3>1
  <2>. QED
    BY <2>1, <2>2
<1>7. e[Len(e)].type = "completed" /\ DOMAIN x.calls # {} => Whole(e, x)
  BY <1>1, <1>3, WholeJoined
<1>8. WholeIfTold(e, x)
  BY <1>5, <1>7 DEF WholeIfTold
<1>. QED
  BY <1>1, <1>3, <1>4, <1>6, <1>8 DEF Final

-----------------------------------------------------------------------------
(* One provider event.                                                     *)

\* What a step may not do to a finished choice.
Steady(d, x) ==
    \A c \in ChoiceIndexes : d.choiceFinishReasons[c] # "" =>
       /\ x.choiceFinishReasons[c] = d.choiceFinishReasons[c]
       /\ CallsOf(x, c) = CallsOf(d, c)
       /\ d.choiceFinishReasons[c] # "tool_calls" =>
             \A key \in CallsOf(d, c) : x.calls[key].arguments = d.calls[key].arguments

\* No new event is about a finished choice.
NoNews(d, x) ==
    \A c \in ChoiceIndexes : d.choiceFinishReasons[c] # "" =>
       \A i \in 1..Len(x.pending) : x.pending[i].key # <<c>>

\* A provider event fails, goes on with quiet events and a charge, or ends the stream.
Translated(d, x) ==
    /\ x \in Decoder /\ Held(x) /\ Steady(d, x)
    /\ x.err = "" =>
          /\ NoNews(d, x)
          /\ \/ /\ ~x.terminal /\ QuietEvents(x.pending)
                /\ d.aggregateBytes + EventOverhead =< x.aggregateBytes
             \/ x.terminal /\ Concluded(x)

\* The key of a call is not a choice, and neither is the key of a terminal event.
LEMMA KeyNotChoice ==
    ASSUME NEW key, key \in Keys \/ key = << >>, NEW c
    PROVE  key # <<c>>
<1>1. Len(<<c>>) = 1 /\ Len(<< >>) = 0 /\ 0 # 1 /\ 2 # 1
  OBVIOUS
<1>2. CASE key \in Keys
  <2>1. key = <<key[1], key[2]>>
    BY <1>2 DEF Keys
  <2>2. Len(<<key[1], key[2]>>) = 2
    OBVIOUS
  <2>3. Len(key) = 2
    BY <2>1, <2>2
  <2>. QED
    BY <1>1, <2>3
<1>. QED
  BY <1>1, <1>2

\* A chunk.
LEMMA TranslateGoesOn ==
    ASSUME NEW d \in Decoder, Held(d), d.pending = << >>, d.err = "", ~d.terminal,
           NEW p \in DOMAIN ChunkOf
    PROVE  Translated(d, Translate(d, p))
<1>. DEFINE x == Translate(d, p)
<1>1. Chunked(d, x) /\ (x.err = "" => d.aggregateBytes + EventOverhead =< x.aggregateBytes)
  BY TranslateChunk
<1>. HIDE DEF x
<1>2. /\ x \in Decoder /\ Held(x) /\ SameEnd(d, x) /\ Frozen(d, x)
      /\ \A i \in 1..Len(x.pending) : QuietEvent(d, x.pending[i])
  BY <1>1 DEF Chunked
<1>3. Steady(d, x)
  BY <1>2 DEF Steady, Frozen
<1>4. NoNews(d, x)
  <2>1. SUFFICES ASSUME NEW c \in ChoiceIndexes, d.choiceFinishReasons[c] # "",
                        NEW i \in 1..Len(x.pending), x.pending[i].key = <<c>>
                 PROVE  FALSE
    BY DEF NoNews
  <2>2. x.pending[i].key # << >>
    BY <2>1, KeyNotChoice
  <2>3. PICK k \in ChoiceIndexes : x.pending[i].key = <<k>> /\ d.choiceFinishReasons[k] = ""
    BY <1>2, <2>2 DEF QuietEvent, NewPiece
  <2>4. <<k>>[1] = k /\ <<c>>[1] = c
    OBVIOUS
  <2>5. k = c
    BY <2>1, <2>3, <2>4
  <2>. QED
    BY <2>1, <2>3, <2>5
<1>5. QuietEvents(x.pending)
  BY <1>2, ZenonT(60) DEF QuietEvents, Quiet, QuietTypes, QuietEvent, NewPiece
<1>6. ~x.terminal
  BY <1>2 DEF SameEnd
<1>. QED
  BY <1>1, <1>2, <1>3, <1>4, <1>5, <1>6 DEF Translated, x

\* The end marker.
LEMMA TranslateEnds ==
    ASSUME NEW d \in Decoder, Held(d), d.pending = << >>, d.err = ""
    PROVE  Translated(d, [finish(d) EXCEPT !.terminal = TRUE])
<1>. DEFINE y == finish(d)
            x == [y EXCEPT !.terminal = TRUE]
<1>1. Ended(d, y)
  BY Finish
<1>. HIDE DEF y
<1>2. /\ y \in Decoder /\ Held(y) /\ y.choiceFinishReasons = d.choiceFinishReasons
      /\ Kept(d.calls, y.calls) /\ (y.err = "" => Concluded(y))
  BY <1>1 DEF Ended
<1>3. /\ x \in Decoder /\ x.terminal /\ x.err = y.err /\ x.pending = y.pending /\ x.calls = y.calls
      /\ x.finalized = y.finalized /\ x.toolTurn = y.toolTurn
      /\ x.choiceFinishReasons = y.choiceFinishReasons
      /\ SameBytes(y, x) /\ x.aggregateBytes = y.aggregateBytes
  BY <1>2 DEF Decoder, DecoderWith, SameBytes
<1>. HIDE DEF x
<1>4. Held(x)
  BY <1>2, <1>3, HeldSame
<1>5. Steady(d, x)
  <2>1. Kept(d.calls, x.calls) /\ x.choiceFinishReasons = d.choiceFinishReasons
    BY <1>2, <1>3
  <2>2. \A c : CallsOf(x, c) = CallsOf(d, c)
    BY <2>1 DEF CallsOf, Kept
  <2>3. \A key \in DOMAIN d.calls : x.calls[key].arguments = d.calls[key].arguments
    BY <2>1 DEF Kept
  <2>4. \A c : \A key \in CallsOf(d, c) : key \in DOMAIN d.calls
    BY DEF CallsOf
  <2>. QED
    BY <2>1, <2>2, <2>3, <2>4 DEF Steady
<1>6. ASSUME x.err = ""
      PROVE  Concluded(x) /\ NoNews(d, x)
  <2>1. Concluded(y)
    BY <1>2, <1>3, <1>6
  <2>2. Whole(y.pending, y) => Whole(x.pending, x)
    BY <1>3 DEF Whole, HasPendingTurn, PendingCallIDs
  <2>3. Concluded(x)
    BY <1>3, <2>1, <2>2 DEF Concluded, WholeIfTold
  <2>4. ASSUME NEW i \in 1..Len(x.pending), NEW c
        PROVE  x.pending[i].key # <<c>>
    <3>1. DOMAIN x.calls \subseteq Keys
      BY <1>3, CallMapsAre DEF Decoder, DecoderWith
    <3>2. x.pending[i].key = << >> \/ x.pending[i].key \in DOMAIN x.calls
      BY <2>3 DEF Concluded, ToolEvent, TerminalEvent
    <3>. QED
      BY <3>1, <3>2, KeyNotChoice
  <2>. QED
    BY <2>3, <2>4 DEF NoNews
<1>. QED
  BY <1>3, <1>4, <1>5, <1>6 DEF Translated, x, y

\* A failure changes nothing but the error.
LEMMA FailsTranslated ==
    ASSUME NEW d \in Decoder, Held(d), NEW e \in Errors, e # ""
    PROVE  Translated(d, Fails(d, e)) /\ Fails(d, e).err = e
<1>. DEFINE x == Fails(d, e)
<1>1. Alike(d, x) /\ x.err = e
  BY FailsAlike DEF Fails, Decoder, DecoderWith
<1>. HIDE DEF x
<1>2. x \in Decoder /\ Held(x) /\ x.calls = d.calls /\ x.choiceFinishReasons = d.choiceFinishReasons
  BY <1>1, HeldSame DEF Alike, SameQueue, SameReasons
<1>3. Steady(d, x)
  BY <1>2 DEF Steady, CallsOf
<1>. QED
  BY <1>1, <1>2, <1>3 DEF Translated, x

\* Any payload.
LEMMA TranslateAny ==
    ASSUME NEW d \in Decoder, Held(d), d.pending = << >>, d.err = "", ~d.terminal, NEW p
    PROVE  Translated(d, Translate(d, p))
<1>1. CASE p = "[DONE]"
  <2>1. p \notin DOMAIN ChunkOf
    BY <1>1, DecoderAssumption
  <2>2. Translate(d, p) = [finish(d) EXCEPT !.terminal = TRUE]
    BY <1>1, <2>1 DEF Translate
  <2>. QED
    BY <2>2, TranslateEnds
<1>2. CASE p \in DOMAIN ChunkOf
  BY <1>2, TranslateGoesOn
<1>3. CASE p # "[DONE]" /\ p \notin DOMAIN ChunkOf
  <2>1. Translate(d, p) = Fails(d, "malformed")
    BY <1>3 DEF Translate
  <2>. QED
    BY <2>1, FailsTranslated, ErrorNames
<1>. QED
  BY <1>1, <1>2, <1>3

-----------------------------------------------------------------------------
(* The lines of the stream.                                                *)

\* The parts of a line.
LEMMA LineParts ==
    ASSUME NEW l \in Line
    PROVE  /\ l.bytes \in Nat /\ l.valueBytes \in Nat /\ l.value \in Payloads \cup {Empty}
           /\ l.bytes + 1 \in Nat
<1>1. l.bytes \in Nat /\ l.valueBytes \in Nat /\ l.value \in Payloads \cup {Empty}
  BY DEF Line
<1>. QED
  BY <1>1, Turns

\* A data line is kept.
LEMMA KeepLine ==
    ASSUME NEW a \in SSE, NEW v \in Payloads \cup {Empty}, NEW n \in Nat
    PROVE  LET x == [a EXCEPT !.data = Append(@, v), !.dataBytes = @ + n + 1]
           IN x \in SSE /\ x.data = Append(a.data, v) /\ x.data # << >>
<1>. DEFINE V == Payloads \cup {Empty}
            data == Append(a.data, v)
            bytes == a.dataBytes + n + 1
<1>1. a.data \in Seq(V) /\ a.dataBytes \in Nat
  BY DEF SSE
<1>2. v \in V
  OBVIOUS
<1>. HIDE DEF V
<1>3. data \in Seq(V) /\ data # << >>
  BY <1>1, <1>2, AppendProperties
<1>4. bytes \in Nat
  BY <1>1
<1>. HIDE DEF data, bytes
<1>5. [a EXCEPT !.data = data, !.dataBytes = bytes] \in SSE
  BY <1>3, <1>4 DEF SSE, V
<1>6. [a EXCEPT !.data = data, !.dataBytes = bytes].data = data
  BY DEF SSE
<1>. QED
  BY <1>3, <1>5, <1>6 DEF data, bytes

\* A line is counted.
LEMMA CountLine ==
    ASSUME NEW s \in SSE, NEW n \in Nat
    PROVE  LET x == [s EXCEPT !.eventBytes = @ + n]
           IN x \in SSE /\ x.data = s.data
<1>. DEFINE bytes == s.eventBytes + n
<1>1. bytes \in Nat
  BY DEF SSE
<1>. HIDE DEF bytes
<1>2. [s EXCEPT !.eventBytes = bytes] \in SSE
  BY <1>1 DEF SSE
<1>3. [s EXCEPT !.eventBytes = bytes].data = s.data
  BY DEF SSE
<1>. QED
  BY <1>2, <1>3 DEF bytes

\* Reading a line keeps the type of the line decoder.
LEMMA AfterLineIsSSE ==
    ASSUME NEW s \in SSE, NEW l \in Line
    PROVE  AfterLine(s, l) \in SSE
<1>. DEFINE n == l.bytes + 1
            a == addEventBytes(s, n)
            p == processLine(a, l)
<1>1. \A x \in SSE : \A e \in SSEErrors : rememberError(x, e) \in SSE
  BY DEF SSE, rememberError
<1>2. "limit" \in SSEErrors /\ "utf8" \in SSEErrors /\ "unexpected_eof" \in SSEErrors
  BY DEF SSEErrors
<1>3. n \in Nat
  BY LineParts
<1>. HIDE DEF n
<1>4. a \in SSE
  <2>1. [s EXCEPT !.eventBytes = @ + n] \in SSE
    BY <1>3 DEF SSE
  <2>. QED
    BY <1>1, <1>2, <2>1 DEF addEventBytes
<1>. HIDE DEF a
<1>5. p \in SSE
  <2>1. [a EXCEPT !.data = Append(@, l.value), !.dataBytes = @ + l.valueBytes + 1] \in SSE
    BY <1>4, LineParts, KeepLine
  <2>2. [a EXCEPT !.event = l.value # Empty] \in SSE /\ [a EXCEPT !.retry = TRUE] \in SSE
    BY <1>4 DEF SSE
  <2>. QED
    BY <1>1, <1>2, <1>4, <2>1, <2>2 DEF processLine
<1>. HIDE DEF p
<1>6. dispatch(a) \in SSE /\ [a EXCEPT !.eventBytes = 0] \in SSE
  <2>1. << >> \in Seq(Payloads \cup {Empty}) /\ 0 \in Nat
    OBVIOUS
  <2>. QED
    BY <1>4, <2>1 DEF SSE, dispatch
<1>7. AfterLine(s, l) = IF l.bytes > lineLimit THEN rememberError(s, "limit")
                        ELSE IF ~l.utf8 THEN rememberError(s, "utf8")
                        ELSE IF a.err # "" THEN a
                        ELSE IF ~l.terminated
                        THEN IF p.err # "" THEN p ELSE rememberError(p, "unexpected_eof")
                        ELSE IF l.field = "blank"
                        THEN IF hasPendingEvent(a) THEN dispatch(a) ELSE [a EXCEPT !.eventBytes = 0]
                        ELSE p
  BY DEF AfterLine, a, p, n
<1>. QED
  BY <1>1, <1>2, <1>4, <1>5, <1>6, <1>7

\* Only a blank line drops data.
LEMMA AfterLineKeeps ==
    ASSUME NEW s \in SSE, NEW l \in Line, l.field # "blank", s.data # << >>, AfterLine(s, l).err = ""
    PROVE  AfterLine(s, l).data # << >>
<1>. DEFINE a == addEventBytes(s, l.bytes + 1)
            p == processLine(a, l)
<1>1. \A x \in SSE : \A e \in SSEErrors \ {""} : rememberError(x, e).err # ""
  BY DEF SSE, rememberError
<1>2. /\ "limit" \in SSEErrors \ {""} /\ "utf8" \in SSEErrors \ {""}
      /\ "unexpected_eof" \in SSEErrors \ {""}
  BY DEF SSEErrors
<1>3. a \in SSE /\ a.data = s.data
  <2>. DEFINE n == l.bytes + 1
  <2>1. n \in Nat
    BY LineParts
  <2>. HIDE DEF n
  <2>2. /\ [s EXCEPT !.eventBytes = @ + n] \in SSE
        /\ [s EXCEPT !.eventBytes = @ + n].data = s.data
    BY <2>1, CountLine
  <2>3. \A x \in SSE : rememberError(x, "limit") \in SSE /\ rememberError(x, "limit").data = x.data
    BY <1>2 DEF SSE, rememberError
  <2>. QED
    BY <2>2, <2>3 DEF addEventBytes, n
<1>. HIDE DEF a
<1>4. p \in SSE /\ p.data # << >>
  <2>1. CASE p = rememberError(a, "limit")
    BY <1>2, <1>3, <2>1 DEF SSE, rememberError
  <2>2. CASE p = [a EXCEPT !.data = Append(@, l.value), !.dataBytes = @ + l.valueBytes + 1]
    <3>. DEFINE x == [a EXCEPT !.data = Append(@, l.value), !.dataBytes = @ + l.valueBytes + 1]
    <3>1. x \in SSE /\ x.data # << >>
      BY <1>3, LineParts, KeepLine
    <3>2. p = x
      BY <2>2
    <3>. HIDE DEF x, p
    <3>. QED
      BY <3>1, <3>2
  <2>3. CASE p = [a EXCEPT !.event = l.value # Empty] \/ p = [a EXCEPT !.retry = TRUE] \/ p = a
    BY <1>3, <2>3 DEF SSE
  <2>. QED
    BY <2>1, <2>2, <2>3 DEF processLine
<1>. HIDE DEF p
<1>5. AfterLine(s, l) = IF l.bytes > lineLimit THEN rememberError(s, "limit")
                        ELSE IF ~l.utf8 THEN rememberError(s, "utf8")
                        ELSE IF a.err # "" THEN a
                        ELSE IF ~l.terminated
                        THEN IF p.err # "" THEN p ELSE rememberError(p, "unexpected_eof")
                        ELSE p
  BY DEF AfterLine, a, p
<1>. QED
  BY <1>1, <1>2, <1>3, <1>4, <1>5

-----------------------------------------------------------------------------
(* The inductive invariant and its preservation.                           *)

DecoderInv ==
    /\ sse \in SSE /\ decoder \in Decoder /\ out \in Seq(EventRecord)
    /\ Held(decoder)
    /\ ~decoder.terminal => decoder.err = "" /\ QuietEvents(Events)
    /\ decoder.terminal => Final(Events, decoder)
    /\ CutNeverCompletes

\* Putting an event into the sequence of those returned.
LEMMA AppendFinal ==
    ASSUME NEW o \in Seq(EventRecord), QuietEvents(o), NEW x
    PROVE  LET e == Append(o, Plain("failed"))
           IN /\ e \in Seq(EventRecord) /\ Final(e, x)
              /\ \A i \in 1..Len(e) : e[i].type \notin {"completed", "incomplete"}
<1>. DEFINE event == Plain("failed")
            e == Append(o, event)
<1>1. event \in EventRecord /\ event.type = "failed" /\ TerminalEvent(event)
  BY PlainEvent, EventKinds DEF TerminalEvent
<1>. HIDE DEF event
<1>2. Added(o, e, event)
  BY <1>1, AppendAdds
<1>. HIDE DEF e
<1>3. /\ e \in Seq(EventRecord) /\ Len(e) = Len(o) + 1 /\ e[Len(e)] = event /\ Len(e) \in 1..Len(e)
      /\ \A i \in 1..Len(e) : i = Len(e) \/ (i \in 1..Len(o) /\ e[i] = o[i])
  BY <1>2 DEF Added
<1>4. \A i \in 1..Len(e) : i = Len(e) \/ (e[i].type \in QuietTypes /\ Quiet(e[i]))
  BY <1>3 DEF QuietEvents, Quiet
<1>5. "failed" \in Terminals /\ "failed" \notin ToolEvents
  BY EventKinds
<1>6. \A i \in 1..Len(e) : e[i].type \in Terminals => i = Len(e)
  BY <1>4, QuietKinds
<1>7. \A i \in 1..Len(e) : e[i].type \notin ToolEvents
  BY <1>1, <1>3, <1>4, <1>5, QuietKinds
<1>8. \A i \in 1..Len(e) : e[i].type \notin {"completed", "incomplete"}
  BY <1>1, <1>3, <1>4, QuietKinds, EventKinds
<1>9. WholeIfTold(e, x)
  BY <1>1, <1>3, <1>7 DEF WholeIfTold
<1>. QED
  BY <1>1, <1>3, <1>4, <1>6, <1>8, <1>9 DEF Final, e, event

\* What the rest of a step does not depend on.
LEMMA FinalSame ==
    ASSUME NEW e, NEW x, Final(e, x), NEW y, y.calls = x.calls, y.finalized = x.finalized,
           y.toolTurn = x.toolTurn
    PROVE  Final(e, y)
<1>1. Whole(e, x) => Whole(e, y)
  BY DEF Whole, HasPendingTurn, PendingCallIDs
<1>. QED
  BY <1>1 DEF Final, WholeIfTold

\* Nothing is queued.
LEMMA NothingQueued ==
    ASSUME NEW o \in Seq(EventRecord)
    PROVE  o \o << >> = o
OBVIOUS

\* Settle, in terms of the values before and after.
Settles(o, x, y, p) ==
    IF x.err = "" THEN y = x /\ p = o
    ELSE y = Failure(x) /\ p = Append(o, Plain("failed"))

NoCompletion(e) == \A i \in 1..Len(e) : e[i].type \notin {"completed", "incomplete"}

\* What a provider event or the end of the stream does.
Stepped(d, y, p) ==
    /\ y \in Decoder /\ Held(y) /\ p \in Seq(EventRecord) /\ Steady(d, y) /\ NoNews(d, y)
    /\ ~y.terminal => /\ y.err = "" /\ QuietEvents(p \o y.pending)
                      /\ d.aggregateBytes + EventOverhead =< y.aggregateBytes
    /\ y.terminal => Final(p \o y.pending, y)

\* Quiet events complete nothing.
LEMMA QuietCompletesNothing ==
    ASSUME NEW e, QuietEvents(e)
    PROVE  NoCompletion(e)
BY QuietKinds DEF QuietEvents, Quiet, NoCompletion

\* A failed decoder: what is queued is dropped.
LEMMA FailureKeeps ==
    ASSUME NEW x \in Decoder, Held(x), NEW y, y = Failure(x)
    PROVE  /\ y \in Decoder /\ Held(y) /\ y.terminal /\ y.pending = << >>
           /\ y.calls = x.calls /\ y.choiceFinishReasons = x.choiceFinishReasons
<1>1. << >> \in Seq(EventRecord)
  OBVIOUS
<1>2. /\ y \in Decoder /\ y.terminal /\ y.pending = << >>
      /\ y.calls = x.calls /\ y.choiceFinishReasons = x.choiceFinishReasons
      /\ SameBytes(x, y) /\ y.aggregateBytes = x.aggregateBytes
  BY <1>1 DEF Failure, Decoder, DecoderWith, SameBytes
<1>. QED
  BY <1>2, HeldSame

\* Settle ends the stream once, or goes on quietly.
LEMMA SettleSteps ==
    ASSUME NEW d, NEW o \in Seq(EventRecord), QuietEvents(o),
           NEW x, Translated(d, x), NEW y, NEW p, Settles(o, x, y, p)
    PROVE  Stepped(d, y, p) /\ (x.err # "" => y.terminal /\ NoCompletion(p \o y.pending))
<1>1. x \in Decoder /\ Held(x) /\ Steady(d, x)
  BY DEF Translated
<1>2. CASE x.err = ""
  <2>1. y = x /\ p = o
    BY <1>2 DEF Settles
  <2>2. x.pending \in Seq(EventRecord)
    BY <1>1 DEF Decoder, DecoderWith
  <2>. DEFINE q == x.pending
              e == o \o q
  <2>3. Joined(o, q, e)
    BY <2>2, ConcatJoins
  <2>. HIDE DEF e
  <2>4. NoNews(d, x)
    BY <1>2 DEF Translated
  <2>5. CASE ~x.terminal
    <3>1. QuietEvents(q) /\ d.aggregateBytes + EventOverhead =< x.aggregateBytes
      BY <1>2, <2>5 DEF Translated
    <3>. HIDE DEF q
    <3>2. QuietEvents(e)
      BY <2>3, <3>1 DEF Joined, QuietEvents
    <3>. QED
      BY <1>1, <1>2, <2>1, <2>4, <2>5, <3>1, <3>2 DEF Stepped, e, q
  <2>6. CASE x.terminal
    <3>1. Concluded(x)
      BY <1>2, <2>6 DEF Translated
    <3>2. Final(e, x)
      BY <2>3, <3>1, FinalJoined
    <3>. QED
      BY <1>1, <1>2, <2>1, <2>4, <2>6, <3>2 DEF Stepped, e
  <2>. QED
    BY <2>5, <2>6
<1>3. CASE x.err # ""
  <2>1. y = Failure(x) /\ p = Append(o, Plain("failed"))
    BY <1>3 DEF Settles
  <2>2. /\ y \in Decoder /\ Held(y) /\ y.terminal /\ y.pending = << >>
        /\ y.calls = x.calls /\ y.choiceFinishReasons = x.choiceFinishReasons
    BY <1>1, <2>1, FailureKeeps
  <2>3. p \in Seq(EventRecord) /\ Final(p, y) /\ NoCompletion(p)
    BY <2>1, AppendFinal DEF NoCompletion
  <2>4. p \o y.pending = p
    BY <2>2, <2>3, NothingQueued
  <2>5. Steady(d, y)
    BY <1>1, <2>2, ZenonT(60) DEF Steady, CallsOf
  <2>6. NoNews(d, y)
    <3>1. Len(y.pending) = 0
      BY <2>2
    <3>. QED
      BY <3>1, NoTurn DEF NoNews
  <2>. HIDE <2>1
  <2>. QED
    BY <2>2, <2>3, <2>4, <2>5, <2>6 DEF Stepped
<1>. QED
  BY <1>2, <1>3

\* The event that is returned moves from the queue to those returned.
LEMMA MoveOne ==
    ASSUME NEW o \in Seq(EventRecord), NEW p \in Seq(EventRecord), p # << >>
    PROVE  /\ Append(o, Head(p)) \in Seq(EventRecord) /\ Tail(p) \in Seq(EventRecord)
           /\ Append(o, Head(p)) \o Tail(p) = o \o p
           /\ \A i \in 1..Len(Tail(p)) : Tail(p)[i] \in ToSet(p)
<1>. DEFINE h == Head(p)
            t == Tail(p)
<1>1. /\ h \in EventRecord /\ t \in Seq(EventRecord) /\ Len(t) = Len(p) - 1
      /\ \A i \in 1..Len(t) : t[i] = p[i + 1]
  BY HeadTailProperties
<1>2. p = <<h>> \o t
  OBVIOUS
<1>3. <<h>> \in Seq(EventRecord) /\ Append(o, h) = o \o <<h>>
  BY <1>1
<1>4. (o \o <<h>>) \o t = o \o (<<h>> \o t)
  <2>. HIDE DEF h, t
  <2>. QED
    BY <1>1, <1>3, ConcatAssociative
<1>5. ASSUME NEW i \in 1..Len(t)
      PROVE  t[i] \in ToSet(p)
  <2>1. i + 1 \in 1..Len(p)
    BY <1>1
  <2>. QED
    BY <1>1, <2>1, SeqMembers
<1>6. Append(o, h) \in Seq(EventRecord)
  BY <1>1
<1>. QED
  BY <1>1, <1>2, <1>3, <1>4, <1>5, <1>6

\* A decoder that reads.
LEMMA ReadingState ==
    ASSUME DecoderInv, Reading
    PROVE  /\ decoder \in Decoder /\ Held(decoder) /\ decoder.pending = << >> /\ decoder.err = ""
           /\ ~decoder.terminal /\ out \in Seq(EventRecord) /\ QuietEvents(out)
<1>1. /\ decoder \in Decoder /\ Held(decoder) /\ decoder.pending = << >> /\ decoder.err = ""
      /\ ~decoder.terminal /\ out \in Seq(EventRecord) /\ QuietEvents(Events)
  BY DEF DecoderInv, Reading
<1>2. Events = out
  BY <1>1, NothingQueued DEF Events
<1>. QED
  BY <1>1, <1>2

\* What reading does: nothing but keeping a line, or a provider event.
Read ==
    /\ sse' \in SSE
    /\ \/ /\ UNCHANGED <<decoder, out>>
          /\ sse.data \notin {<< >>, <<Empty>>} /\ sse'.err = "" => sse'.data # << >>
       \/ /\ Stepped(decoder, decoder', out')
          /\ decoder'.terminal => \/ NoCompletion(out' \o decoder'.pending)
                                  \/ lastLine'.field = "blank" /\ sse'.err = ""

\* The stream fails.
LEMMA FailRead ==
    ASSUME DecoderInv, Reading, Settle(Fails(decoder, "stream"))
    PROVE  Stepped(decoder, decoder', out') /\ NoCompletion(out' \o decoder'.pending)
<1>. DEFINE x == Fails(decoder, "stream")
<1>1. /\ decoder \in Decoder /\ Held(decoder) /\ out \in Seq(EventRecord) /\ QuietEvents(out)
  BY ReadingState
<1>2. Translated(decoder, x) /\ x.err = "stream" /\ x.err # ""
  BY <1>1, FailsTranslated, ErrorNames
<1>3. Settles(out, x, decoder', out')
  BY DEF Settle, Settles
<1>. HIDE DEF x
<1>. QED
  BY <1>1, <1>2, <1>3, SettleSteps

\* One line.
LEMMA ReadLineReads ==
    ASSUME DecoderInv, NEW l \in Lines, ReadLine(l)
    PROVE  Read
<1>1. sse \in SSE /\ Reading /\ sse' = AfterLine(sse, l) /\ lastLine' = l /\ l \in Line
  BY DecoderAssumption DEF DecoderInv, ReadLine
<1>2. sse' \in SSE
  BY <1>1, AfterLineIsSSE
<1>3. CASE sse'.err # ""
  <2>1. Settle(Fails(decoder, "stream"))
    BY <1>3 DEF ReadLine
  <2>. QED
    BY <1>1, <1>2, <2>1, FailRead DEF Read
<1>4. CASE sse'.err = "" /\ Dispatches(sse, l)
  <2>. DEFINE x == Translate(decoder, Decode(sse.data))
  <2>1. Settle(x) /\ l.field = "blank"
    BY <1>4 DEF ReadLine, Dispatches
  <2>2. /\ decoder \in Decoder /\ Held(decoder) /\ decoder.pending = << >> /\ decoder.err = ""
        /\ ~decoder.terminal /\ out \in Seq(EventRecord) /\ QuietEvents(out)
    BY <1>1, ReadingState
  <2>3. Translated(decoder, x)
    BY <2>2, TranslateAny
  <2>4. Settles(out, x, decoder', out')
    BY <2>1 DEF Settle, Settles
  <2>. HIDE DEF x
  <2>5. Stepped(decoder, decoder', out')
    BY <2>2, <2>3, <2>4, SettleSteps
  <2>. QED
    BY <1>1, <1>2, <1>4, <2>1, <2>5 DEF Read
<1>5. CASE sse'.err = "" /\ ~Dispatches(sse, l)
  <2>1. UNCHANGED <<decoder, out>>
    BY <1>5 DEF ReadLine
  <2>2. ASSUME sse.data \notin {<< >>, <<Empty>>}
        PROVE  sse'.data # << >>
    <3>1. l.field # "blank"
      BY <1>1, <1>5, <2>2 DEF Dispatches
    <3>. QED
      BY <1>1, <1>5, <2>2, <3>1, AfterLineKeeps
  <2>. QED
    BY <1>2, <2>1, <2>2 DEF Read
<1>. QED
  BY <1>3, <1>4, <1>5

\* The end of the body.
LEMMA ReadEOFReads ==
    ASSUME DecoderInv, ReadEOF \/ ReadFails
    PROVE  Read
<1>1. sse \in SSE /\ Reading /\ Settle(Fails(decoder, "stream"))
  BY DEF DecoderInv, ReadEOF, ReadFails
<1>2. sse' \in SSE
  <2>1. \A e \in SSEErrors : rememberError(sse, e) \in SSE
    BY <1>1 DEF SSE, rememberError
  <2>2. "transport" \in SSEErrors /\ "unexpected_eof" \in SSEErrors
    BY DEF SSEErrors
  <2>. QED
    BY <1>1, <2>1, <2>2 DEF ReadEOF, ReadFails, AfterEOF
<1>. QED
  BY <1>1, <1>2, FailRead DEF Read

\* One event is returned.
LEMMA ReturnMoves ==
    ASSUME DecoderInv, ReturnPending
    PROVE  /\ decoder' \in Decoder /\ out' \in Seq(EventRecord) /\ Events' = Events
           /\ decoder'.terminal = decoder.terminal /\ decoder'.err = decoder.err
           /\ decoder'.calls = decoder.calls /\ decoder'.finalized = decoder.finalized
           /\ decoder'.toolTurn = decoder.toolTurn
           /\ decoder'.choiceFinishReasons = decoder.choiceFinishReasons
           /\ SameBytes(decoder, decoder') /\ decoder'.aggregateBytes = decoder.aggregateBytes
           /\ \A i \in 1..Len(decoder'.pending) : decoder'.pending[i] \in ToSet(decoder.pending)
<1>. DEFINE p == decoder.pending
<1>1. /\ decoder \in Decoder /\ out \in Seq(EventRecord) /\ p \in Seq(EventRecord) /\ p # << >>
      /\ out' = Append(out, Head(p)) /\ decoder' = [decoder EXCEPT !.pending = Tail(p)]
  BY DEF DecoderInv, ReturnPending, Decoder, DecoderWith
<1>. HIDE DEF p
<1>2. /\ Append(out, Head(p)) \in Seq(EventRecord) /\ Tail(p) \in Seq(EventRecord)
      /\ Append(out, Head(p)) \o Tail(p) = out \o p
      /\ \A i \in 1..Len(Tail(p)) : Tail(p)[i] \in ToSet(p)
  BY <1>1, MoveOne
<1>3. /\ decoder' \in Decoder /\ decoder'.pending = Tail(p)
      /\ decoder'.terminal = decoder.terminal /\ decoder'.err = decoder.err
      /\ decoder'.calls = decoder.calls /\ decoder'.finalized = decoder.finalized
      /\ decoder'.toolTurn = decoder.toolTurn
      /\ decoder'.choiceFinishReasons = decoder.choiceFinishReasons
      /\ SameBytes(decoder, decoder') /\ decoder'.aggregateBytes = decoder.aggregateBytes
  BY <1>1, <1>2 DEF Decoder, DecoderWith, SameBytes
<1>4. Events' = Events
  BY <1>1, <1>2, <1>3 DEF Events, p
<1>. QED
  BY <1>1, <1>2, <1>3, <1>4 DEF p

\* Init => Inv.
LEMMA DecoderInvInit == DecoderInit => DecoderInv
<1>. SUFFICES ASSUME DecoderInit
              PROVE  DecoderInv
  OBVIOUS
<1>. DEFINE d == NewBridgeStreamDecoder
<1>1. sse = NewSSEDecoder /\ decoder = d /\ out = << >>
  BY DEF DecoderInit
<1>2. << >> \in Seq(EventRecord) /\ << >> \in Seq(Payloads \cup {Empty}) /\ 0 \in Nat
  OBVIOUS
<1>3. sse \in SSE
  BY <1>1, <1>2 DEF NewSSEDecoder, SSE, SSEErrors
<1>4. << >> \in CallMaps /\ DOMAIN << >> = {}
  <2>1. << >> \in [{} -> Call] /\ {} \in SUBSET Keys /\ DOMAIN << >> = {}
    OBVIOUS
  <2>. QED
    BY <2>1, CallMapsAre
<1>5. decoder \in Decoder
  <2>1. [c \in ChoiceIndexes |-> ""] \in [ChoiceIndexes -> Reasons] /\ "" \in Reasons /\ "" \in Errors
    BY DEF Reasons, Errors
  <2>. QED
    BY <1>1, <1>2, <1>4, <2>1 DEF NewBridgeStreamDecoder, Decoder, DecoderWith
<1>6. Held(decoder)
  <2>1. Cardinality({}) = 0
    BY FS_EmptySet
  <2>2. ArgumentBytes(<< >>) = 0
    BY <1>4, ArgumentsSum, SumEmpty
  <2>3. 0 + 0 = 0 /\ \A n \in Nat : 0 =< n
    OBVIOUS
  <2>4. CallsHeld(<< >>)
    BY <1>4, <2>1, <2>3, Bounds DEF CallsHeld
  <2>5. /\ d.outputBytes = 0 /\ d.textBytes = 0 /\ d.reasoningBytes = 0 /\ d.aggregateBytes = 0
        /\ d.calls = << >>
    BY DEF NewBridgeStreamDecoder
  <2>. QED
    BY <1>1, <2>2, <2>3, <2>4, <2>5, Bounds DEF Held
<1>7. Len(Events) = 0 /\ ~decoder.terminal /\ decoder.err = ""
  <2>1. decoder.pending = << >> /\ ~decoder.terminal /\ decoder.err = ""
    BY <1>1 DEF NewBridgeStreamDecoder
  <2>2. Events = << >>
    BY <1>1, <1>2, <2>1, NothingQueued DEF Events
  <2>. QED
    BY <2>1, <2>2
<1>8. QuietEvents(Events) /\ CutNeverCompletes
  BY <1>7, NoTurn DEF QuietEvents, Quiet, CutNeverCompletes
<1>. QED
  BY <1>1, <1>2, <1>3, <1>5, <1>6, <1>7, <1>8 DEF DecoderInv

\* Inv /\ [Next]_vars => Inv'.
LEMMA DecoderInvNext == DecoderInv /\ [DecoderNext]_decoderVars => DecoderInv'
<1>. SUFFICES ASSUME DecoderInv, [DecoderNext]_decoderVars
              PROVE  DecoderInv'
  OBVIOUS
<1>1. CASE Read /\ Reading
  <2>1. CASE UNCHANGED <<decoder, out>>
    <3>1. ~decoder.terminal
      BY <1>1 DEF Reading
    <3>2. QuietEvents(Events') /\ QuietEvents(Events) /\ Events' = Events
      BY <2>1, <3>1 DEF DecoderInv, Events
    <3>3. NoCompletion(Events')
      BY <3>2, QuietCompletesNothing
    <3>4. CutNeverCompletes'
      BY <3>3 DEF CutNeverCompletes, NoCompletion
    <3>. QED
      BY <1>1, <2>1, <3>1, <3>2, <3>4 DEF DecoderInv, Read
  <2>2. CASE Stepped(decoder, decoder', out')
             /\ (decoder'.terminal => \/ NoCompletion(out' \o decoder'.pending)
                                      \/ lastLine'.field = "blank" /\ sse'.err = "")
    <3>1. Events' = out' \o decoder'.pending
      BY DEF Events
    <3>2. /\ decoder' \in Decoder /\ Held(decoder') /\ out' \in Seq(EventRecord)
          /\ ~decoder'.terminal => decoder'.err = "" /\ QuietEvents(Events')
          /\ decoder'.terminal => Final(Events', decoder')
      BY <2>2, <3>1 DEF Stepped
    <3>3. CutNeverCompletes'
      <4>1. CASE decoder'.terminal
        BY <2>2, <3>1, <4>1 DEF CutNeverCompletes, NoCompletion
      <4>2. CASE ~decoder'.terminal
        <5>1. NoCompletion(Events')
          BY <3>2, <4>2, QuietCompletesNothing
        <5>. QED
          BY <5>1 DEF CutNeverCompletes, NoCompletion
      <4>. QED
        BY <4>1, <4>2
    <3>. QED
      BY <1>1, <3>2, <3>3 DEF DecoderInv, Read, QuietEvents
  <2>. QED
    BY <1>1, <2>1, <2>2 DEF Read
<1>2. CASE ReturnPending
  <2>1. /\ decoder' \in Decoder /\ out' \in Seq(EventRecord) /\ Events' = Events
        /\ decoder'.terminal = decoder.terminal /\ decoder'.err = decoder.err
        /\ decoder'.calls = decoder.calls /\ decoder'.finalized = decoder.finalized
        /\ decoder'.toolTurn = decoder.toolTurn
        /\ SameBytes(decoder, decoder') /\ decoder'.aggregateBytes = decoder.aggregateBytes
    BY <1>2, ReturnMoves
  <2>2. sse' = sse /\ lastLine' = lastLine
    BY <1>2 DEF ReturnPending
  <2>3. Held(decoder')
    BY <2>1, HeldSame DEF DecoderInv
  <2>4. decoder.terminal => Final(Events', decoder')
    BY <2>1, FinalSame DEF DecoderInv
  <2>5. CutNeverCompletes'
    BY <2>1, <2>2 DEF DecoderInv, CutNeverCompletes
  <2>. QED
    BY <2>1, <2>2, <2>3, <2>4, <2>5 DEF DecoderInv
<1>3. CASE UNCHANGED decoderVars
  BY <1>3 DEF DecoderInv, decoderVars, Events, CutNeverCompletes
<1>4. ASSUME NEW l \in Lines, ReadLine(l)
      PROVE  Read /\ Reading
  BY <1>4, ReadLineReads DEF ReadLine
<1>5. CASE ReadEOF \/ ReadFails
  BY <1>1, <1>5, ReadEOFReads DEF ReadEOF, ReadFails
<1>. QED
  BY <1>1, <1>2, <1>3, <1>4, <1>5 DEF DecoderNext

-----------------------------------------------------------------------------
(* The invariant implies the properties.                                   *)

\* Types.
LEMMA InvImpliesType == DecoderInv => DecoderTypeOK
<1>. SUFFICES ASSUME DecoderInv
              PROVE  DecoderTypeOK
  OBVIOUS
<1>1. sse \in SSE /\ decoder \in Decoder /\ out \in Seq(EventRecord)
  BY DEF DecoderInv
<1>2. decoder.calls \in CallMaps /\ decoder \in DecoderWith({decoder.calls})
  BY <1>1 DEF Decoder, DecoderWith
<1>3. DOMAIN decoder.calls \subseteq Keys /\ \A key \in DOMAIN decoder.calls : decoder.calls[key] \in Call
  BY <1>2, CallMapsAre
<1>. QED
  BY <1>1, <1>2, <1>3 DEF DecoderTypeOK

\* One terminal event, last.
LEMMA InvImpliesTerminal == DecoderInv => TerminalOnceLast
<1>. SUFFICES ASSUME DecoderInv
              PROVE  TerminalOnceLast
  OBVIOUS
<1>1. ASSUME NEW i \in 1..Len(Events), Events[i].type \in Terminals
      PROVE  i = Len(Events)
  <2>1. CASE ~decoder.terminal
    BY <1>1, <2>1, QuietKinds DEF DecoderInv, QuietEvents, Quiet
  <2>2. CASE decoder.terminal
    BY <1>1, <2>2 DEF DecoderInv, Final
  <2>. QED
    BY <2>1, <2>2
<1>2. ASSUME decoder.terminal, decoder.pending = << >>
      PROVE  out # << >> /\ Last(out).type \in Terminals
  <2>1. out \in Seq(EventRecord) /\ Final(Events, decoder)
    BY <1>2 DEF DecoderInv
  <2>2. Events = out
    BY <1>2, <2>1, NothingQueued DEF Events
  <2>3. Len(out) \in 1..Len(out) /\ out[Len(out)].type \in Terminals
    BY <2>1, <2>2 DEF Final, TerminalEvent
  <2>4. out # << >>
    <3>1. Len(<< >>) = 0
      OBVIOUS
    <3>. QED
      BY <2>3, <3>1, NoTurn
  <2>. QED
    BY <2>3, <2>4 DEF Last
<1>. QED
  BY <1>1, <1>2 DEF TerminalOnceLast

\* The budgets.
LEMMA InvImpliesBudgets == DecoderInv => BudgetsHeld
BY DEF DecoderInv, BudgetsHeld, Held, CallsHeld, CallHeld

\* Exactly one event of a kind about a call.
LEMMA OneOf ==
    ASSUME NEW type \in {"tool_started", "tool_completed"}, NEW key \in DOMAIN decoder.calls,
           EveryCall(Events, decoder.calls, type), OnceEach(Events)
    PROVE  Cardinality(At(type, key)) = 1
<1>1. PICK i \in 1..Len(Events) : Events[i].type = type /\ Events[i].key = key
  BY DEF EveryCall
<1>2. i \in At(type, key)
  BY <1>1 DEF At
<1>3. ASSUME NEW j \in At(type, key)
      PROVE  j = i
  <2>1. j \in 1..Len(Events) /\ Events[j].type = type /\ Events[j].key = key
    BY <1>3 DEF At
  <2>. QED
    BY <1>1, <2>1 DEF OnceEach
<1>4. At(type, key) = {i}
  BY <1>2, <1>3
<1>. QED
  BY <1>4, FS_Singleton

\* Tool calls come out whole or not at all.
LEMMA InvImpliesWhole == DecoderInv => ToolTurnWhole
<1>. SUFFICES ASSUME DecoderInv, NEW i \in 1..Len(Events), Events[i].type \in ToolEvents
              PROVE  /\ Last(Events).type = "completed"
                     /\ \A key \in DOMAIN decoder.calls :
                           /\ Cardinality(At("tool_started", key)) = 1
                           /\ Cardinality(At("tool_completed", key)) = 1
                           /\ \A a \in At("tool_started", key), b \in At("tool_completed", key) : a < b
                     /\ HasPendingTurn(decoder)
                     /\ IsInjective(PendingCallIDs(decoder))
                     /\ \A j \in 1..Len(Events) : Events[j].type \in ToolEvents =>
                           /\ Events[j].key \in DOMAIN decoder.calls
                           /\ Events[j].callID = decoder.calls[Events[j].key].callID
                     /\ LET keys == sortedToolKeys(decoder.calls)
                        IN \A m, n \in DOMAIN keys : m < n =>
                              \A a \in At("tool_completed", keys[m]),
                                 b \in At("tool_completed", keys[n]) : a < b
  BY DEF ToolTurnWhole
<1>1. decoder.terminal
  BY QuietKinds DEF DecoderInv, QuietEvents, Quiet
<1>2. Whole(Events, decoder)
  BY <1>1 DEF DecoderInv, Final, WholeIfTold
<1>3. Last(Events).type = "completed"
  BY <1>2 DEF Whole, Last
<1>4. /\ EveryCall(Events, decoder.calls, "tool_started")
      /\ EveryCall(Events, decoder.calls, "tool_completed")
      /\ OnceEach(Events) /\ StartsFirst(Events) /\ KeysAscend(Events)
      /\ HasPendingTurn(decoder) /\ IsInjective(PendingCallIDs(decoder))
      /\ \A j \in 1..Len(Events) : Events[j].type \in ToolEvents => ToolEvent(decoder.calls, Events[j])
  BY <1>2 DEF Whole
<1>5. ASSUME NEW key \in DOMAIN decoder.calls
      PROVE  /\ Cardinality(At("tool_started", key)) = 1
             /\ Cardinality(At("tool_completed", key)) = 1
             /\ \A a \in At("tool_started", key), b \in At("tool_completed", key) : a < b
  <2>1. Cardinality(At("tool_started", key)) = 1
    BY <1>4, OneOf
  <2>2. Cardinality(At("tool_completed", key)) = 1
    BY <1>4, OneOf
  <2>3. \A a \in At("tool_started", key), b \in At("tool_completed", key) : a < b
    BY <1>4 DEF At, StartsFirst
  <2>. QED
    BY <2>1, <2>2, <2>3
<1>6. ASSUME NEW j \in 1..Len(Events), Events[j].type \in ToolEvents
      PROVE  /\ Events[j].key \in DOMAIN decoder.calls
             /\ Events[j].callID = decoder.calls[Events[j].key].callID
  BY <1>4, <1>6 DEF ToolEvent
<1>7. LET keys == sortedToolKeys(decoder.calls)
      IN \A m, n \in DOMAIN keys : m < n =>
            \A a \in At("tool_completed", keys[m]), b \in At("tool_completed", keys[n]) : a < b
  <2>. DEFINE keys == sortedToolKeys(decoder.calls)
              l == Cardinality(DOMAIN decoder.calls)
  <2>1. decoder.calls \in CallMaps
    BY DEF DecoderInv, Decoder, DecoderWith
  <2>2. keys \in [1..l -> DOMAIN decoder.calls] /\ \A m, n \in 1..l : m < n => toolKeyLess(keys[m], keys[n])
    BY <2>1, SortedKeys
  <2>. HIDE DEF keys, l
  <2>3. ASSUME NEW m \in DOMAIN keys, NEW n \in DOMAIN keys, m < n,
               NEW a \in At("tool_completed", keys[m]), NEW b \in At("tool_completed", keys[n])
        PROVE  a < b
    <3>1. toolKeyLess(keys[m], keys[n])
      BY <2>2, <2>3
    <3>2. /\ a \in 1..Len(Events) /\ Events[a].type = "tool_completed" /\ Events[a].key = keys[m]
          /\ b \in 1..Len(Events) /\ Events[b].type = "tool_completed" /\ Events[b].key = keys[n]
      BY <2>3 DEF At
    <3>. QED
      BY <1>4, <3>1, <3>2 DEF KeysAscend
  <2>. QED
    BY <2>3 DEF keys
<1>. QED
  BY <1>3, <1>4, <1>5, <1>6, <1>7

-----------------------------------------------------------------------------
(* The theorems.                                                           *)

\* DecoderInv is an invariant of the decoder.
THEOREM DecoderInvariant == DecoderSpec => []DecoderInv
<1>1. DecoderInit => DecoderInv
  BY DecoderInvInit
<1>2. DecoderInv /\ [DecoderNext]_decoderVars => DecoderInv'
  BY DecoderInvNext
<1>. QED
  BY <1>1, <1>2, PTL DEF DecoderSpec

\* Type correctness: every event, call and counter of the decoder stays in its type, and
\* every call is at a key within MaxChoices and MaxToolCalls.
THEOREM DecoderTypeCorrect == DecoderSpec => []DecoderTypeOK
BY DecoderInvariant, InvImpliesType, PTL

\* Next returns exactly one terminal event, after which only io.EOF is left.
THEOREM TerminalEventOnceLast == DecoderSpec => []TerminalOnceLast
BY DecoderInvariant, InvImpliesTerminal, PTL

\* Tool calls come out whole or not at all (finishToolCalls, PendingTurn).
THEOREM ToolCallsWhole == DecoderSpec => []ToolTurnWhole
BY DecoderInvariant, InvImpliesWhole, PTL

\* The budgets of the decoder hold for every fragmentation of the stream.
THEOREM DecoderBudgets == DecoderSpec => []BudgetsHeld
BY DecoderInvariant, InvImpliesBudgets, PTL

\* A stream that is cut never looks finished: a turn completes only on the blank line
\* that dispatches [DONE].
THEOREM CutStreamFails == DecoderSpec => []CutNeverCompletes
<1>1. DecoderInv => CutNeverCompletes
  BY DEF DecoderInv
<1>. QED
  BY <1>1, DecoderInvariant, PTL

ChoiceFrozen(c) ==
    decoder.choiceFinishReasons[c] # "" =>
       /\ decoder'.choiceFinishReasons[c] = decoder.choiceFinishReasons[c]
       /\ CallsOf(decoder', c) = CallsOf(decoder, c)
       /\ decoder.choiceFinishReasons[c] # "tool_calls" =>
             \A key \in CallsOf(decoder, c) :
                decoder'.calls[key].arguments = decoder.calls[key].arguments
       /\ \A i \in 1..Len(decoder'.pending) :
             decoder'.pending[i].key = <<c>> => decoder'.pending[i] \in ToSet(decoder.pending)

\* A step is a read, a return or a stutter.
LEMMA StepKinds ==
    ASSUME DecoderInv, [DecoderNext]_decoderVars
    PROVE  Read \/ ReturnPending \/ UNCHANGED decoderVars
BY ReadLineReads, ReadEOFReads DEF DecoderNext

\* What is queued is among what is queued.
LEMMA QueueSame ==
    ASSUME DecoderInv
    PROVE  \A i \in 1..Len(decoder.pending) : decoder.pending[i] \in ToSet(decoder.pending)
<1>1. decoder.pending \in Seq(EventRecord)
  BY DEF DecoderInv, Decoder, DecoderWith
<1>. QED
  BY <1>1, SeqMembers

\* No step thaws a finished choice.
LEMMA StepFreezes ==
    ASSUME DecoderInv, [DecoderNext]_decoderVars, NEW c \in ChoiceIndexes
    PROVE  ChoiceFrozen(c)
<1>1. CASE UNCHANGED decoder
  BY <1>1, QueueSame DEF ChoiceFrozen, CallsOf
<1>2. CASE Stepped(decoder, decoder', out')
  <2>1. Steady(decoder, decoder') /\ NoNews(decoder, decoder')
    BY <1>2 DEF Stepped
  <2>. QED
    BY <2>1 DEF ChoiceFrozen, Steady, NoNews
<1>3. CASE ReturnPending
  <2>1. /\ decoder'.calls = decoder.calls
        /\ decoder'.choiceFinishReasons = decoder.choiceFinishReasons
        /\ \A i \in 1..Len(decoder'.pending) : decoder'.pending[i] \in ToSet(decoder.pending)
    BY <1>3, ReturnMoves
  <2>. QED
    BY <2>1 DEF ChoiceFrozen, CallsOf
<1>. QED
  BY <1>1, <1>2, <1>3, StepKinds DEF Read, decoderVars

\* A finished choice is frozen (consumeChunk).
THEOREM FinishedChoicesFrozen == DecoderSpec => FinishedChoiceFrozen
<1>1. DecoderInv /\ [DecoderNext]_decoderVars => [\A c \in ChoiceIndexes : ChoiceFrozen(c)]_decoderVars
  BY StepFreezes
<1>2. DecoderSpec => [][\A c \in ChoiceIndexes : ChoiceFrozen(c)]_decoderVars
  BY <1>1, DecoderInvariant, PTL DEF DecoderSpec
<1>. QED
  BY <1>2 DEF FinishedChoiceFrozen, ChoiceFrozen

\* What EventCharged says of a step.
Charged ==
    sse.data \notin {<< >>, <<Empty>>} /\ sse'.data = << >> /\ sse'.err = "" =>
       \/ decoder'.terminal
       \/ decoder'.aggregateBytes >= decoder.aggregateBytes + EventOverhead

\* A comparison, either way round.
LEMMA GeqLeq == \A a, b \in Nat : a =< b => b >= a
OBVIOUS

\* Every step that consumes a provider event pays for it.
LEMMA StepCharges ==
    ASSUME DecoderInv, [DecoderNext]_decoderVars
    PROVE  Charged
<1>1. CASE Read /\ Stepped(decoder, decoder', out')
  <2>1. CASE ~decoder'.terminal
    <3>1. decoder.aggregateBytes + EventOverhead =< decoder'.aggregateBytes
      BY <1>1, <2>1 DEF Stepped
    <3>2. decoder.aggregateBytes + EventOverhead \in Nat /\ decoder'.aggregateBytes \in Nat
      <4>1. decoder.aggregateBytes \in Nat /\ decoder'.aggregateBytes \in Nat /\ EventOverhead \in Nat
        BY <1>1, Bounds DEF Stepped, DecoderInv, Decoder, DecoderWith
      <4>. QED
        BY <4>1, AddFacts
    <3>3. decoder'.aggregateBytes >= decoder.aggregateBytes + EventOverhead
      BY <3>1, <3>2, GeqLeq
    <3>. QED
      BY <3>3 DEF Charged
  <2>. QED
    BY <2>1 DEF Charged
<1>2. CASE Read /\ ~Stepped(decoder, decoder', out')
  BY <1>2 DEF Read, Charged
<1>3. CASE ReturnPending \/ UNCHANGED decoderVars
  BY <1>3 DEF ReturnPending, decoderVars, Charged
<1>. QED
  BY <1>1, <1>2, <1>3, StepKinds

\* Every provider event ends the stream or is charged (Next), so that a stream of
\* chunks that mean nothing ends as well.
THEOREM EventsCharged == DecoderSpec => EventCharged
<1>1. DecoderInv /\ [DecoderNext]_decoderVars => [Charged]_decoderVars
  BY StepCharges
<1>2. DecoderSpec => [][Charged]_decoderVars
  BY <1>1, DecoderInvariant, PTL DEF DecoderSpec
<1>. QED
  BY <1>2 DEF EventCharged, Charged
=============================================================================
