-------------------------- MODULE StreamSessionProofs --------------------------
(***************************************************************************)
(* Proofs about StreamSession, for any keys, sizes and limits.             *)
(*                                                                         *)
(* A call is a function from a session to the sessions it may leave, and   *)
(* so the argument is about sessions: one that goes on is Live, one that   *)
(* has ended is Dead.  Each function takes a Live session to sessions that *)
(* are Live if the call goes on and Dead if it returns an error; what each *)
(* event needs to be legal (the item is still open, its content is closed, *)
(* it was announced) is part of Live.                                      *)
(***************************************************************************)
EXTENDS StreamSession, FiniteFacts

WireEvent == [type : WireTypes, key : Keys \cup {NoKey}]

-----------------------------------------------------------------------------
(* What the client has seen, as predicates of the events written.          *)

Seen(w, type, k) == \E i \in 1..Len(w) : w[i].type = type /\ w[i].key = k

Envelope(w) ==
    /\ \A i \in 1..Len(w) : /\ w[i].type = "created" => i = 1
                            /\ w[i].type = "in_progress" => i = 2
                            /\ w[i].type \in TerminalTypes => i = Len(w)
    /\ Len(w) > 0 => w[1].type = "created"

Unended(w) == \A i \in 1..Len(w) : w[i].type \notin TerminalTypes

CloseOnce(w) ==
    \A i, j \in 1..Len(w) : w[i].key \in Keys /\ w[j].key = w[i].key =>
       /\ w[i].type = "item.done" =>
             /\ j =< i
             /\ \E h \in 1..Len(w) : h < i /\ w[h].key = w[i].key /\ w[h].type = "content.done"
       /\ w[i].type = "content.done" /\ w[j].type \in {"delta", "content.done"} => j =< i

Announced(w, k) ==
    \A i \in 1..Len(w) : w[i].key = k =>
       \E h \in 1..Len(w) : h =< i /\ w[h].key = k /\ w[h].type = "item.added"

\* Item k has no events but those that close it.
OnlyClosing(w, k) ==
    \A i \in 1..Len(w) : w[i].key = k => w[i].type \in {"content.done", "item.done"}

-----------------------------------------------------------------------------
(* The invariant.                                                          *)

Budget(s) ==
    LET items == s.itemOrder
    IN /\ \A i \in 1..Len(items) :
             items[i].key \in ToolKeys => items[i].bytes =< MaxToolCallArgumentBytes
       /\ s.textBytes = SumOf(Retained(items, TextKeys), 1..Len(items))
       /\ s.outputBytes = SumOf(Retained(items, Keys), 1..Len(items))
       /\ s.aggregateBytes >= s.outputBytes + s.reasoningBytes + Len(items) * ItemCost

\* What holds of a session from the first call to the last.
Sound(s) == s \in Session /\ Budget(s) /\ Envelope(s.wire) /\ CloseOnce(s.wire)

\* The session still takes events.
Running(s) ==
    /\ ~s.TerminalEmitted /\ ~s.writeFailure /\ s.err = "nil" /\ Unended(s.wire)
    /\ IF s.started THEN Len(s.wire) >= 2 ELSE s.wire = << >> /\ s.itemOrder = << >>

\* Items have keys of their own, and an event on the wire belongs to an item.
Tracked(s) ==
    /\ \A i, j \in 1..Len(s.itemOrder) : s.itemOrder[i].key = s.itemOrder[j].key => i = j
    /\ \A n \in 1..Len(s.wire) : s.wire[n].key \in Keys => Has(s, s.wire[n].key)

\* No item is closed on the wire unless it is done; item c, if any, is being closed.
Open(s, c) ==
    /\ \A i \in 1..Len(s.itemOrder) : i # c /\ ~s.itemOrder[i].itemDone =>
          /\ ~Seen(s.wire, "content.done", s.itemOrder[i].key)
          /\ ~Seen(s.wire, "item.done", s.itemOrder[i].key)
    /\ c # 0 => /\ c \in 1..Len(s.itemOrder)
                /\ Seen(s.wire, "content.done", s.itemOrder[c].key)
                /\ ~Seen(s.wire, "item.done", s.itemOrder[c].key)

\* k is the newest item and was not announced.
Unannounced(s, k) ==
    /\ Len(s.itemOrder) > 0
    /\ k = s.itemOrder[Len(s.itemOrder)].key
    /\ OnlyClosing(s.wire, k)

\* All items are announced, but for a fresh one.
Shown(s, fresh) ==
    /\ \A i \in 1..Len(s.itemOrder) :
          \/ Seen(s.wire, "item.added", s.itemOrder[i].key)
          \/ fresh /\ Unannounced(s, s.itemOrder[i].key)
    /\ \A k \in Keys : Announced(s.wire, k) \/ (fresh /\ Unannounced(s, k))

\* A session between two calls is Live(s, FALSE, 0).
Live(s, fresh, c) ==
    Sound(s) /\ Running(s) /\ Tracked(s) /\ Open(s, c) /\ Shown(s, fresh)

\* A tool call is closed with its identity.
NamedIfDone(s) ==
    \A i \in 1..Len(s.itemOrder) :
       s.itemOrder[i].key \in ToolKeys /\ s.itemOrder[i].itemDone => s.itemOrder[i].named

\* What a terminal event other than that of a transition error promises.
AllClosed(s) ==
    /\ \A i \in 1..Len(s.itemOrder) : s.itemOrder[i].itemDone
    /\ s.wire[Len(s.wire)].type = "completed" =>
          \A i \in 1..Len(s.itemOrder) :
             s.itemOrder[i].key \in ToolKeys => s.itemOrder[i].named

\* A session that has ended, the error of its last call aside.
Ending(s) ==
    /\ Sound(s) /\ Ended(s)
    /\ \A k \in Keys : \/ Announced(s.wire, k)
                       \/ /\ Unannounced(s, k)
                          /\ \A i \in 1..Len(s.wire) :
                                s.wire[i].type \notin {"completed", "incomplete"}
    /\ s.TerminalEmitted /\ ~s.writeFailure =>
          Len(s.wire) > 0 /\ s.wire[Len(s.wire)].type \in TerminalTypes

Dead(s) ==
    Ending(s) /\ (s.TerminalEmitted /\ ~s.writeFailure /\ s.err \in {"nil", "limit"} => AllClosed(s))

SessionInv == Dead(session) \/ (Live(session, FALSE, 0) /\ NamedIfDone(session))

-----------------------------------------------------------------------------
(* One more event.                                                         *)

\* A sequence with one more event.
LEMMA AppendFacts ==
    ASSUME NEW w \in Seq(WireEvent), NEW ev \in WireEvent, NEW v, v = Append(w, ev)
    PROVE  /\ v \in Seq(WireEvent) /\ Len(w) \in Nat /\ Len(v) = Len(w) + 1
           /\ \A i \in 1..Len(w) : v[i] = w[i]
           /\ v[Len(v)] = ev
OBVIOUS

\* What was seen stays seen, and the event is the only new one.
LEMMA SeenAppend ==
    ASSUME NEW w \in Seq(WireEvent), NEW ev \in WireEvent, NEW v, v = Append(w, ev)
    PROVE  \A type, k : Seen(v, type, k) <=> (Seen(w, type, k) \/ (ev.type = type /\ ev.key = k))
<1>. SUFFICES ASSUME NEW type, NEW k
              PROVE  Seen(v, type, k) <=> (Seen(w, type, k) \/ (ev.type = type /\ ev.key = k))
  OBVIOUS
<1>1. /\ Len(w) \in Nat /\ Len(v) = Len(w) + 1
      /\ \A i \in 1..Len(w) : v[i] = w[i]
      /\ v[Len(v)] = ev
  BY AppendFacts
<1>2. \A i : i \in 1..Len(v) <=> (i \in 1..Len(w) \/ i = Len(v))
  BY <1>1
<1>. QED
  BY <1>1, <1>2 DEF Seen

\* created and in_progress come first and second, and an unended stream goes on.
LEMMA EnvelopeAppend ==
    ASSUME NEW w \in Seq(WireEvent), NEW ev \in WireEvent, NEW v, v = Append(w, ev),
           Envelope(w), Unended(w),
           ev.type = "created" <=> Len(w) = 0, ev.type = "in_progress" => Len(w) = 1
    PROVE  /\ Envelope(v)
           /\ ev.type \notin TerminalTypes => Unended(v)
<1>1. /\ Len(w) \in Nat /\ Len(v) = Len(w) + 1
      /\ \A i \in 1..Len(w) : v[i] = w[i]
      /\ v[Len(v)] = ev
  BY AppendFacts
<1>2. \A i : i \in 1..Len(v) <=> (i \in 1..Len(w) \/ i = Len(v))
  BY <1>1
<1>3. Unended(v) \/ ev.type \in TerminalTypes
  BY <1>1, <1>2 DEF Unended
<1>4. ASSUME NEW i \in 1..Len(v)
      PROVE  /\ v[i].type = "created" => i = 1
             /\ v[i].type = "in_progress" => i = 2
             /\ v[i].type \in TerminalTypes => i = Len(v)
  <2>1. CASE i \in 1..Len(w)
    BY <1>1, <2>1 DEF Envelope, Unended
  <2>2. CASE i = Len(v)
    BY <1>1, <2>2
  <2>. QED
    BY <1>2, <2>1, <2>2
<1>5. v[1].type = "created"
  <2>1. CASE Len(w) = 0
    BY <1>1, <2>1
  <2>2. CASE Len(w) # 0
    BY <1>1, <2>2 DEF Envelope
  <2>. QED
    BY <2>1, <2>2
<1>. QED
  BY <1>3, <1>4, <1>5 DEF Envelope

\* An event is in order if its item is not closed, a delta or the end of the content if
\* the content is not, and the end of the item if the content is.
LEMMA CloseOnceAppend ==
    ASSUME NEW w \in Seq(WireEvent), NEW ev \in WireEvent, NEW v, v = Append(w, ev),
           CloseOnce(w),
           ev.key \in Keys =>
              /\ ~Seen(w, "item.done", ev.key)
              /\ ev.type \in {"delta", "content.done"} => ~Seen(w, "content.done", ev.key)
              /\ ev.type = "item.done" => Seen(w, "content.done", ev.key)
    PROVE  CloseOnce(v)
<1>1. /\ Len(w) \in Nat /\ Len(v) = Len(w) + 1
      /\ \A i \in 1..Len(w) : v[i] = w[i]
      /\ v[Len(v)] = ev
  BY AppendFacts
<1>2. \A i : i \in 1..Len(v) <=> (i \in 1..Len(w) \/ i = Len(v))
  BY <1>1
<1>. SUFFICES ASSUME NEW i \in 1..Len(v), NEW j \in 1..Len(v),
                     v[i].key \in Keys, v[j].key = v[i].key
              PROVE  /\ v[i].type = "item.done" =>
                           /\ j =< i
                           /\ \E h \in 1..Len(v) : h < i /\ v[h].key = v[i].key
                                                    /\ v[h].type = "content.done"
                     /\ v[i].type = "content.done" /\ v[j].type \in {"delta", "content.done"}
                           => j =< i
  BY DEF CloseOnce
<1>3. CASE i \in 1..Len(w) /\ j \in 1..Len(w)
  <2>1. v[i] = w[i] /\ v[j] = w[j]
    BY <1>1, <1>3
  <2>2. /\ w[i].type = "item.done" =>
             /\ j =< i
             /\ \E h \in 1..Len(w) : h < i /\ w[h].key = w[i].key /\ w[h].type = "content.done"
        /\ w[i].type = "content.done" /\ w[j].type \in {"delta", "content.done"} => j =< i
    BY <1>3, <2>1 DEF CloseOnce
  <2>. QED
    BY <1>1, <1>2, <2>1, <2>2
<1>4. CASE i \in 1..Len(w) /\ j = Len(v)
  <2>1. v[i] = w[i] /\ v[j] = ev
    BY <1>1, <1>4
  <2>2. ev.key \in Keys /\ w[i].type # "item.done"
    BY <1>4, <2>1 DEF Seen
  <2>3. ~(w[i].type = "content.done" /\ ev.type \in {"delta", "content.done"})
    BY <1>4, <2>1, <2>2 DEF Seen
  <2>. QED
    BY <2>1, <2>2, <2>3
<1>5. CASE i = Len(v)
  <2>1. v[i] = ev /\ ev.key \in Keys /\ j =< i
    BY <1>1, <1>5
  <2>2. ASSUME ev.type = "item.done"
        PROVE  \E h \in 1..Len(v) : h < i /\ v[h].key = v[i].key /\ v[h].type = "content.done"
    <3>1. PICK h \in 1..Len(w) : w[h].type = "content.done" /\ w[h].key = ev.key
      BY <2>1, <2>2 DEF Seen
    <3>2. h \in 1..Len(v) /\ h < i /\ v[h] = w[h]
      BY <1>1, <1>5
    <3>. QED
      BY <2>1, <3>1, <3>2
  <2>. QED
    BY <2>1, <2>2
<1>. QED
  BY <1>2, <1>3, <1>4, <1>5

\* An item stays announced, and one without other events is announced by item.added.
LEMMA AnnouncedAppend ==
    ASSUME NEW w \in Seq(WireEvent), NEW ev \in WireEvent, NEW v, v = Append(w, ev)
    PROVE  \A k : /\ Announced(w, k) /\ (ev.key = k => ev.type = "item.added"
                                                        \/ Seen(w, "item.added", k))
                        => Announced(v, k)
                  /\ OnlyClosing(w, k) /\ (ev.key = k => ev.type \in {"content.done", "item.done"})
                        => OnlyClosing(v, k)
<1>. SUFFICES ASSUME NEW k
              PROVE  /\ Announced(w, k) /\ (ev.key = k => ev.type = "item.added"
                                                           \/ Seen(w, "item.added", k))
                           => Announced(v, k)
                     /\ OnlyClosing(w, k) /\ (ev.key = k => ev.type \in {"content.done", "item.done"})
                           => OnlyClosing(v, k)
  OBVIOUS
<1>1. /\ Len(w) \in Nat /\ Len(v) = Len(w) + 1
      /\ \A i \in 1..Len(w) : v[i] = w[i]
      /\ v[Len(v)] = ev
  BY AppendFacts
<1>2. \A i : i \in 1..Len(v) <=> (i \in 1..Len(w) \/ i = Len(v))
  BY <1>1
<1>3. ASSUME Announced(w, k), ev.key = k => ev.type = "item.added" \/ Seen(w, "item.added", k)
      PROVE  Announced(v, k)
  <2>. SUFFICES ASSUME NEW i \in 1..Len(v), v[i].key = k
                PROVE  \E h \in 1..Len(v) : h =< i /\ v[h].key = k /\ v[h].type = "item.added"
    BY DEF Announced
  <2>1. CASE i \in 1..Len(w)
    <3>1. PICK h \in 1..Len(w) : h =< i /\ w[h].key = k /\ w[h].type = "item.added"
      BY <1>1, <1>3, <2>1 DEF Announced
    <3>. QED
      BY <1>1, <1>2, <3>1
  <2>2. CASE i = Len(v) /\ ev.type = "item.added"
    BY <1>1, <2>2
  <2>3. CASE i = Len(v) /\ Seen(w, "item.added", k)
    <3>1. PICK h \in 1..Len(w) : w[h].type = "item.added" /\ w[h].key = k
      BY <2>3 DEF Seen
    <3>2. h \in 1..Len(v) /\ h =< i /\ v[h] = w[h]
      BY <1>1, <2>3
    <3>. QED
      BY <3>1, <3>2
  <2>. QED
    BY <1>1, <1>2, <1>3, <2>1, <2>2, <2>3
<1>4. ASSUME OnlyClosing(w, k), ev.key = k => ev.type \in {"content.done", "item.done"}
      PROVE  OnlyClosing(v, k)
  BY <1>1, <1>2, <1>4 DEF OnlyClosing
<1>. QED
  BY <1>3, <1>4

-----------------------------------------------------------------------------
(* writeEventLocked.                                                       *)

\* The counters and the items.
SameState(t, s) ==
    /\ t.itemOrder = s.itemOrder
    /\ t.aggregateBytes = s.aggregateBytes /\ t.outputBytes = s.outputBytes
    /\ t.textBytes = s.textBytes /\ t.reasoningBytes = s.reasoningBytes

\* A write changes the wire, or breaks the session and returns the error.
LEMMA EmitFields ==
    ASSUME NEW s \in Session, NEW type \in WireTypes, NEW k \in Keys \cup {NoKey},
           NEW t \in Emit(s, type, k)
    PROVE  /\ t \in Session /\ SameState(t, s)
           /\ t.started <=> s.started
           /\ t.TerminalEmitted <=> s.TerminalEmitted
           /\ \/ /\ t.wire = Append(s.wire, [type |-> type, key |-> k])
                 /\ t.err = s.err /\ (t.writeFailure <=> s.writeFailure)
              \/ t.wire = s.wire /\ t.err = "write" /\ t.writeFailure
<1>. DEFINE ev == [type |-> type, key |-> k]
            v == Append(s.wire, ev)
            a == [s EXCEPT !.wire = v]
            b == [s EXCEPT !.writeFailure = TRUE, !.err = "write"]
<1>1. t = a \/ t = b
  BY DEF Emit
<1>2. v \in Seq([type : WireTypes, key : Keys \cup {NoKey}])
  BY DEF Session
<1>. HIDE DEF v
<1>3. CASE t = a
  <2>1. t \in Session
    BY <1>2, <1>3 DEF Session
  <2>2. SameState(t, s) /\ t.wire = v /\ t.err = s.err
    BY <1>3 DEF Session, SameState
  <2>3. t.started <=> s.started
    BY <1>3 DEF Session
  <2>4. t.TerminalEmitted <=> s.TerminalEmitted
    BY <1>3 DEF Session
  <2>5. t.writeFailure <=> s.writeFailure
    BY <1>3 DEF Session
  <2>. QED
    BY <2>1, <2>2, <2>3, <2>4, <2>5 DEF v
<1>4. CASE t = b
  <2>1. t \in Session
    BY <1>4 DEF Session, Errors
  <2>2. SameState(t, s) /\ t.wire = s.wire /\ t.err = "write"
    BY <1>4 DEF Session, SameState
  <2>3. t.started <=> s.started
    BY <1>4 DEF Session
  <2>4. t.TerminalEmitted <=> s.TerminalEmitted
    BY <1>4 DEF Session
  <2>5. t.writeFailure
    BY <1>4 DEF Session
  <2>. QED
    BY <2>1, <2>2, <2>3, <2>4, <2>5
<1>. QED
  BY <1>1, <1>3, <1>4

\* Flags and events do not matter to the budget.
LEMMA BudgetSame ==
    ASSUME NEW s, Budget(s), NEW t, SameState(t, s)
    PROVE  Budget(t)
BY DEF Budget, SameState

\* A failed write ends the session, and the client has what it had.
LEMMA WriteFails ==
    ASSUME NEW s, NEW fresh, NEW c, Live(s, fresh, c),
           NEW t \in Session, SameState(t, s), t.wire = s.wire, t.writeFailure
    PROVE  Dead(t)
<1>1. Sound(t)
  BY BudgetSame DEF Live, Sound
<1>2. \A k \in Keys : Announced(t.wire, k) \/ Unannounced(t, k)
  BY DEF Live, Shown, Unannounced, SameState
<1>3. \A i \in 1..Len(t.wire) : t.wire[i].type \notin {"completed", "incomplete"}
  BY DEF Live, Running, Unended, TerminalTypes
<1>. QED
  BY <1>1, <1>2, <1>3 DEF Dead, Ending, Ended

\* What writing an event of item k makes of a session in which that is in order.
Written(t, s, type, k, fresh) ==
    /\ Sound(t) /\ Running(t) /\ Tracked(t) /\ Shown(t, fresh)
    /\ t.started /\ SameState(t, s)
    /\ t.wire = Append(s.wire, [type |-> type, key |-> k])
    /\ \A y, j : Seen(t.wire, y, j) <=> (Seen(s.wire, y, j) \/ (type = y /\ k = j))

\* What the events of an item need: the item is not closed, and its content is or is not.
LEMMA EmitItem ==
    ASSUME NEW s, NEW fresh, NEW c, Live(s, fresh, c), s.started,
           NEW k \in Keys, Has(s, k),
           NEW type \in {"item.added", "part.added", "delta", "content.done", "part.done",
                         "item.done"},
           ~Seen(s.wire, "item.done", k),
           type \in {"delta", "content.done"} => ~Seen(s.wire, "content.done", k),
           type = "item.done" => Seen(s.wire, "content.done", k),
           \/ Announced(s.wire, k) /\ (type = "item.added" \/ Seen(s.wire, "item.added", k))
           \/ fresh /\ Unannounced(s, k) /\ type \in {"content.done", "item.done"},
           NEW t \in Emit(s, type, k)
    PROVE  (t.err = "write" /\ Dead(t)) \/ Written(t, s, type, k, fresh)
<1>. DEFINE ev == [type |-> type, key |-> k]
<1>1. type \in WireTypes /\ type \notin TerminalTypes /\ type # "created" /\ type # "in_progress"
  BY DEF WireTypes, TerminalTypes
<1>2. s \in Session /\ s.wire \in Seq(WireEvent) /\ ev \in WireEvent
  BY <1>1 DEF Live, Sound, Session, WireEvent
<1>3. /\ t \in Session /\ SameState(t, s)
      /\ t.started <=> s.started
      /\ t.TerminalEmitted <=> s.TerminalEmitted
      /\ \/ t.wire = Append(s.wire, ev) /\ t.err = s.err /\ (t.writeFailure <=> s.writeFailure)
         \/ t.wire = s.wire /\ t.err = "write" /\ t.writeFailure
  BY <1>1, <1>2, EmitFields
<1>4. CASE t.wire = s.wire /\ t.err = "write" /\ t.writeFailure
  BY <1>3, <1>4, WriteFails
<1>5. ev.type = type /\ ev.key = k
  OBVIOUS
<1>6. CASE t.wire = Append(s.wire, ev) /\ t.err = s.err /\ (t.writeFailure <=> s.writeFailure)
  <2>. HIDE DEF ev
  <2>1. \A y, j : Seen(t.wire, y, j) <=> (Seen(s.wire, y, j) \/ (type = y /\ k = j))
    <3>1. \A y, j : Seen(t.wire, y, j) <=> (Seen(s.wire, y, j) \/ (ev.type = y /\ ev.key = j))
      BY <1>2, <1>6, SeenAppend, ZenonT(60)
    <3>. QED
      BY <1>5, <3>1
  <2>2. /\ Len(s.wire) \in Nat /\ Len(t.wire) = Len(s.wire) + 1 /\ Len(s.wire) >= 2
        /\ \A i \in 1..Len(s.wire) : t.wire[i] = s.wire[i]
        /\ t.wire[Len(t.wire)] = ev
    BY <1>2, <1>6, AppendFacts DEF Live, Running
  <2>3. Envelope(t.wire) /\ Unended(t.wire)
    <3>1. Envelope(s.wire) /\ Unended(s.wire)
      BY DEF Live, Sound, Running
    <3>2. ~(ev.type = "created") /\ ~(Len(s.wire) = 0) /\ ~(ev.type = "in_progress")
      BY <1>1, <1>5, <2>2
    <3>3. Envelope(t.wire) /\ (ev.type \notin TerminalTypes => Unended(t.wire))
      BY <1>2, <1>6, <3>1, <3>2, EnvelopeAppend
    <3>. QED
      BY <1>1, <1>5, <3>3
  <2>4. CloseOnce(t.wire)
    <3>1. CloseOnce(s.wire)
      BY DEF Live, Sound
    <3>. QED
      BY <1>2, <1>5, <1>6, <3>1, CloseOnceAppend
  <2>5. Sound(t) /\ Running(t)
    BY <1>3, <1>6, <2>2, <2>3, <2>4, BudgetSame DEF Live, Sound, Running
  <2>6. Tracked(t)
    <3>1. \A j : Has(t, j) <=> Has(s, j)
      BY <1>3 DEF Has, SameState
    <3>2. ASSUME NEW n \in 1..Len(t.wire), t.wire[n].key \in Keys
          PROVE  Has(t, t.wire[n].key)
      <4>1. CASE n \in 1..Len(s.wire)
        BY <2>2, <3>1, <3>2, <4>1 DEF Live, Tracked
      <4>2. CASE n = Len(t.wire)
        BY <1>5, <2>2, <3>1, <4>2
      <4>. QED
        BY <2>2, <4>1, <4>2
    <3>. QED
      BY <1>3, <3>2 DEF Live, Tracked, SameState
  <2>7. Shown(t, fresh)
    <3>2. \A j : /\ Announced(s.wire, j) /\ (k = j => type = "item.added"
                                                       \/ Seen(s.wire, "item.added", j))
                       => Announced(t.wire, j)
                 /\ OnlyClosing(s.wire, j) /\ (k = j => type \in {"content.done", "item.done"})
                       => OnlyClosing(t.wire, j)
      BY <1>2, <1>5, <1>6, AnnouncedAppend
    <3>3. \A j : j # k /\ Unannounced(s, j) => Unannounced(t, j)
      BY <1>3, <3>2 DEF Unannounced, SameState
    <3>4. \/ Announced(t.wire, k) /\ Seen(t.wire, "item.added", k)
          \/ fresh /\ Unannounced(t, k)
      BY <1>3, <2>1, <3>2 DEF Unannounced, SameState
    <3>5. ASSUME NEW i \in 1..Len(t.itemOrder)
          PROVE  \/ Seen(t.wire, "item.added", t.itemOrder[i].key)
                 \/ fresh /\ Unannounced(t, t.itemOrder[i].key)
      <4>1. t.itemOrder[i].key = s.itemOrder[i].key /\ i \in 1..Len(s.itemOrder)
        BY <1>3 DEF SameState
      <4>2. CASE s.itemOrder[i].key = k
        BY <3>4, <4>1, <4>2
      <4>3. CASE s.itemOrder[i].key # k
        BY <2>1, <3>3, <4>1, <4>3 DEF Live, Shown
      <4>. QED
        BY <4>2, <4>3
    <3>6. ASSUME NEW j \in Keys
          PROVE  Announced(t.wire, j) \/ (fresh /\ Unannounced(t, j))
      <4>1. CASE j = k
        BY <3>4, <4>1
      <4>2. CASE j # k
        BY <3>2, <3>3, <4>2 DEF Live, Shown
      <4>. QED
        BY <4>1, <4>2
    <3>. QED
      BY <3>5, <3>6 DEF Shown
  <2>. QED
    BY <1>3, <1>6, <2>1, <2>5, <2>6, <2>7 DEF Written, ev
<1>. QED
  BY <1>3, <1>4, <1>6

-----------------------------------------------------------------------------
(* Changes to the items and the counters.                                  *)

\* A session that differs only in its counters, and in items of the same keys.
Alike(t, s) ==
    /\ t \in Session
    /\ t.wire = s.wire /\ t.err = s.err
    /\ t.started <=> s.started
    /\ t.TerminalEmitted <=> s.TerminalEmitted
    /\ t.writeFailure <=> s.writeFailure
    /\ Len(t.itemOrder) = Len(s.itemOrder)
    /\ \A i \in 1..Len(s.itemOrder) :
          /\ t.itemOrder[i].key = s.itemOrder[i].key
          /\ s.itemOrder[i].itemDone => t.itemOrder[i].itemDone

\* The client cannot tell, as long as the bytes are right.
LEMMA AlikeLive ==
    ASSUME NEW s, NEW fresh, NEW c, Live(s, fresh, c), NEW t, Alike(t, s), Budget(t)
    PROVE  Live(t, fresh, c)
<1>. DEFINE n == Len(s.itemOrder)
<1>1. n \in Nat /\ Len(t.itemOrder) = n
  BY DEF Live, Sound, Session, Alike
<1>2. \A k : Has(t, k) <=> Has(s, k)
  BY <1>1 DEF Has, Alike
<1>3. \A k : Unannounced(t, k) <=> Unannounced(s, k)
  BY <1>1 DEF Unannounced, Alike
<1>4. Sound(t)
  BY DEF Live, Sound, Alike
<1>5. Running(t)
  <2>1. t.itemOrder = << >> <=> s.itemOrder = << >>
    BY <1>1 DEF Live, Sound, Session, Alike
  <2>. QED
    BY <2>1 DEF Live, Running, Alike
<1>6. Tracked(t)
  BY <1>1, <1>2 DEF Live, Tracked, Alike
<1>7. Open(t, c)
  BY <1>1 DEF Live, Open, Alike
<1>8. Shown(t, fresh)
  BY <1>1, <1>3 DEF Live, Shown, Alike
<1>. QED
  BY <1>4, <1>5, <1>6, <1>7, <1>8 DEF Live

\* Item i of t is the item of s with these fields instead, and the others are the same.
Replaced(t, s, i, item) ==
    /\ t.itemOrder \in Seq(Item) /\ Len(t.itemOrder) = Len(s.itemOrder)
    /\ t.itemOrder[i] = item
    /\ \A j \in 1..Len(s.itemOrder) : j # i => t.itemOrder[j] = s.itemOrder[j]

\* Replacing one item of the output.
LEMMA ReplaceItem ==
    ASSUME NEW items \in Seq(Item), NEW i \in 1..Len(items), NEW item \in Item,
           NEW new, new = [items EXCEPT ![i] = item]
    PROVE  /\ new \in Seq(Item) /\ Len(new) = Len(items) /\ new[i] = item
           /\ \A j \in 1..Len(items) : j # i => new[j] = items[j]
OBVIOUS

\* The fields of an item.
LEMMA ItemFields ==
    ASSUME NEW s \in Session, NEW i \in 1..Len(s.itemOrder)
    PROVE  /\ s.itemOrder \in Seq(Item) /\ s.itemOrder[i] \in Item /\ s.itemOrder[i].key \in Keys
           /\ s.itemOrder[i].bytes \in Nat /\ Len(s.itemOrder) \in Nat
<1>1. s.itemOrder \in Seq(Item)
  BY DEF Session
<1>2. s.itemOrder[i] \in Item
  BY <1>1
<1>. QED
  BY <1>1, <1>2 DEF Item

\* An item gets other fields under its key, and the counters other values.
Updated(s, i, item, a, o, x) ==
    [s EXCEPT !.itemOrder = [s.itemOrder EXCEPT ![i] = item],
              !.aggregateBytes = a, !.outputBytes = o, !.textBytes = x]

\* The fields of a session with one item and three counters replaced.
LEMMA UpdateItem ==
    ASSUME NEW s \in Session, NEW i \in 1..Len(s.itemOrder),
           NEW item \in Item, item.key = s.itemOrder[i].key,
           s.itemOrder[i].itemDone => item.itemDone,
           NEW a \in 0..MaxAggregateBytes, NEW o \in 0..MaxOutputBytes, NEW x \in 0..MaxTextBytes,
           NEW t, t = Updated(s, i, item, a, o, x)
    PROVE  /\ Alike(t, s) /\ Replaced(t, s, i, item)
           /\ t.aggregateBytes = a /\ t.outputBytes = o
           /\ t.textBytes = x /\ t.reasoningBytes = s.reasoningBytes
<1>. DEFINE new == [s.itemOrder EXCEPT ![i] = item]
<1>1. t = [s EXCEPT !.itemOrder = new, !.aggregateBytes = a, !.outputBytes = o, !.textBytes = x]
  BY DEF Updated
<1>2. /\ new \in Seq(Item) /\ Len(new) = Len(s.itemOrder) /\ new[i] = item
      /\ \A j \in 1..Len(s.itemOrder) : j # i => new[j] = s.itemOrder[j]
  BY ItemFields, ReplaceItem
<1>. HIDE DEF new
<1>3. t \in Session
  BY <1>1, <1>2 DEF Session
<1>4. /\ t.itemOrder = new /\ t.wire = s.wire /\ t.err = s.err
      /\ t.aggregateBytes = a /\ t.outputBytes = o
      /\ t.textBytes = x /\ t.reasoningBytes = s.reasoningBytes
  BY <1>1 DEF Session
<1>5. t.started <=> s.started
  BY <1>1 DEF Session
<1>6. t.TerminalEmitted <=> s.TerminalEmitted
  BY <1>1 DEF Session
<1>7. t.writeFailure <=> s.writeFailure
  BY <1>1 DEF Session
<1>8. Alike(t, s)
  <2>1. ASSUME NEW j \in 1..Len(s.itemOrder)
        PROVE  /\ t.itemOrder[j].key = s.itemOrder[j].key
               /\ s.itemOrder[j].itemDone => t.itemOrder[j].itemDone
    <3>1. CASE j = i
      BY <1>2, <1>4, <3>1
    <3>2. CASE j # i
      BY <1>2, <1>4, <3>2
    <3>. QED
      BY <3>1, <3>2
  <2>. QED
    BY <1>2, <1>3, <1>4, <1>5, <1>6, <1>7, <2>1 DEF Alike
<1>. QED
  BY <1>2, <1>4, <1>8 DEF Replaced

\* Setting contentDone or itemDone changes no counter.
LEMMA MarkItem ==
    ASSUME NEW s \in Session, NEW i \in 1..Len(s.itemOrder), NEW t,
           \/ t = [s EXCEPT !.itemOrder[i].contentDone = TRUE]
           \/ t = [s EXCEPT !.itemOrder[i].itemDone = TRUE]
    PROVE  /\ Alike(t, s)
           /\ \A j \in 1..Len(s.itemOrder) : j # i => t.itemOrder[j] = s.itemOrder[j]
           /\ t.itemOrder[i].bytes = s.itemOrder[i].bytes
           /\ t.itemOrder[i].named <=> s.itemOrder[i].named
           /\ t = [s EXCEPT !.itemOrder[i].itemDone = TRUE] => t.itemOrder[i].itemDone
           /\ t.aggregateBytes = s.aggregateBytes /\ t.outputBytes = s.outputBytes
           /\ t.textBytes = s.textBytes /\ t.reasoningBytes = s.reasoningBytes
<1>. DEFINE old == s.itemOrder[i]
            content == [old EXCEPT !.contentDone = TRUE]
            done == [old EXCEPT !.itemDone = TRUE]
            P(item) == t = Updated(s, i, item, s.aggregateBytes, s.outputBytes, s.textBytes)
<1>1. old \in Item
  BY ItemFields
<1>2. content \in Item /\ content.key = old.key /\ content.bytes = old.bytes
  BY <1>1 DEF Item
<1>3. content.named <=> old.named
  BY <1>1 DEF Item
<1>4. content.itemDone <=> old.itemDone
  BY <1>1 DEF Item
<1>5. done \in Item /\ done.key = old.key /\ done.bytes = old.bytes
  BY <1>1 DEF Item
<1>6. done.named <=> old.named
  BY <1>1 DEF Item
<1>7. done.itemDone
  BY <1>1 DEF Item
<1>8. t = [s EXCEPT !.itemOrder[i].contentDone = TRUE] => P(content)
  BY DEF Session, Updated
<1>9. t = [s EXCEPT !.itemOrder[i].itemDone = TRUE] => P(done)
  BY DEF Session, Updated
<1>10. /\ s.aggregateBytes \in 0..MaxAggregateBytes /\ s.outputBytes \in 0..MaxOutputBytes
       /\ s.textBytes \in 0..MaxTextBytes
  BY DEF Session
<1>11. CASE t = [s EXCEPT !.itemOrder[i].itemDone = TRUE]
  <2>1. P(done)
    BY <1>9, <1>11
  <2>. HIDE DEF done
  <2>2. /\ Alike(t, s) /\ Replaced(t, s, i, done)
        /\ t.aggregateBytes = s.aggregateBytes /\ t.outputBytes = s.outputBytes
        /\ t.textBytes = s.textBytes /\ t.reasoningBytes = s.reasoningBytes
    BY <1>5, <1>7, <1>10, <2>1, UpdateItem
  <2>. QED
    BY <1>5, <1>6, <1>7, <2>2 DEF Replaced
<1>12. CASE t = [s EXCEPT !.itemOrder[i].contentDone = TRUE]
           /\ t # [s EXCEPT !.itemOrder[i].itemDone = TRUE]
  <2>1. P(content)
    BY <1>8, <1>12
  <2>. HIDE DEF content
  <2>2. /\ Alike(t, s) /\ Replaced(t, s, i, content)
        /\ t.aggregateBytes = s.aggregateBytes /\ t.outputBytes = s.outputBytes
        /\ t.textBytes = s.textBytes /\ t.reasoningBytes = s.reasoningBytes
    BY <1>2, <1>4, <1>10, <2>1, UpdateItem
  <2>. QED
    BY <1>2, <1>3, <1>12, <2>2 DEF Replaced
<1>. QED
  BY <1>11, <1>12

-----------------------------------------------------------------------------
(* Events of an item.                                                      *)

\* A call that has returned an error.
Stopped(t) == t.err # "nil" /\ Dead(t)

\* The same items, byte for byte, some more of them done.
LEMMA BudgetItems ==
    ASSUME NEW s \in Session, Budget(s), NEW t \in Session,
           Len(t.itemOrder) = Len(s.itemOrder),
           \A i \in 1..Len(s.itemOrder) : /\ t.itemOrder[i].key = s.itemOrder[i].key
                                          /\ t.itemOrder[i].bytes = s.itemOrder[i].bytes,
           t.aggregateBytes = s.aggregateBytes, t.outputBytes = s.outputBytes,
           t.textBytes = s.textBytes, t.reasoningBytes = s.reasoningBytes
    PROVE  Budget(t)
<1>1. \A ks : Retained(t.itemOrder, ks) = Retained(s.itemOrder, ks)
  BY DEF Retained
<1>. QED
  BY <1>1 DEF Budget

\* An open item that is announced: its deltas, and the part of a text item.
LEMMA EmitPlain ==
    ASSUME NEW s, Live(s, FALSE, 0), s.started, NEW i \in 1..Len(s.itemOrder),
           ~s.itemOrder[i].itemDone, NEW k, k = s.itemOrder[i].key,
           NEW type \in {"part.added", "delta"}, NEW t \in Emit(s, type, k)
    PROVE  Stopped(t) \/ (Live(t, FALSE, 0) /\ t.started /\ SameState(t, s))
<1>1. k \in Keys /\ Has(s, k) /\ type # "item.done" /\ type # "content.done" /\ type # "item.added"
  BY ItemFields DEF Live, Sound, Has
<1>2. /\ ~Seen(s.wire, "item.done", k) /\ ~Seen(s.wire, "content.done", k)
      /\ Seen(s.wire, "item.added", k) /\ Announced(s.wire, k)
  BY <1>1 DEF Live, Open, Shown
<1>3. (t.err = "write" /\ Dead(t)) \/ Written(t, s, type, k, FALSE)
  BY <1>1, <1>2, EmitItem
<1>4. ASSUME Written(t, s, type, k, FALSE)
      PROVE  Live(t, FALSE, 0)
  BY <1>1, <1>4 DEF Written, SameState, Live, Open
<1>. QED
  BY <1>3, <1>4 DEF Stopped, Written

\* The announcement of the newest item.
LEMMA EmitAdded ==
    ASSUME NEW s, Live(s, TRUE, 0), s.started, NEW n, n = Len(s.itemOrder), n > 0,
           ~s.itemOrder[n].itemDone, NEW k, k = s.itemOrder[n].key,
           NEW t \in Emit(s, "item.added", k)
    PROVE  Stopped(t) \/ (Live(t, FALSE, 0) /\ t.started /\ SameState(t, s))
<1>1. n \in 1..n /\ n \in Nat
  BY DEF Live, Sound, Session
<1>2. k \in Keys /\ Has(s, k)
  BY <1>1, ItemFields DEF Live, Sound, Has
<1>3. ~Seen(s.wire, "item.done", k) /\ ~Seen(s.wire, "content.done", k)
  BY <1>1 DEF Live, Open
<1>4. Announced(s.wire, k)
  <2>1. CASE OnlyClosing(s.wire, k)
    BY <1>3, <2>1 DEF OnlyClosing, Seen, Announced
  <2>2. CASE ~OnlyClosing(s.wire, k)
    BY <1>2, <2>2 DEF Live, Shown, Unannounced
  <2>. QED
    BY <2>1, <2>2
<1>5. (t.err = "write" /\ Dead(t)) \/ Written(t, s, "item.added", k, TRUE)
  BY <1>2, <1>3, <1>4, EmitItem
<1>6. ASSUME Written(t, s, "item.added", k, TRUE)
      PROVE  Live(t, FALSE, 0)
  <2>1. t.itemOrder = s.itemOrder /\ Seen(t.wire, "item.added", k)
    BY <1>6 DEF Written, SameState
  <2>2. ~Unannounced(t, k)
    BY <2>1 DEF Unannounced, OnlyClosing, Seen
  <2>3. \A j : Unannounced(t, j) => j = k
    BY <2>1 DEF Unannounced
  <2>4. Shown(t, FALSE)
    BY <1>6, <2>2, <2>3 DEF Written, Shown
  <2>5. Open(t, 0)
    BY <1>6, <2>1 DEF Written, Live, Open
  <2>. QED
    BY <1>6, <2>4, <2>5 DEF Written, Live
<1>. QED
  BY <1>5, <1>6 DEF Stopped, Written

\* content.done begins to close an open item.
LEMMA EmitContentDone ==
    ASSUME NEW s, NEW fresh, Live(s, fresh, 0), s.started, NEW i \in 1..Len(s.itemOrder),
           ~s.itemOrder[i].itemDone, NEW k, k = s.itemOrder[i].key,
           NEW t \in Emit(s, "content.done", k)
    PROVE  Stopped(t) \/ (Live(t, fresh, i) /\ t.started /\ SameState(t, s))
<1>1. k \in Keys /\ Has(s, k) /\ i # 0 /\ Len(s.itemOrder) \in Nat
  BY ItemFields DEF Live, Sound, Has
<1>2. ~Seen(s.wire, "item.done", k) /\ ~Seen(s.wire, "content.done", k)
  BY <1>1 DEF Live, Open
<1>3. \/ Announced(s.wire, k) /\ Seen(s.wire, "item.added", k)
      \/ fresh /\ Unannounced(s, k)
  BY <1>1 DEF Live, Shown
<1>4. (t.err = "write" /\ Dead(t)) \/ Written(t, s, "content.done", k, fresh)
  BY <1>1, <1>2, <1>3, EmitItem
<1>5. ASSUME Written(t, s, "content.done", k, fresh)
      PROVE  Live(t, fresh, i)
  <2>1. \A j \in 1..Len(s.itemOrder) : j # i => s.itemOrder[j].key # k
    BY DEF Live, Tracked
  <2>2. Open(t, i)
    BY <1>1, <1>2, <1>5, <2>1 DEF Written, SameState, Live, Open
  <2>. QED
    BY <1>5, <2>2 DEF Written, Live
<1>. QED
  BY <1>4, <1>5 DEF Stopped, Written

\* part.done follows in an announced item.
LEMMA EmitPartDone ==
    ASSUME NEW s, NEW fresh, NEW i \in 1..Len(s.itemOrder), Live(s, fresh, i), s.started,
           NEW k, k = s.itemOrder[i].key, fresh => ~Unannounced(s, k),
           NEW t \in Emit(s, "part.done", k)
    PROVE  Stopped(t) \/ (Live(t, fresh, i) /\ t.started /\ SameState(t, s))
<1>1. k \in Keys /\ Has(s, k) /\ i # 0 /\ Len(s.itemOrder) \in Nat
  BY ItemFields DEF Live, Sound, Has
<1>2. /\ ~Seen(s.wire, "item.done", k) /\ Seen(s.wire, "content.done", k)
      /\ Announced(s.wire, k) /\ Seen(s.wire, "item.added", k)
  BY <1>1 DEF Live, Open, Shown
<1>3. (t.err = "write" /\ Dead(t)) \/ Written(t, s, "part.done", k, fresh)
  BY <1>1, <1>2, EmitItem
<1>4. ASSUME Written(t, s, "part.done", k, fresh)
      PROVE  Live(t, fresh, i)
  BY <1>4 DEF Written, SameState, Live, Open
<1>. QED
  BY <1>3, <1>4 DEF Stopped, Written

\* item.done closes an item that is marked done.
LEMMA EmitItemDone ==
    ASSUME NEW s, NEW fresh, NEW i \in 1..Len(s.itemOrder), Live(s, fresh, i), s.started,
           s.itemOrder[i].itemDone, NEW k, k = s.itemOrder[i].key,
           NEW t \in Emit(s, "item.done", k)
    PROVE  Stopped(t) \/ (Live(t, fresh, 0) /\ t.started /\ SameState(t, s))
<1>1. k \in Keys /\ Has(s, k) /\ i # 0 /\ Len(s.itemOrder) \in Nat
  BY ItemFields DEF Live, Sound, Has
<1>2. ~Seen(s.wire, "item.done", k) /\ Seen(s.wire, "content.done", k)
  BY <1>1 DEF Live, Open
<1>3. \/ Announced(s.wire, k) /\ Seen(s.wire, "item.added", k)
      \/ fresh /\ Unannounced(s, k)
  BY <1>1 DEF Live, Shown
<1>4. (t.err = "write" /\ Dead(t)) \/ Written(t, s, "item.done", k, fresh)
  BY <1>1, <1>2, <1>3, EmitItem
<1>5. ASSUME Written(t, s, "item.done", k, fresh)
      PROVE  Live(t, fresh, 0)
  <2>1. \A j \in 1..Len(s.itemOrder) : j # i => s.itemOrder[j].key # k
    BY DEF Live, Tracked
  <2>2. Open(t, 0)
    BY <1>1, <1>5, <2>1 DEF Written, SameState, Live, Open
  <2>. QED
    BY <1>5, <2>2 DEF Written, Live
<1>. QED
  BY <1>4, <1>5 DEF Stopped, Written

-----------------------------------------------------------------------------
(* Finishing items.                                                        *)

\* t has the items of s, with those that D holds done in addition.
Finished(t, s, D) ==
    /\ Len(t.itemOrder) = Len(s.itemOrder)
    /\ \A j \in 1..Len(s.itemOrder) :
          /\ t.itemOrder[j].key = s.itemOrder[j].key
          /\ t.itemOrder[j].named <=> s.itemOrder[j].named
          /\ t.itemOrder[j].itemDone <=> (s.itemOrder[j].itemDone \/ j \in D)

\* An item without announcement is a tool call: a text item is announced as soon as it
\* is made.
FreshTool(s, fresh) == fresh => s.itemOrder[Len(s.itemOrder)].key \in ToolKeys

\* Marking an item is nothing the client sees.
LEMMA MarkLive ==
    ASSUME NEW s, NEW fresh, NEW c, Live(s, fresh, c), s.started,
           NEW i \in 1..Len(s.itemOrder), NEW t,
           \/ t = [s EXCEPT !.itemOrder[i].contentDone = TRUE]
           \/ t = [s EXCEPT !.itemOrder[i].itemDone = TRUE]
    PROVE  /\ Live(t, fresh, c) /\ t.started
           /\ t = [s EXCEPT !.itemOrder[i].itemDone = TRUE] => Finished(t, s, {i})
<1>1. s \in Session /\ Budget(s)
  BY DEF Live, Sound
<1>2. /\ Alike(t, s)
      /\ \A j \in 1..Len(s.itemOrder) : j # i => t.itemOrder[j] = s.itemOrder[j]
      /\ t.itemOrder[i].bytes = s.itemOrder[i].bytes
      /\ t.itemOrder[i].named <=> s.itemOrder[i].named
      /\ t = [s EXCEPT !.itemOrder[i].itemDone = TRUE] => t.itemOrder[i].itemDone
      /\ t.aggregateBytes = s.aggregateBytes /\ t.outputBytes = s.outputBytes
      /\ t.textBytes = s.textBytes /\ t.reasoningBytes = s.reasoningBytes
  BY <1>1, MarkItem
<1>3. \A j \in 1..Len(s.itemOrder) : /\ t.itemOrder[j].key = s.itemOrder[j].key
                                     /\ t.itemOrder[j].bytes = s.itemOrder[j].bytes
  BY <1>2 DEF Alike
<1>4. Budget(t)
  BY <1>1, <1>2, <1>3, BudgetItems DEF Alike
<1>5. Live(t, fresh, c) /\ t.started
  BY <1>2, <1>4, AlikeLive DEF Alike
<1>6. ASSUME t = [s EXCEPT !.itemOrder[i].itemDone = TRUE]
      PROVE  Finished(t, s, {i})
  <2>1. t.itemOrder[i].itemDone /\ Len(t.itemOrder) = Len(s.itemOrder)
    BY <1>2, <1>6 DEF Alike
  <2>. QED
    BY <1>2, <1>3, <2>1 DEF Finished
<1>. QED
  BY <1>5, <1>6

\* The events that close a tool call.
LEMMA FinishToolLive ==
    ASSUME NEW s, NEW fresh, Live(s, fresh, 0), s.started, NEW i \in 1..Len(s.itemOrder),
           ~s.itemOrder[i].itemDone, NEW t \in finishToolItemLocked(s, i)
    PROVE  Stopped(t) \/ (Live(t, fresh, 0) /\ t.started /\ Finished(t, s, {i}))
<1>. DEFINE k == s.itemOrder[i].key
            Mark(x) == [x EXCEPT !.itemOrder[i].itemDone = TRUE]
<1>1. PICK x \in Emit(s, "content.done", k) :
         IF x.err = "nil" THEN t \in Emit(Mark(x), "item.done", k) ELSE t = x
  BY DEF finishToolItemLocked, Then
<1>. HIDE DEF k, Mark
<1>2. Stopped(x) \/ (Live(x, fresh, i) /\ x.started /\ SameState(x, s))
  BY EmitContentDone DEF k
<1>3. CASE Stopped(x)
  BY <1>1, <1>3 DEF Stopped
<1>4. CASE Live(x, fresh, i) /\ x.started /\ SameState(x, s)
  <2>. DEFINE y == Mark(x)
  <2>1. t \in Emit(y, "item.done", k) /\ x.itemOrder = s.itemOrder
    BY <1>1, <1>4 DEF Live, Running, SameState
  <2>. HIDE DEF y
  <2>2. Live(y, fresh, i) /\ y.started /\ Finished(y, x, {i})
    BY <1>4, <2>1, MarkLive DEF Mark, y
  <2>3. i \in 1..Len(y.itemOrder) /\ y.itemOrder[i].itemDone /\ y.itemOrder[i].key = k
    BY <2>1, <2>2 DEF Finished, k
  <2>4. Stopped(t) \/ (Live(t, fresh, 0) /\ t.started /\ SameState(t, y))
    BY <2>1, <2>2, <2>3, EmitItemDone
  <2>. QED
    BY <2>1, <2>2, <2>4 DEF Finished, SameState
<1>. QED
  BY <1>2, <1>3, <1>4

\* The events that close a text item.
LEMMA FinishTextLive ==
    ASSUME NEW s, NEW fresh, Live(s, fresh, 0), s.started, NEW i \in 1..Len(s.itemOrder),
           ~s.itemOrder[i].itemDone, s.itemOrder[i].key \in TextKeys, FreshTool(s, fresh),
           NEW t \in finishTextItemLocked(s, i)
    PROVE  Stopped(t) \/ (Live(t, fresh, 0) /\ t.started /\ Finished(t, s, {i}))
<1>. DEFINE k == s.itemOrder[i].key
            Content(x) == [x EXCEPT !.itemOrder[i].contentDone = TRUE]
            Mark(x) == [x EXCEPT !.itemOrder[i].itemDone = TRUE]
            Rest(x) == Then(Emit(Content(x), "part.done", k),
                            LAMBDA y : Emit(Mark(y), "item.done", k))
<1>1. PICK x \in Emit(s, "content.done", k) : IF x.err = "nil" THEN t \in Rest(x) ELSE t = x
  BY DEF finishTextItemLocked, Then
<1>2. \A u : t \in Rest(u) => \E y \in Emit(Content(u), "part.done", k) :
                                 IF y.err = "nil" THEN t \in Emit(Mark(y), "item.done", k) ELSE t = y
  BY DEF Then
<1>. HIDE DEF k, Mark, Content, Rest
<1>3. Stopped(x) \/ (Live(x, fresh, i) /\ x.started /\ SameState(x, s))
  BY EmitContentDone DEF k
<1>4. CASE Stopped(x)
  BY <1>1, <1>4 DEF Stopped
<1>5. CASE Live(x, fresh, i) /\ x.started /\ SameState(x, s)
  <2>. DEFINE u == Content(x)
  <2>1. x.itemOrder = s.itemOrder /\ t \in Rest(x)
    BY <1>1, <1>5 DEF Live, Running, SameState
  <2>2. PICK y \in Emit(u, "part.done", k) :
           IF y.err = "nil" THEN t \in Emit(Mark(y), "item.done", k) ELSE t = y
    BY <1>2, <2>1
  <2>. HIDE DEF u
  <2>3. Live(u, fresh, i) /\ u.started
    BY <1>5, <2>1, MarkLive, ZenonT(60) DEF Content, u
  <2>4. Finished(u, s, {})
    <3>1. x \in Session
      BY <1>5 DEF Live, Sound
    <3>2. /\ Alike(u, x)
          /\ \A j \in 1..Len(x.itemOrder) : j # i => u.itemOrder[j] = x.itemOrder[j]
          /\ u.itemOrder[i].named <=> x.itemOrder[i].named
      BY <2>1, <3>1, MarkItem DEF Content, u
    <3>3. u.itemOrder[i].itemDone <=> x.itemOrder[i].itemDone
      BY <2>1, <3>1 DEF Content, u, Session, Item
    <3>. QED
      BY <2>1, <3>2, <3>3 DEF Alike, Finished
  <2>5. i \in 1..Len(u.itemOrder) /\ u.itemOrder[i].key = k
    BY <2>4 DEF Finished, k
  <2>6. fresh => ~Unannounced(u, k)
    BY <2>4, SessionAssumption, ItemFields DEF FreshTool, Unannounced, Finished, k, Live, Sound
  <2>7. Stopped(y) \/ (Live(y, fresh, i) /\ y.started /\ SameState(y, u))
    BY <2>2, <2>3, <2>5, <2>6, EmitPartDone
  <2>8. CASE Stopped(y)
    BY <2>2, <2>8 DEF Stopped
  <2>9. CASE Live(y, fresh, i) /\ y.started /\ SameState(y, u)
    <3>. DEFINE z == Mark(y)
    <3>1. t \in Emit(z, "item.done", k) /\ y.itemOrder = u.itemOrder
      BY <2>2, <2>9 DEF Live, Running, SameState
    <3>. HIDE DEF z
    <3>2. Live(z, fresh, i) /\ z.started /\ Finished(z, y, {i})
      BY <2>5, <2>9, <3>1, MarkLive DEF Mark, z
    <3>3. i \in 1..Len(z.itemOrder) /\ z.itemOrder[i].itemDone /\ z.itemOrder[i].key = k
      BY <2>5, <3>1, <3>2 DEF Finished
    <3>4. Stopped(t) \/ (Live(t, fresh, 0) /\ t.started /\ SameState(t, z))
      BY <3>1, <3>2, <3>3, EmitItemDone
    <3>5. Finished(z, s, {i})
      BY <2>4, <3>1, <3>2 DEF Finished
    <3>. QED
      BY <3>4, <3>5 DEF Finished, SameState
  <2>. QED
    BY <2>7, <2>8, <2>9
<1>. QED
  BY <1>3, <1>4, <1>5

-----------------------------------------------------------------------------
(* The envelope.                                                           *)

\* An event that belongs to no item leaves the items as they were.
LEMMA NoKeyAppend ==
    ASSUME NEW w \in Seq(WireEvent), NEW ev \in WireEvent, ev.key = NoKey, NEW v,
           v = Append(w, ev), CloseOnce(w)
    PROVE  /\ CloseOnce(v)
           /\ \A k \in Keys : /\ Announced(w, k) => Announced(v, k)
                              /\ OnlyClosing(w, k) => OnlyClosing(v, k)
                              /\ \A type : Seen(v, type, k) <=> Seen(w, type, k)
<1>1. \A k \in Keys : ev.key # k
  BY SessionAssumption
<1>2. CloseOnce(v)
  BY <1>1, CloseOnceAppend
<1>3. \A k \in Keys : /\ Announced(w, k) => Announced(v, k)
                      /\ OnlyClosing(w, k) => OnlyClosing(v, k)
  BY <1>1, AnnouncedAppend
<1>4. \A k \in Keys : \A type : Seen(v, type, k) <=> Seen(w, type, k)
  BY <1>1, SeenAppend
<1>. QED
  BY <1>2, <1>3, <1>4

\* A session starts with created and in_progress, or not at all.
LEMMA StartLive ==
    ASSUME NEW s, Live(s, FALSE, 0), ~s.started, NEW t \in startLocked(s)
    PROVE  Stopped(t) \/ (Live(t, FALSE, 0) /\ t.started /\ SameState(t, s))
<1>. DEFINE b == [s EXCEPT !.started = TRUE]
            created == [type |-> "created", key |-> NoKey]
            progress == [type |-> "in_progress", key |-> NoKey]
<1>1. PICK x \in Emit(b, "created", NoKey) :
         IF x.err = "nil" THEN t \in Emit(x, "in_progress", NoKey) ELSE t = x
  BY DEF startLocked, Then
<1>2. /\ s \in Session /\ Budget(s) /\ s.wire = << >> /\ s.itemOrder = << >> /\ s.err = "nil"
      /\ ~s.TerminalEmitted /\ ~s.writeFailure
  BY DEF Live, Sound, Running
<1>3. /\ b \in Session /\ SameState(b, s) /\ b.wire = s.wire /\ b.err = "nil"
  BY <1>2 DEF Session, SameState
<1>4. b.started
  BY <1>2 DEF Session
<1>5. ~b.TerminalEmitted
  BY <1>2 DEF Session
<1>6. ~b.writeFailure
  BY <1>2 DEF Session
<1>7. "created" \in WireTypes /\ "in_progress" \in WireTypes
  BY DEF WireTypes
<1>. HIDE DEF b
<1>8. /\ x \in Session /\ SameState(x, b) /\ x.started /\ ~x.TerminalEmitted
      /\ \/ x.wire = Append(b.wire, created) /\ x.err = "nil" /\ ~x.writeFailure
         \/ x.wire = b.wire /\ x.err = "write" /\ x.writeFailure
  BY <1>3, <1>4, <1>5, <1>6, <1>7, EmitFields
<1>9. SameState(x, s)
  BY <1>3, <1>8 DEF SameState
<1>10. CASE x.wire = b.wire /\ x.err = "write" /\ x.writeFailure
  <2>1. t = x /\ t.err # "nil"
    BY <1>1, <1>10
  <2>2. Dead(x)
    BY <1>3, <1>8, <1>9, <1>10, WriteFails
  <2>. QED
    BY <2>1, <2>2 DEF Stopped
<1>11. CASE x.wire = Append(b.wire, created) /\ x.err = "nil" /\ ~x.writeFailure
  <2>1. /\ t \in Session /\ SameState(t, x) /\ t.started /\ ~t.TerminalEmitted
        /\ \/ t.wire = Append(x.wire, progress) /\ t.err = "nil" /\ ~t.writeFailure
           \/ t.wire = x.wire /\ t.err = "write" /\ t.writeFailure
    BY <1>1, <1>7, <1>8, <1>11, EmitFields
  <2>2. SameState(t, s) /\ Budget(t) /\ t.itemOrder = << >> /\ Len(t.itemOrder) = 0
    BY <1>2, <1>9, <2>1, BudgetSame DEF SameState
  <2>3. b.wire \in Seq(WireEvent) /\ b.wire = << >> /\ Len(b.wire) = 0
    BY <1>2, <1>3 DEF WireEvent
  <2>4. created \in WireEvent /\ progress \in WireEvent /\ x.wire \in Seq(WireEvent)
    BY <1>7, <1>8 DEF WireEvent, Session
  <2>5. /\ Envelope(b.wire) /\ Unended(b.wire) /\ CloseOnce(b.wire)
        /\ \A k : Announced(b.wire, k)
    BY <2>3 DEF Envelope, Unended, CloseOnce, Announced
  <2>6. /\ created.type = "created" /\ created.key = NoKey /\ created.type \notin TerminalTypes
        /\ progress.type = "in_progress" /\ progress.key = NoKey
        /\ progress.type \notin TerminalTypes
    BY DEF TerminalTypes
  <2>. HIDE DEF created, progress
  <2>7. Envelope(x.wire) /\ Unended(x.wire)
    BY <1>11, <2>3, <2>4, <2>5, <2>6, EnvelopeAppend
  <2>8. CloseOnce(x.wire) /\ \A k \in Keys : Announced(x.wire, k)
    BY <1>11, <2>3, <2>4, <2>5, <2>6, NoKeyAppend
  <2>9. Len(x.wire) = 1 /\ x.wire[1] = created
    BY <1>11, <2>3, <2>4, AppendFacts
  <2>10. CASE t.wire = x.wire /\ t.err = "write" /\ t.writeFailure
    <3>1. Sound(t)
      BY <2>1, <2>2, <2>7, <2>8, <2>10 DEF Sound
    <3>. QED
      BY <2>8, <2>10, <3>1 DEF Stopped, Dead, Ending, Ended
  <2>11. CASE t.wire = Append(x.wire, progress) /\ t.err = "nil" /\ ~t.writeFailure
    <3>1. Envelope(t.wire) /\ Unended(t.wire)
      <4>1. ~(progress.type = "created") /\ ~(Len(x.wire) = 0)
        BY <2>6, <2>9
      <4>. QED
        BY <2>4, <2>6, <2>7, <2>9, <2>11, <4>1, EnvelopeAppend
    <3>2. CloseOnce(t.wire) /\ \A k \in Keys : Announced(t.wire, k)
      BY <2>4, <2>6, <2>8, <2>11, NoKeyAppend
    <3>3. Len(t.wire) = 2 /\ t.wire[1] = created /\ t.wire[2] = progress
      BY <2>4, <2>9, <2>11, AppendFacts
    <3>4. Sound(t) /\ Running(t)
      BY <2>1, <2>2, <2>11, <3>1, <3>2, <3>3 DEF Sound, Running
    <3>5. Tracked(t)
      <4>1. \A n \in 1..Len(t.wire) : t.wire[n].key = NoKey
        BY <2>6, <3>3
      <4>. QED
        BY <2>2, <4>1, SessionAssumption DEF Tracked
    <3>6. Open(t, 0) /\ Shown(t, FALSE)
      BY <2>2, <3>2 DEF Open, Shown
    <3>. QED
      BY <2>1, <2>2, <3>4, <3>5, <3>6 DEF Live
  <2>. QED
    BY <2>1, <2>10, <2>11
<1>. QED
  BY <1>8, <1>10, <1>11

\* ensureStartedLocked: the session is started, or a write failed.
LEMMA EnsureLive ==
    ASSUME NEW s, NEW fresh \in BOOLEAN, Live(s, fresh, 0), NEW t \in ensureStartedLocked(s)
    PROVE  Stopped(t) \/ (Live(t, fresh, 0) /\ t.started /\ SameState(t, s))
<1>1. CASE s.started
  BY <1>1 DEF ensureStartedLocked, SameState
<1>2. CASE ~s.started
  <2>1. \A k : ~Unannounced(s, k)
    BY <1>2 DEF Live, Running, Unannounced
  <2>2. Live(s, FALSE, 0)
    BY <2>1 DEF Live, Shown
  <2>3. t \in startLocked(s)
    BY <1>2 DEF ensureStartedLocked
  <2>4. Stopped(t) \/ (Live(t, FALSE, 0) /\ t.started /\ SameState(t, s))
    BY <1>2, <2>2, <2>3, StartLive
  <2>5. Live(t, FALSE, 0) => Live(t, fresh, 0)
    BY DEF Live, Shown
  <2>. QED
    BY <2>4, <2>5
<1>. QED
  BY <1>1, <1>2

-----------------------------------------------------------------------------
(* The end.                                                                *)

\* An error changes nothing but what the call returns.
LEMMA ErrorEnding ==
    ASSUME NEW s, Ending(s), NEW err \in Errors, NEW t \in Error(s, err)
    PROVE  /\ Ending(t) /\ t.err = err /\ t.itemOrder = s.itemOrder /\ t.wire = s.wire
           /\ t.TerminalEmitted <=> s.TerminalEmitted
           /\ t.writeFailure <=> s.writeFailure
<1>1. s \in Session
  BY DEF Ending, Sound
<1>2. t = [s EXCEPT !.err = err]
  BY DEF Error
<1>3. t \in Session /\ SameState(t, s) /\ t.wire = s.wire /\ t.err = err
  BY <1>1, <1>2 DEF Session, SameState
<1>4. t.TerminalEmitted <=> s.TerminalEmitted
  BY <1>1, <1>2 DEF Session
<1>5. t.writeFailure <=> s.writeFailure
  BY <1>1, <1>2 DEF Session
<1>6. Sound(t)
  BY <1>3, BudgetSame DEF Ending, Sound
<1>7. \A k : Unannounced(t, k) <=> Unannounced(s, k)
  BY <1>3 DEF Unannounced, SameState
<1>. QED
  BY <1>3, <1>4, <1>5, <1>6, <1>7 DEF Ending, Ended, SameState

\* The terminal event, which after an unannounced item must be response.failed.
LEMMA TerminalEnding ==
    ASSUME NEW s, NEW fresh \in BOOLEAN, Live(s, fresh, 0), s.started,
           NEW type \in TerminalTypes, fresh => type = "failed",
           NEW t \in writeTerminalLocked(s, type)
    PROVE  \/ Stopped(t)
           \/ /\ t.err = "nil" /\ Ending(t) /\ t.TerminalEmitted /\ ~t.writeFailure
              /\ t.wire[Len(t.wire)].type = type /\ t.itemOrder = s.itemOrder
<1>. DEFINE b == [s EXCEPT !.TerminalEmitted = TRUE]
            ev == [type |-> type, key |-> NoKey]
<1>1. t \in Emit(b, type, NoKey)
  BY DEF writeTerminalLocked
<1>2. s \in Session /\ s.err = "nil" /\ ~s.writeFailure
  BY DEF Live, Sound, Running
<1>3. b \in Session /\ SameState(b, s) /\ b.wire = s.wire /\ b.err = "nil"
  BY <1>2 DEF Session, SameState
<1>4. b.TerminalEmitted
  BY <1>2 DEF Session
<1>5. ~b.writeFailure
  BY <1>2 DEF Session
<1>6. /\ type \in WireTypes /\ type # "created" /\ type # "in_progress"
      /\ type = "failed" => type \notin {"completed", "incomplete"}
  BY DEF WireTypes, TerminalTypes
<1>. HIDE DEF b
<1>7. /\ t \in Session /\ SameState(t, b) /\ t.TerminalEmitted
      /\ \/ t.wire = Append(b.wire, ev) /\ t.err = "nil" /\ ~t.writeFailure
         \/ t.wire = b.wire /\ t.err = "write" /\ t.writeFailure
  BY <1>1, <1>3, <1>4, <1>5, <1>6, EmitFields
<1>8. SameState(t, s)
  BY <1>3, <1>7 DEF SameState
<1>9. CASE t.wire = b.wire /\ t.err = "write" /\ t.writeFailure
  BY <1>3, <1>7, <1>8, <1>9, WriteFails DEF Stopped
<1>10. CASE t.wire = Append(b.wire, ev) /\ t.err = "nil" /\ ~t.writeFailure
  <2>1. s.wire \in Seq(WireEvent) /\ ev \in WireEvent /\ t.wire = Append(s.wire, ev)
    BY <1>2, <1>3, <1>6, <1>10 DEF Session, WireEvent
  <2>2. ev.type = type /\ ev.key = NoKey
    OBVIOUS
  <2>. HIDE DEF ev
  <2>3. /\ Len(s.wire) \in Nat /\ Len(s.wire) >= 2 /\ Len(t.wire) = Len(s.wire) + 1
        /\ \A i \in 1..Len(s.wire) : t.wire[i] = s.wire[i]
        /\ t.wire[Len(t.wire)] = ev
    BY <2>1, AppendFacts DEF Live, Running
  <2>4. Envelope(t.wire)
    <3>1. Envelope(s.wire) /\ Unended(s.wire)
      BY DEF Live, Sound, Running
    <3>2. ~(ev.type = "created") /\ ~(Len(s.wire) = 0) /\ ~(ev.type = "in_progress")
      BY <1>6, <2>2, <2>3
    <3>. QED
      BY <2>1, <3>1, <3>2, EnvelopeAppend
  <2>5. /\ CloseOnce(t.wire)
        /\ \A k \in Keys : /\ Announced(s.wire, k) => Announced(t.wire, k)
                           /\ OnlyClosing(s.wire, k) => OnlyClosing(t.wire, k)
    BY <2>1, <2>2, NoKeyAppend DEF Live, Sound
  <2>6. Sound(t)
    BY <1>7, <1>8, <2>4, <2>5, BudgetSame DEF Live, Sound
  <2>7. ASSUME NEW k \in Keys, ~Announced(t.wire, k)
        PROVE  /\ Unannounced(t, k)
               /\ \A i \in 1..Len(t.wire) : t.wire[i].type \notin {"completed", "incomplete"}
    <3>1. fresh /\ Unannounced(s, k)
      BY <2>5, <2>7 DEF Live, Shown
    <3>2. Unannounced(t, k)
      BY <1>8, <2>5, <3>1 DEF Unannounced, SameState
    <3>3. \A i \in 1..Len(s.wire) : s.wire[i].type \notin {"completed", "incomplete"}
      BY DEF Live, Running, Unended, TerminalTypes
    <3>4. \A i \in 1..Len(t.wire) : i \in 1..Len(s.wire) \/ i = Len(t.wire)
      BY <2>3
    <3>. QED
      BY <1>6, <2>2, <2>3, <3>1, <3>2, <3>3, <3>4
  <2>. QED
    BY <1>7, <1>8, <1>10, <2>2, <2>3, <2>6, <2>7 DEF Ending, Ended, SameState
<1>. QED
  BY <1>7, <1>9, <1>10

\* A transition error ends the session, wherever it strikes.
LEMMA InvalidStops ==
    ASSUME NEW s, Live(s, FALSE, 0), NEW t \in invalidTransitionLocked(s)
    PROVE  Stopped(t)
<1>. DEFINE Rest(x) == Then(writeTerminalLocked(x, "failed"), LAMBDA y : Error(y, "transition"))
<1>1. PICK x \in ensureStartedLocked(s) : IF x.err = "nil" THEN t \in Rest(x) ELSE t = x
  BY DEF invalidTransitionLocked, Then
<1>2. t \in Rest(x) => \E y \in writeTerminalLocked(x, "failed") :
                          IF y.err = "nil" THEN t \in Error(y, "transition") ELSE t = y
  BY DEF Then
<1>. HIDE DEF Rest
<1>3. Stopped(x) \/ (Live(x, FALSE, 0) /\ x.started)
  BY EnsureLive
<1>4. CASE Stopped(x)
  BY <1>1, <1>4 DEF Stopped
<1>5. CASE Live(x, FALSE, 0) /\ x.started
  <2>1. PICK y \in writeTerminalLocked(x, "failed") :
           IF y.err = "nil" THEN t \in Error(y, "transition") ELSE t = y
    BY <1>1, <1>2, <1>5 DEF Live, Running
  <2>2. "failed" \in TerminalTypes /\ "transition" \in Errors
    BY DEF TerminalTypes, Errors
  <2>3. Stopped(y) \/ (y.err = "nil" /\ Ending(y))
    BY <1>5, <2>2, TerminalEnding
  <2>4. CASE Stopped(y)
    BY <2>1, <2>4 DEF Stopped
  <2>5. CASE y.err = "nil" /\ Ending(y)
    <3>1. t \in Error(y, "transition")
      BY <2>1, <2>5
    <3>2. Ending(t) /\ t.err = "transition"
      BY <2>2, <2>5, <3>1, ErrorEnding
    <3>. QED
      BY <3>2 DEF Stopped, Dead
  <2>. QED
    BY <2>3, <2>4, <2>5
<1>. QED
  BY <1>3, <1>4, <1>5

-----------------------------------------------------------------------------
(* All items.                                                              *)

\* finishItemLocked closes item i, unless a write fails or its identity is missing.
LEMMA FinishItemLive ==
    ASSUME NEW s, NEW fresh \in BOOLEAN, Live(s, fresh, 0), s.started, FreshTool(s, fresh),
           NEW i \in 1..Len(s.itemOrder), NEW requireIdentity \in BOOLEAN,
           requireIdentity => ~fresh /\ NamedIfDone(s),
           NEW t \in finishItemLocked(s, i, requireIdentity)
    PROVE  \/ Stopped(t)
           \/ /\ Live(t, fresh, 0) /\ t.started /\ Finished(t, s, {i})
              /\ requireIdentity => NamedIfDone(t)
<1>. DEFINE item == s.itemOrder[i]
<1>1. CASE item.itemDone
  <2>1. t = s
    BY <1>1 DEF finishItemLocked
  <2>2. Finished(s, s, {i})
    BY <1>1 DEF Finished
  <2>. QED
    BY <2>1, <2>2
<1>2. CASE ~item.itemDone /\ item.key \in TextKeys
  <2>1. t \in finishTextItemLocked(s, i)
    BY <1>2 DEF finishItemLocked
  <2>2. Stopped(t) \/ (Live(t, fresh, 0) /\ t.started /\ Finished(t, s, {i}))
    BY <1>2, <2>1, FinishTextLive
  <2>3. Finished(t, s, {i}) /\ requireIdentity => NamedIfDone(t)
    BY <1>2, SessionAssumption DEF Finished, NamedIfDone
  <2>. QED
    BY <2>2, <2>3
<1>3. CASE ~item.itemDone /\ item.key \notin TextKeys /\ requireIdentity /\ ~item.named
  <2>1. t \in invalidTransitionLocked(s) /\ Live(s, FALSE, 0)
    BY <1>3 DEF finishItemLocked
  <2>. QED
    BY <2>1, InvalidStops
<1>4. CASE ~item.itemDone /\ item.key \notin TextKeys /\ ~(requireIdentity /\ ~item.named)
  <2>1. t \in finishToolItemLocked(s, i)
    BY <1>4 DEF finishItemLocked
  <2>2. Stopped(t) \/ (Live(t, fresh, 0) /\ t.started /\ Finished(t, s, {i}))
    BY <1>4, <2>1, FinishToolLive
  <2>3. Finished(t, s, {i}) /\ requireIdentity => NamedIfDone(t)
    BY <1>4 DEF Finished, NamedIfDone
  <2>. QED
    BY <2>2, <2>3
<1>. QED
  BY <1>1, <1>2, <1>3, <1>4

\* One more item of the loop, and the loop as a function of the items so far.
FinishNext(S, i, requireIdentity) == Then(S, LAMBDA x : finishItemLocked(x, i, requireIdentity))

FinishStep(s, requireIdentity, g, n) ==
    IF n = 0 THEN {s} ELSE FinishNext(g[n - 1], n, requireIdentity)

FinishFrom(s, requireIdentity, m, g) == g = [n \in 0..m |-> FinishStep(s, requireIdentity, g, n)]

\* The loop of finishItemsLocked computes something.
LEMMA FinishExists ==
    ASSUME NEW s, NEW requireIdentity, NEW m \in Nat
    PROVE  \E g : FinishFrom(s, requireIdentity, m, g)
<1>. DEFINE r == requireIdentity
            Good == {n \in 0..m : \E g : FinishFrom(s, r, n, g)}
<1>1. 0 \in Good
  <2>. DEFINE g == [n \in 0..0 |-> {s}]
  <2>1. g = [n \in 0..0 |-> FinishStep(s, r, g, n)]
    BY DEF FinishStep
  <2>2. FinishFrom(s, r, 0, g)
    BY <2>1 DEF FinishFrom
  <2>. QED
    BY <2>2
<1>2. ASSUME NEW n \in 0..m, n < m, n \in Good
      PROVE  n + 1 \in Good
  <2>1. PICK g : FinishFrom(s, r, n, g)
    BY <1>2
  <2>. DEFINE h == [j \in 0..(n + 1) |-> IF j =< n THEN g[j] ELSE FinishStep(s, r, g, j)]
  <2>2. \A j \in 0..n : g[j] = FinishStep(s, r, g, j)
    BY <2>1 DEF FinishFrom
  <2>3. \A j \in 0..(n + 1) : h[j] = FinishStep(s, r, g, j)
    BY <2>2
  <2>4. \A j \in 0..n : h[j] = g[j]
    OBVIOUS
  <2>. HIDE DEF h
  <2>5. \A j \in 0..(n + 1) : FinishStep(s, r, g, j) = FinishStep(s, r, h, j)
    BY <2>4 DEF FinishStep
  <2>6. h = [j \in 0..(n + 1) |-> FinishStep(s, r, h, j)]
    <3>1. \A j \in 0..(n + 1) : h[j] = FinishStep(s, r, h, j)
      BY <2>3, <2>5
    <3>2. h = [j \in 0..(n + 1) |-> h[j]]
      BY DEF h
    <3>. QED
      BY <3>1, <3>2
  <2>7. FinishFrom(s, r, n + 1, h)
    BY <2>6 DEF FinishFrom
  <2>. QED
    BY <1>2, <2>7
<1>3. \A n \in 0..m : n \in Good
  <2>. HIDE DEF Good
  <2>. QED
    BY <1>1, <1>2, UpToInduction
<1>. QED
  BY <1>3

\* finishItemsLocked closes every item, or stops where a write fails or an identity is
\* missing.
LEMMA FinishItemsLive ==
    ASSUME NEW s, NEW fresh \in BOOLEAN, Live(s, fresh, 0), s.started, FreshTool(s, fresh),
           NEW requireIdentity \in BOOLEAN, requireIdentity => ~fresh /\ NamedIfDone(s),
           NEW t \in finishItemsLocked(s, requireIdentity)
    PROVE  \/ Stopped(t)
           \/ /\ Live(t, fresh, 0) /\ t.started /\ Finished(t, s, 1..Len(s.itemOrder))
              /\ requireIdentity => NamedIfDone(t)
<1>. DEFINE r == requireIdentity
            m == Len(s.itemOrder)
            g == CHOOSE g : g = [n \in 0..m |-> FinishStep(s, r, g, n)]
            Reached(x, n) == \/ Stopped(x)
                             \/ /\ Live(x, fresh, 0) /\ x.started /\ Finished(x, s, 1..n)
                                /\ r => NamedIfDone(x)
            Good == {n \in 0..m : \A x \in g[n] : Reached(x, n)}
<1>1. m \in Nat
  BY DEF Live, Sound, Session
<1>2. t \in g[m]
  BY DEF finishItemsLocked, FinishStep, FinishNext
<1>3. g = [n \in 0..m |-> FinishStep(s, r, g, n)]
  <2>1. \E f : f = [n \in 0..m |-> FinishStep(s, r, f, n)]
    BY <1>1, FinishExists DEF FinishFrom
  <2>. QED
    BY <2>1
<1>. HIDE DEF g
<1>4. \A n \in 0..m : g[n] = FinishStep(s, r, g, n)
  BY <1>3
<1>5. 0 \in Good
  <2>1. g[0] = {s} /\ 0 \in 0..m
    BY <1>1, <1>4 DEF FinishStep
  <2>2. Finished(s, s, 1..0)
    BY DEF Finished
  <2>. QED
    BY <2>1, <2>2
<1>6. ASSUME NEW n \in 0..m, n < m, n \in Good
      PROVE  n + 1 \in Good
  <2>1. n + 1 \in 0..m /\ n + 1 \in 1..m /\ n + 1 # 0 /\ (n + 1) - 1 = n
    BY <1>1, <1>6
  <2>2. g[n + 1] = FinishNext(g[n], n + 1, r)
    BY <1>4, <2>1 DEF FinishStep
  <2>3. ASSUME NEW x \in g[n + 1]
        PROVE  Reached(x, n + 1)
    <3>1. PICK y \in g[n] : IF y.err = "nil" THEN x \in finishItemLocked(y, n + 1, r) ELSE x = y
      BY <2>2, <2>3 DEF FinishNext, Then
    <3>2. Reached(y, n)
      BY <1>6
    <3>3. CASE Stopped(y)
      BY <3>1, <3>3 DEF Stopped
    <3>4. CASE /\ Live(y, fresh, 0) /\ y.started /\ Finished(y, s, 1..n)
               /\ r => NamedIfDone(y)
      <4>1. x \in finishItemLocked(y, n + 1, r)
        BY <3>1, <3>4 DEF Live, Running
      <4>2. n + 1 \in 1..Len(y.itemOrder) /\ FreshTool(y, fresh)
        <5>1. Len(y.itemOrder) = m
          BY <3>4 DEF Finished
        <5>. QED
          BY <1>1, <2>1, <3>4, <5>1 DEF FreshTool, Finished
      <4>3. \/ Stopped(x)
            \/ /\ Live(x, fresh, 0) /\ x.started /\ Finished(x, y, {n + 1})
               /\ r => NamedIfDone(x)
        BY <3>4, <4>1, <4>2, FinishItemLive
      <4>4. Finished(x, y, {n + 1}) => Finished(x, s, 1..(n + 1))
        <5>1. \A j \in 1..m : j \in 1..(n + 1) <=> (j \in 1..n \/ j \in {n + 1})
          BY <1>1
        <5>. QED
          BY <3>4, <5>1 DEF Finished
      <4>. QED
        BY <4>3, <4>4
    <3>. QED
      BY <3>2, <3>3, <3>4
  <2>. QED
    BY <2>1, <2>3
<1>7. \A n \in 0..m : n \in Good
  <2>. HIDE DEF Good
  <2>. QED
    BY <1>1, <1>5, <1>6, UpToInduction
<1>. QED
  BY <1>1, <1>2, <1>7

\* A limit ends the session with every item closed, also one that was not announced.
LEMMA LimitStops ==
    ASSUME NEW s, NEW fresh \in BOOLEAN, Live(s, fresh, 0), FreshTool(s, fresh),
           NEW t \in limitLocked(s)
    PROVE  Stopped(t)
<1>. DEFINE End(y) == Then(writeTerminalLocked(y, "failed"), LAMBDA z : Error(z, "limit"))
            Rest(x) == Then(finishItemsLocked(x, FALSE), LAMBDA y : End(y))
<1>1. PICK x \in ensureStartedLocked(s) : IF x.err = "nil" THEN t \in Rest(x) ELSE t = x
  BY DEF limitLocked, Then
<1>2. t \in Rest(x) => \E y \in finishItemsLocked(x, FALSE) :
                          IF y.err = "nil" THEN t \in End(y) ELSE t = y
  BY DEF Then
<1>3. \A y : t \in End(y) => \E z \in writeTerminalLocked(y, "failed") :
                                IF z.err = "nil" THEN t \in Error(z, "limit") ELSE t = z
  BY DEF Then
<1>. HIDE DEF Rest, End
<1>4. Stopped(x) \/ (Live(x, fresh, 0) /\ x.started /\ SameState(x, s))
  BY EnsureLive
<1>5. CASE Stopped(x)
  BY <1>1, <1>5 DEF Stopped
<1>6. CASE Live(x, fresh, 0) /\ x.started /\ SameState(x, s)
  <2>1. FreshTool(x, fresh)
    BY <1>6 DEF FreshTool, SameState
  <2>2. PICK y \in finishItemsLocked(x, FALSE) : IF y.err = "nil" THEN t \in End(y) ELSE t = y
    BY <1>1, <1>2, <1>6 DEF Live, Running
  <2>3. Stopped(y) \/ (Live(y, fresh, 0) /\ y.started /\ Finished(y, x, 1..Len(x.itemOrder)))
    BY <1>6, <2>1, FinishItemsLive
  <2>4. CASE Stopped(y)
    BY <2>2, <2>4 DEF Stopped
  <2>5. CASE Live(y, fresh, 0) /\ y.started /\ Finished(y, x, 1..Len(x.itemOrder))
    <3>1. PICK z \in writeTerminalLocked(y, "failed") :
             IF z.err = "nil" THEN t \in Error(z, "limit") ELSE t = z
      BY <1>3, <2>2, <2>5 DEF Live, Running
    <3>2. "failed" \in TerminalTypes /\ "limit" \in Errors
      BY DEF TerminalTypes, Errors
    <3>3. \/ Stopped(z)
          \/ /\ z.err = "nil" /\ Ending(z) /\ z.wire[Len(z.wire)].type = "failed"
             /\ z.itemOrder = y.itemOrder
      BY <2>5, <3>2, TerminalEnding
    <3>4. CASE Stopped(z)
      BY <3>1, <3>4 DEF Stopped
    <3>5. CASE /\ z.err = "nil" /\ Ending(z) /\ z.wire[Len(z.wire)].type = "failed"
               /\ z.itemOrder = y.itemOrder
      <4>1. t \in Error(z, "limit")
        BY <3>1, <3>5
      <4>2. Ending(t) /\ t.err = "limit" /\ t.itemOrder = z.itemOrder /\ t.wire = z.wire
        BY <3>2, <3>5, <4>1, ErrorEnding
      <4>3. AllClosed(t)
        BY <2>5, <3>5, <4>2 DEF AllClosed, Finished
      <4>. QED
        BY <4>2, <4>3 DEF Stopped, Dead
    <3>. QED
      BY <3>3, <3>4, <3>5
  <2>. QED
    BY <2>3, <2>4, <2>5
<1>. QED
  BY <1>4, <1>5, <1>6

\* completedLocked, incompleteLocked and failedLocked.
LEMMA EndDead ==
    ASSUME NEW s, Live(s, FALSE, 0), NamedIfDone(s), NEW type \in TerminalTypes,
           NEW t \in endLocked(s, type)
    PROVE  Dead(t)
<1>. DEFINE r == type = "completed"
            Rest(x) == Then(finishItemsLocked(x, r), LAMBDA y : writeTerminalLocked(y, type))
<1>1. PICK x \in ensureStartedLocked(s) : IF x.err = "nil" THEN t \in Rest(x) ELSE t = x
  BY DEF endLocked, Then
<1>2. t \in Rest(x) => \E y \in finishItemsLocked(x, r) :
                          IF y.err = "nil" THEN t \in writeTerminalLocked(y, type) ELSE t = y
  BY DEF Then
<1>. HIDE DEF Rest
<1>3. Stopped(x) \/ (Live(x, FALSE, 0) /\ x.started /\ SameState(x, s))
  BY EnsureLive
<1>4. CASE Stopped(x)
  BY <1>1, <1>4 DEF Stopped
<1>5. CASE Live(x, FALSE, 0) /\ x.started /\ SameState(x, s)
  <2>1. FreshTool(x, FALSE) /\ NamedIfDone(x)
    BY <1>5 DEF FreshTool, NamedIfDone, SameState
  <2>2. PICK y \in finishItemsLocked(x, r) :
           IF y.err = "nil" THEN t \in writeTerminalLocked(y, type) ELSE t = y
    BY <1>1, <1>2, <1>5 DEF Live, Running
  <2>3. r \in BOOLEAN
    OBVIOUS
  <2>4. \/ Stopped(y)
        \/ /\ Live(y, FALSE, 0) /\ y.started /\ Finished(y, x, 1..Len(x.itemOrder))
           /\ r => NamedIfDone(y)
    <3>. HIDE DEF r
    <3>. QED
      BY <1>5, <2>1, <2>2, <2>3, FinishItemsLive
  <2>5. CASE Stopped(y)
    BY <2>2, <2>5 DEF Stopped
  <2>6. CASE /\ Live(y, FALSE, 0) /\ y.started /\ Finished(y, x, 1..Len(x.itemOrder))
             /\ r => NamedIfDone(y)
    <3>1. t \in writeTerminalLocked(y, type)
      BY <2>2, <2>6 DEF Live, Running
    <3>2. \/ Stopped(t)
          \/ /\ Ending(t) /\ t.wire[Len(t.wire)].type = type /\ t.itemOrder = y.itemOrder
      BY <2>6, <3>1, TerminalEnding, ZenonT(60)
    <3>3. \A i \in 1..Len(y.itemOrder) : y.itemOrder[i].itemDone
      BY <2>6 DEF Finished
    <3>4. t.wire[Len(t.wire)].type = type /\ t.itemOrder = y.itemOrder => AllClosed(t)
      BY <2>6, <3>3 DEF AllClosed, NamedIfDone
    <3>. QED
      BY <3>2, <3>4 DEF Stopped, Dead
  <2>. QED
    BY <2>4, <2>5, <2>6
<1>. QED
  BY <1>3, <1>4, <1>5 DEF Stopped

-----------------------------------------------------------------------------
(* Bytes.                                                                  *)

Total(items, ks) == SumOf(Retained(items, ks), 1..Len(items))

\* What the items retain is a natural number.
LEMMA RetainedFacts ==
    ASSUME NEW items \in Seq(Item), NEW ks
    PROVE  /\ Len(items) \in Nat /\ IsFiniteSet(1..Len(items))
           /\ \A i \in 1..Len(items) : Retained(items, ks)[i] \in Nat
           /\ Total(items, ks) \in Nat
<1>1. Len(items) \in Nat /\ IsFiniteSet(1..Len(items))
  BY FS_Interval
<1>2. ASSUME NEW i \in 1..Len(items)
      PROVE  Retained(items, ks)[i] \in Nat
  <2>1. items[i] \in Item
    OBVIOUS
  <2>. QED
    BY <2>1 DEF Retained, Item
<1>3. Total(items, ks) \in Nat
  BY <1>1, <1>2, SumTake DEF Total
<1>. QED
  BY <1>1, <1>2, <1>3

\* A new item retains nothing.
LEMMA TotalAppend ==
    ASSUME NEW items \in Seq(Item), NEW ks, NEW item \in Item, item.bytes = 0,
           NEW new, new = Append(items, item)
    PROVE  Total(new, ks) = Total(items, ks)
<1>. DEFINE n == Len(items)
            S == 1..(n + 1)
            w == Retained(new, ks)
<1>1. /\ new \in Seq(Item) /\ n \in Nat /\ Len(new) = n + 1
      /\ \A i \in 1..n : new[i] = items[i]
      /\ new[n + 1] = item
  OBVIOUS
<1>2. w[n + 1] = 0
  BY <1>1 DEF Retained
<1>3. \A i \in 1..n : w[i] = Retained(items, ks)[i]
  BY <1>1 DEF Retained
<1>4. IsFiniteSet(S) /\ \A i \in S : w[i] \in Nat
  BY <1>1, RetainedFacts
<1>5. S \ {n + 1} = 1..n /\ n + 1 \in S
  BY <1>1
<1>6. IsFiniteSet(1..n)
  BY <1>1, FS_Interval
<1>. HIDE DEF w, S
<1>7. SumOf(w, S) = w[n + 1] + SumOf(w, 1..n)
  <2>1. \A x \in S : SumOf(w, S) = w[x] + SumOf(w, S \ {x})
    BY <1>4, SumTake
  <2>2. SumOf(w, S) = w[n + 1] + SumOf(w, S \ {n + 1})
    BY <1>5, <2>1
  <2>. QED
    BY <1>5, <2>2, Zenon
<1>8. SumOf(w, 1..n) = SumOf(Retained(items, ks), 1..n)
  BY <1>3, <1>6, SumCongruent
<1>9. SumOf(Retained(items, ks), 1..n) \in Nat
  BY RetainedFacts DEF Total
<1>10. Total(new, ks) = SumOf(w, S) /\ Total(items, ks) = SumOf(Retained(items, ks), 1..n)
  BY <1>1 DEF Total, w, S
<1>. QED
  BY <1>2, <1>7, <1>8, <1>9, <1>10

\* What one item retains is part of the total, and changes it by as much as it changes.
LEMMA TotalReplace ==
    ASSUME NEW items \in Seq(Item), NEW ks, NEW i \in 1..Len(items),
           NEW new \in Seq(Item), Len(new) = Len(items), new[i].key = items[i].key,
           \A j \in 1..Len(items) : j # i => new[j] = items[j]
    PROVE  IF items[i].key \in ks
           THEN /\ items[i].bytes =< Total(items, ks)
                /\ Total(new, ks) = Total(items, ks) - items[i].bytes + new[i].bytes
           ELSE Total(new, ks) = Total(items, ks)
<1>. DEFINE S == 1..Len(items)
            w == Retained(items, ks)
            v == Retained(new, ks)
            R == S \ {i}
<1>1. IsFiniteSet(S) /\ (\A j \in S : w[j] \in Nat) /\ \A j \in S : v[j] \in Nat
  BY RetainedFacts
<1>2. IsFiniteSet(R) /\ R \in SUBSET S
  BY <1>1, FS_Subset
<1>3. \A j \in R : w[j] = v[j]
  BY DEF Retained
<1>4. IF items[i].key \in ks THEN w[i] = items[i].bytes /\ v[i] = new[i].bytes
      ELSE w[i] = 0 /\ v[i] = 0
  BY DEF Retained
<1>. HIDE DEF w, v, R
<1>5. SumOf(w, S) = w[i] + SumOf(w, R) /\ SumOf(v, S) = v[i] + SumOf(v, R)
  BY <1>1, SumTake DEF R
<1>6. SumOf(w, R) = SumOf(v, R)
  BY <1>2, <1>3, SumCongruent
<1>7. SumOf(w, R) \in Nat
  <2>1. \A j \in R : w[j] \in Nat
    BY <1>1, <1>2
  <2>. QED
    BY <1>2, <2>1, SumTake
<1>8. w[i] \in Nat /\ v[i] \in Nat
  BY <1>1
<1>9. Total(items, ks) = SumOf(w, S) /\ Total(new, ks) = SumOf(v, S)
  BY DEF Total, w, v
<1>. QED
  BY <1>4, <1>5, <1>6, <1>7, <1>8, <1>9

\* The budget in terms of the totals.
LEMMA BudgetTotals ==
    ASSUME NEW s
    PROVE  Budget(s) <=>
              /\ \A i \in 1..Len(s.itemOrder) :
                    s.itemOrder[i].key \in ToolKeys
                       => s.itemOrder[i].bytes =< MaxToolCallArgumentBytes
              /\ s.textBytes = Total(s.itemOrder, TextKeys)
              /\ s.outputBytes = Total(s.itemOrder, Keys)
              /\ s.aggregateBytes >= s.outputBytes + s.reasoningBytes + Len(s.itemOrder) * ItemCost
BY DEF Budget, Total

\* The counters and their ranges.
LEMMA Counters ==
    ASSUME NEW s \in Session
    PROVE  /\ s.aggregateBytes \in Nat /\ s.aggregateBytes =< MaxAggregateBytes
           /\ s.outputBytes \in Nat /\ s.outputBytes =< MaxOutputBytes
           /\ s.textBytes \in Nat /\ s.textBytes =< MaxTextBytes
           /\ s.reasoningBytes \in Nat /\ s.reasoningBytes =< MaxReasoningBytes
           /\ Len(s.itemOrder) \in Nat /\ Len(s.itemOrder) * ItemCost \in Nat
           /\ (Len(s.itemOrder) + 1) * ItemCost = Len(s.itemOrder) * ItemCost + ItemCost
           /\ ItemCost \in Nat
<1>1. /\ s.aggregateBytes \in 0..MaxAggregateBytes /\ s.outputBytes \in 0..MaxOutputBytes
      /\ s.textBytes \in 0..MaxTextBytes /\ s.reasoningBytes \in 0..MaxReasoningBytes
      /\ Len(s.itemOrder) \in Nat
  BY DEF Session
<1>2. /\ MaxAggregateBytes \in Nat /\ MaxOutputBytes \in Nat /\ MaxTextBytes \in Nat
      /\ MaxReasoningBytes \in Nat /\ ItemCost \in Nat
  BY SessionAssumption
<1>3. \A n, c \in Nat : n * c \in Nat /\ (n + 1) * c = n * c + c
  OBVIOUS
<1>. QED
  BY <1>1, <1>2, <1>3

\* Other fields for item i, and counters that agree with them and keep to the limits.
Affordable(s, i, item, a, o, x) ==
    /\ i \in 1..Len(s.itemOrder) /\ item \in Item /\ item.key = s.itemOrder[i].key
    /\ item.itemDone <=> s.itemOrder[i].itemDone
    /\ s.itemOrder[i].named => item.named
    /\ item.key \in ToolKeys => item.bytes =< MaxToolCallArgumentBytes
    /\ a \in Nat /\ s.aggregateBytes =< a /\ a =< MaxAggregateBytes
    /\ o \in Nat /\ o =< MaxOutputBytes /\ a - s.aggregateBytes >= o - s.outputBytes
    /\ o = s.outputBytes - s.itemOrder[i].bytes + item.bytes
    /\ x \in Nat /\ x =< MaxTextBytes
    /\ x = IF item.key \in TextKeys THEN s.textBytes - s.itemOrder[i].bytes + item.bytes
           ELSE s.textBytes

\* Bytes that are charged and counted go to one open item.
LEMMA UpdateLive ==
    ASSUME NEW s, NEW fresh, Live(s, fresh, 0), s.started,
           NEW i, NEW item, NEW a, NEW o, NEW x, Affordable(s, i, item, a, o, x),
           NEW t, t = Updated(s, i, item, a, o, x)
    PROVE  Live(t, fresh, 0) /\ t.started /\ Replaced(t, s, i, item)
<1>. USE DEF Affordable
<1>1. s \in Session /\ Budget(s)
  BY DEF Live, Sound
<1>2. a \in 0..MaxAggregateBytes /\ o \in 0..MaxOutputBytes /\ x \in 0..MaxTextBytes
  BY SessionAssumption
<1>3. /\ Alike(t, s) /\ Replaced(t, s, i, item)
      /\ t.aggregateBytes = a /\ t.outputBytes = o
      /\ t.textBytes = x /\ t.reasoningBytes = s.reasoningBytes
  BY <1>1, <1>2, UpdateItem
<1>4. /\ t.itemOrder \in Seq(Item) /\ Len(t.itemOrder) = Len(s.itemOrder)
      /\ t.itemOrder[i] = item
      /\ \A j \in 1..Len(s.itemOrder) : j # i => t.itemOrder[j] = s.itemOrder[j]
  BY <1>3 DEF Replaced
<1>5. /\ s.itemOrder \in Seq(Item) /\ s.itemOrder[i].key \in Keys /\ s.itemOrder[i].bytes \in Nat
      /\ item.bytes \in Nat
  BY <1>1, ItemFields DEF Item
<1>6. /\ \A j \in 1..Len(s.itemOrder) :
            s.itemOrder[j].key \in ToolKeys => s.itemOrder[j].bytes =< MaxToolCallArgumentBytes
      /\ s.textBytes = Total(s.itemOrder, TextKeys)
      /\ s.outputBytes = Total(s.itemOrder, Keys)
      /\ s.aggregateBytes >= s.outputBytes + s.reasoningBytes + Len(s.itemOrder) * ItemCost
  BY <1>1, BudgetTotals
<1>7. \A ks : IF s.itemOrder[i].key \in ks
              THEN Total(t.itemOrder, ks) = Total(s.itemOrder, ks) - s.itemOrder[i].bytes + item.bytes
              ELSE Total(t.itemOrder, ks) = Total(s.itemOrder, ks)
  <2>. DEFINE items == s.itemOrder
              new == t.itemOrder
  <2>1. /\ items \in Seq(Item) /\ i \in 1..Len(items) /\ new \in Seq(Item)
        /\ Len(new) = Len(items) /\ new[i].key = items[i].key
        /\ \A j \in 1..Len(items) : j # i => new[j] = items[j]
    BY <1>4, <1>5
  <2>. HIDE DEF items, new
  <2>2. \A ks : IF items[i].key \in ks
                THEN Total(new, ks) = Total(items, ks) - items[i].bytes + new[i].bytes
                ELSE Total(new, ks) = Total(items, ks)
    BY <2>1, TotalReplace
  <2>. QED
    BY <1>4, <2>2 DEF items, new
<1>8. o = Total(t.itemOrder, Keys) /\ x = Total(t.itemOrder, TextKeys)
  BY <1>5, <1>6, <1>7
<1>9. t.aggregateBytes >= t.outputBytes + t.reasoningBytes + Len(t.itemOrder) * ItemCost
  <2>1. /\ s.aggregateBytes \in Nat /\ s.outputBytes \in Nat /\ s.reasoningBytes \in Nat
        /\ Len(s.itemOrder) * ItemCost \in Nat
    BY <1>1, Counters
  <2>. DEFINE c == Len(s.itemOrder) * ItemCost
  <2>2. Len(t.itemOrder) * ItemCost = c
    BY <1>4
  <2>. HIDE DEF c
  <2>3. s.aggregateBytes >= s.outputBytes + s.reasoningBytes + c
    BY <1>6 DEF c
  <2>4. c \in Nat
    BY <2>1 DEF c
  <2>5. a >= o + s.reasoningBytes + c
    BY <2>1, <2>3, <2>4, SMTT(60)
  <2>. QED
    BY <1>3, <2>2, <2>5
<1>10. \A j \in 1..Len(t.itemOrder) :
          t.itemOrder[j].key \in ToolKeys => t.itemOrder[j].bytes =< MaxToolCallArgumentBytes
  <2>1. item.key \in ToolKeys => item.bytes =< MaxToolCallArgumentBytes
    OBVIOUS
  <2>2. ASSUME NEW j \in 1..Len(t.itemOrder), t.itemOrder[j].key \in ToolKeys
        PROVE  t.itemOrder[j].bytes =< MaxToolCallArgumentBytes
    <3>1. CASE j = i
      BY <1>4, <2>1, <2>2, <3>1, Zenon
    <3>2. CASE j # i
      <4>1. j \in 1..Len(s.itemOrder) /\ t.itemOrder[j] = s.itemOrder[j]
        BY <1>4, <3>2, Zenon
      <4>. QED
        BY <1>6, <2>2, <4>1, Zenon
    <3>. QED
      BY <3>1, <3>2
  <2>. QED
    BY <2>2
<1>11. Budget(t)
  BY <1>3, <1>8, <1>9, <1>10, BudgetTotals
<1>12. Live(t, fresh, 0) /\ t.started
  <2>1. Live(t, fresh, 0)
    BY <1>3, <1>11, AlikeLive
  <2>. QED
    BY <1>3, <2>1 DEF Alike
<1>. QED
  BY <1>3, <1>12

\* An identity is not lost.
LEMMA UpdateNamed ==
    ASSUME NEW s, NamedIfDone(s), NEW i, NEW item, NEW a, NEW o, NEW x,
           Affordable(s, i, item, a, o, x), NEW t, Replaced(t, s, i, item)
    PROVE  NamedIfDone(t)
BY DEF NamedIfDone, Affordable, Replaced

\* Bytes that are charged, and counted as reasoning or not at all.
Charged(s, n, r) == [s EXCEPT !.aggregateBytes = s.aggregateBytes + n,
                              !.reasoningBytes = s.reasoningBytes + r]

\* A charge that fits leaves the session live.
LEMMA ChargeLive ==
    ASSUME NEW s, NEW fresh, Live(s, fresh, 0), NEW n \in Nat, Fits(s, n), NEW r \in Nat, r =< n,
           s.reasoningBytes + r =< MaxReasoningBytes, NEW t,
           t = Charged(s, n, r)
    PROVE  /\ Live(t, fresh, 0) /\ (t.started <=> s.started) /\ t.itemOrder = s.itemOrder
           /\ NamedIfDone(s) => NamedIfDone(t)
<1>1. s \in Session /\ Budget(s)
  BY DEF Live, Sound
<1>2. s.aggregateBytes \in Nat /\ s.outputBytes \in Nat /\ s.reasoningBytes \in Nat
  BY <1>1, Counters
<1>3. /\ s.aggregateBytes + n \in 0..MaxAggregateBytes
      /\ s.reasoningBytes + r \in 0..MaxReasoningBytes
  BY <1>2, SessionAssumption DEF Fits
<1>4. /\ t \in Session /\ t.itemOrder = s.itemOrder /\ t.wire = s.wire /\ t.err = s.err
      /\ t.outputBytes = s.outputBytes /\ t.textBytes = s.textBytes
      /\ t.aggregateBytes = s.aggregateBytes + n /\ t.reasoningBytes = s.reasoningBytes + r
  BY <1>1, <1>3 DEF Session, Charged
<1>5. t.started <=> s.started
  BY <1>1 DEF Session, Charged
<1>6. t.TerminalEmitted <=> s.TerminalEmitted
  BY <1>1 DEF Session, Charged
<1>7. t.writeFailure <=> s.writeFailure
  BY <1>1 DEF Session, Charged
<1>8. Alike(t, s)
  BY <1>4, <1>5, <1>6, <1>7 DEF Alike
<1>9. t.aggregateBytes >= t.outputBytes + t.reasoningBytes + Len(t.itemOrder) * ItemCost
  <2>. DEFINE c == Len(s.itemOrder) * ItemCost
  <2>1. Len(t.itemOrder) * ItemCost = c /\ c \in Nat
    BY <1>1, <1>4, Counters
  <2>2. s.aggregateBytes >= s.outputBytes + s.reasoningBytes + c
    BY <1>1, BudgetTotals
  <2>. HIDE DEF c
  <2>3. s.aggregateBytes + n >= s.outputBytes + (s.reasoningBytes + r) + c
    BY <1>2, <2>1, <2>2, SMTT(60)
  <2>. QED
    BY <1>4, <2>1, <2>3
<1>10. Budget(t)
  BY <1>1, <1>4, <1>9, BudgetTotals
<1>11. Live(t, fresh, 0)
  BY <1>8, <1>10, AlikeLive
<1>. QED
  BY <1>4, <1>5, <1>11 DEF NamedIfDone

-----------------------------------------------------------------------------
(* New items.                                                              *)

NewItem(k) == [key |-> k, named |-> FALSE, bytes |-> 0, contentDone |-> FALSE, itemDone |-> FALSE]

WithItem(s, k) == [Charge(s, ItemCost) EXCEPT !.itemOrder = Append(@, NewItem(k))]

\* The fields of a session with one more item.
LEMMA NewItemFields ==
    ASSUME NEW s, s \in Session, NEW k \in Keys, Fits(s, ItemCost), NEW t,
           t = WithItem(s, k)
    PROVE  /\ t \in Session /\ t.itemOrder = Append(s.itemOrder, NewItem(k))
           /\ t.aggregateBytes = s.aggregateBytes + ItemCost /\ t.outputBytes = s.outputBytes
           /\ t.textBytes = s.textBytes /\ t.reasoningBytes = s.reasoningBytes
           /\ t.wire = s.wire /\ t.err = s.err
           /\ t.started <=> s.started
           /\ t.TerminalEmitted <=> s.TerminalEmitted
           /\ t.writeFailure <=> s.writeFailure
<1>. DEFINE items == Append(s.itemOrder, NewItem(k))
            a == s.aggregateBytes + ItemCost
<1>1. s.aggregateBytes \in Nat /\ ItemCost \in Nat
  BY Counters
<1>2. a \in 0..MaxAggregateBytes
  BY <1>1, SessionAssumption DEF Fits
<1>3. NewItem(k) \in Item
  BY DEF NewItem, Item
<1>4. items \in Seq(Item)
  BY <1>3 DEF Session
<1>5. t = [s EXCEPT !.aggregateBytes = a, !.itemOrder = items]
  BY DEF WithItem, Charge, Session
<1>. HIDE DEF items, a
<1>6. t \in Session
  BY <1>2, <1>4, <1>5 DEF Session
<1>7. /\ t.itemOrder = items /\ t.aggregateBytes = a /\ t.outputBytes = s.outputBytes
      /\ t.textBytes = s.textBytes /\ t.reasoningBytes = s.reasoningBytes
      /\ t.wire = s.wire /\ t.err = s.err
  BY <1>5 DEF Session
<1>8. t.started <=> s.started
  BY <1>5 DEF Session
<1>9. t.TerminalEmitted <=> s.TerminalEmitted
  BY <1>5 DEF Session
<1>10. t.writeFailure <=> s.writeFailure
  BY <1>5 DEF Session
<1>. QED
  BY <1>6, <1>7, <1>8, <1>9, <1>10 DEF items, a

\* A new item has a key of its own, no events yet and nothing to retain.
LEMMA NewItemLive ==
    ASSUME NEW s, Live(s, FALSE, 0), s.started, NamedIfDone(s),
           NEW k \in Keys, ~Has(s, k), NEW t \in newItemLocked(s, k)
    PROVE  \/ Stopped(t)
           \/ /\ Live(t, TRUE, 0) /\ t.started /\ NamedIfDone(t)
              /\ Len(t.itemOrder) = Len(s.itemOrder) + 1
              /\ t.itemOrder[Len(t.itemOrder)] = NewItem(k)
<1>1. s \in Session /\ Budget(s)
  BY DEF Live, Sound
<1>2. CASE ~Fits(s, ItemCost)
  <2>1. t \in limitLocked(s) /\ FreshTool(s, FALSE)
    BY <1>2 DEF newItemLocked, FreshTool
  <2>. QED
    BY <2>1, LimitStops
<1>3. CASE Fits(s, ItemCost)
  <2>. DEFINE n == Len(s.itemOrder)
              item == NewItem(k)
  <2>1. t = WithItem(s, k)
    BY <1>3 DEF newItemLocked, WithItem, NewItem
  <2>2. /\ t \in Session /\ t.itemOrder = Append(s.itemOrder, NewItem(k))
        /\ t.aggregateBytes = s.aggregateBytes + ItemCost /\ t.outputBytes = s.outputBytes
        /\ t.textBytes = s.textBytes /\ t.reasoningBytes = s.reasoningBytes
        /\ t.wire = s.wire /\ t.err = s.err
        /\ t.started <=> s.started
        /\ t.TerminalEmitted <=> s.TerminalEmitted
        /\ t.writeFailure <=> s.writeFailure
    BY <1>1, <1>3, <2>1, NewItemFields
  <2>3. item \in Item /\ item.key = k /\ item.bytes = 0 /\ ~item.itemDone
    BY DEF NewItem, Item
  <2>4. s.itemOrder \in Seq(Item) /\ n \in Nat
    BY <1>1 DEF Session
  <2>. HIDE DEF item
  <2>5. /\ Len(t.itemOrder) = n + 1 /\ t.itemOrder[n + 1] = item
        /\ \A i \in 1..n : t.itemOrder[i] = s.itemOrder[i]
    <3>1. t.itemOrder = Append(s.itemOrder, item)
      BY <2>2 DEF item
    <3>. QED
      BY <2>3, <2>4, <3>1
  <2>6. \A i : i \in 1..(n + 1) <=> (i \in 1..n \/ i = n + 1)
    BY <2>4
  <2>7. Budget(t)
    <3>1. \A ks : Total(t.itemOrder, ks) = Total(s.itemOrder, ks)
      BY <2>2, <2>3, <2>4, TotalAppend DEF item
    <3>2. /\ \A i \in 1..n :
                s.itemOrder[i].key \in ToolKeys => s.itemOrder[i].bytes =< MaxToolCallArgumentBytes
          /\ s.textBytes = Total(s.itemOrder, TextKeys)
          /\ s.outputBytes = Total(s.itemOrder, Keys)
          /\ s.aggregateBytes >= s.outputBytes + s.reasoningBytes + n * ItemCost
      BY <1>1, BudgetTotals
    <3>3. \A i \in 1..Len(t.itemOrder) :
             t.itemOrder[i].key \in ToolKeys => t.itemOrder[i].bytes =< MaxToolCallArgumentBytes
      BY <2>3, <2>5, <2>6, <3>2, SessionAssumption
    <3>4. t.aggregateBytes >= t.outputBytes + t.reasoningBytes + Len(t.itemOrder) * ItemCost
      <4>. DEFINE c == n * ItemCost
      <4>1. /\ s.aggregateBytes \in Nat /\ s.outputBytes \in Nat /\ s.reasoningBytes \in Nat
            /\ c \in Nat /\ ItemCost \in Nat
        BY <1>1, Counters
      <4>2. Len(t.itemOrder) * ItemCost = c + ItemCost
        BY <1>1, <2>5, Counters
      <4>3. s.aggregateBytes >= s.outputBytes + s.reasoningBytes + c
        BY <3>2
      <4>. HIDE DEF c
      <4>4. s.aggregateBytes + ItemCost >= s.outputBytes + s.reasoningBytes + (c + ItemCost)
        BY <4>1, <4>3
      <4>. QED
        BY <2>2, <4>2, <4>4
    <3>. QED
      BY <2>2, <3>1, <3>2, <3>3, <3>4, BudgetTotals
  <2>8. Sound(t) /\ Running(t)
    BY <2>2, <2>7 DEF Live, Sound, Running
  <2>9. \A j : Seen(t.wire, j, k) => FALSE
    BY <2>2 DEF Live, Tracked, Seen
  <2>10. Tracked(t)
    <3>1. \A j : Has(s, j) => Has(t, j)
      BY <2>5, <2>6 DEF Has
    <3>2. \A i \in 1..n : s.itemOrder[i].key # k
      BY DEF Has
    <3>3. ASSUME NEW i \in 1..Len(t.itemOrder), NEW j \in 1..Len(t.itemOrder),
                 t.itemOrder[i].key = t.itemOrder[j].key
          PROVE  i = j
      <4>1. CASE i \in 1..n /\ j \in 1..n
        BY <2>5, <3>3, <4>1 DEF Live, Tracked
      <4>2. CASE i = n + 1 \/ j = n + 1
        BY <2>3, <2>5, <2>6, <3>2, <3>3, <4>2
      <4>. QED
        BY <2>5, <2>6, <4>1, <4>2
    <3>. QED
      BY <2>2, <3>1, <3>3 DEF Live, Tracked
  <2>11. Open(t, 0)
    BY <2>2, <2>3, <2>5, <2>6, <2>9 DEF Live, Open
  <2>12. Unannounced(t, k)
    <3>1. OnlyClosing(t.wire, k)
      BY <2>9 DEF OnlyClosing, Seen
    <3>2. Len(t.itemOrder) > 0
      BY <2>4, <2>5
    <3>. QED
      BY <2>3, <2>5, <3>1, <3>2 DEF Unannounced
  <2>13. Shown(t, TRUE)
    BY <2>2, <2>3, <2>5, <2>6, <2>12 DEF Live, Shown
  <2>14. NamedIfDone(t)
    BY <2>3, <2>5, <2>6 DEF NamedIfDone
  <2>. QED
    BY <2>2, <2>5, <2>8, <2>10, <2>11, <2>13, <2>14 DEF Live, item
<1>. QED
  BY <1>2, <1>3

\* Where an item is.
LEMMA AtFacts ==
    ASSUME NEW s, NEW k, Has(s, k)
    PROVE  At(s, k) \in 1..Len(s.itemOrder) /\ s.itemOrder[At(s, k)].key = k
BY DEF Has, At

\* A text item is announced before anything else happens to it.
LEMMA NewTextLive ==
    ASSUME NEW s, Live(s, FALSE, 0), s.started, NamedIfDone(s),
           NEW k \in Keys, ~Has(s, k), NEW t \in newTextItemLocked(s, k)
    PROVE  \/ Stopped(t)
           \/ /\ Live(t, FALSE, 0) /\ t.started /\ NamedIfDone(t)
              /\ Has(t, k) /\ ~ItemOf(t, k).itemDone
<1>. DEFINE Rest(x) == Then(Emit(x, "item.added", k), LAMBDA y : Emit(y, "part.added", k))
<1>1. PICK x \in newItemLocked(s, k) : IF x.err = "nil" THEN t \in Rest(x) ELSE t = x
  BY DEF newTextItemLocked, Then
<1>2. t \in Rest(x) => \E y \in Emit(x, "item.added", k) :
                          IF y.err = "nil" THEN t \in Emit(y, "part.added", k) ELSE t = y
  BY DEF Then
<1>. HIDE DEF Rest
<1>3. \/ Stopped(x)
      \/ /\ Live(x, TRUE, 0) /\ x.started /\ NamedIfDone(x)
         /\ Len(x.itemOrder) = Len(s.itemOrder) + 1
         /\ x.itemOrder[Len(x.itemOrder)] = NewItem(k)
  BY NewItemLive
<1>4. CASE Stopped(x)
  BY <1>1, <1>4 DEF Stopped
<1>5. CASE /\ Live(x, TRUE, 0) /\ x.started /\ NamedIfDone(x)
           /\ Len(x.itemOrder) = Len(s.itemOrder) + 1
           /\ x.itemOrder[Len(x.itemOrder)] = NewItem(k)
  <2>. DEFINE n == Len(x.itemOrder)
  <2>1. PICK y \in Emit(x, "item.added", k) :
           IF y.err = "nil" THEN t \in Emit(y, "part.added", k) ELSE t = y
    BY <1>1, <1>2, <1>5 DEF Live, Running
  <2>2. n > 0 /\ n \in 1..n /\ x.itemOrder[n].key = k /\ ~x.itemOrder[n].itemDone
    <3>1. Len(s.itemOrder) \in Nat
      BY DEF Live, Sound, Session
    <3>2. NewItem(k).key = k /\ ~NewItem(k).itemDone
      BY DEF NewItem
    <3>. QED
      BY <1>5, <3>1, <3>2
  <2>3. Stopped(y) \/ (Live(y, FALSE, 0) /\ y.started /\ SameState(y, x))
    BY <1>5, <2>1, <2>2, EmitAdded
  <2>4. CASE Stopped(y)
    BY <2>1, <2>4 DEF Stopped
  <2>5. CASE Live(y, FALSE, 0) /\ y.started /\ SameState(y, x)
    <3>1. t \in Emit(y, "part.added", k) /\ y.itemOrder = x.itemOrder
      BY <2>1, <2>5 DEF Live, Running, SameState
    <3>2. Stopped(t) \/ (Live(t, FALSE, 0) /\ t.started /\ SameState(t, y))
      BY <2>2, <2>5, <3>1, EmitPlain
    <3>3. CASE Live(t, FALSE, 0) /\ t.started /\ SameState(t, y)
      <4>1. t.itemOrder = x.itemOrder
        BY <3>1, <3>3 DEF SameState
      <4>2. NamedIfDone(t) /\ Has(t, k)
        BY <1>5, <2>2, <4>1 DEF NamedIfDone, Has
      <4>3. At(t, k) = n
        <5>1. At(t, k) \in 1..Len(t.itemOrder) /\ t.itemOrder[At(t, k)].key = k
          BY <4>2, AtFacts
        <5>. QED
          BY <2>2, <3>3, <4>1, <5>1 DEF Live, Tracked
      <4>. QED
        BY <2>2, <3>3, <4>1, <4>2, <4>3 DEF ItemOf
    <3>. QED
      BY <3>2, <3>3
  <2>. QED
    BY <2>3, <2>4, <2>5
<1>. QED
  BY <1>3, <1>4, <1>5

-----------------------------------------------------------------------------
(* The handlers.                                                           *)

\* What a call leaves behind.
InOrder(t) == Dead(t) \/ (Live(t, FALSE, 0) /\ NamedIfDone(t))

\* A session with an item has started.
LEMMA HasStarted ==
    ASSUME NEW s, NEW fresh, NEW c, Live(s, fresh, c), NEW k, Has(s, k)
    PROVE  s.started
BY DEF Live, Running, Has

\* The second half of textDeltaLocked.
LEMMA AppendTextInOrder ==
    ASSUME NEW s, Live(s, FALSE, 0), s.started, NamedIfDone(s), NEW k \in TextKeys, Has(s, k),
           ~ItemOf(s, k).itemDone, NEW n \in Nat, NEW t \in appendText(s, k, n)
    PROVE  InOrder(t)
<1>. DEFINE fits == ~(\/ n > MaxTextBytes - s.textBytes \/ n > MaxOutputBytes - s.outputBytes
                      \/ ~Fits(s, n))
<1>1. CASE ~fits
  <2>1. t \in limitLocked(s) /\ FreshTool(s, FALSE)
    BY <1>1 DEF appendText, FreshTool
  <2>. QED
    BY <2>1, LimitStops DEF InOrder, Stopped
<1>2. CASE fits
  <2>. DEFINE i == At(s, k)
              old == s.itemOrder[i]
              item == [old EXCEPT !.bytes = old.bytes + n]
              a == s.aggregateBytes + n
              o == s.outputBytes + n
              x == s.textBytes + n
              d == Updated(s, i, item, a, o, x)
  <2>1. s \in Session
    BY DEF Live, Sound
  <2>2. i \in 1..Len(s.itemOrder) /\ old.key = k /\ ~old.itemDone
    BY AtFacts DEF ItemOf
  <2>3. old \in Item /\ old.bytes \in Nat
    BY <2>1, <2>2, ItemFields
  <2>4. item \in Item /\ item.key = k /\ item.bytes = old.bytes + n
    BY <2>2, <2>3 DEF Item
  <2>5. item.itemDone <=> old.itemDone
    BY <2>3 DEF Item
  <2>6. item.named <=> old.named
    BY <2>3 DEF Item
  <2>7. t \in Emit(d, "delta", k)
    <3>1. t \in Emit([Charge(s, n) EXCEPT !.itemOrder[i].bytes = @ + n,
                                          !.textBytes = @ + n, !.outputBytes = @ + n], "delta", k)
      BY <1>2 DEF appendText
    <3>2. [Charge(s, n) EXCEPT !.itemOrder[i].bytes = @ + n, !.textBytes = @ + n,
                               !.outputBytes = @ + n] = d
      <4>. HIDE DEF i
      <4>. QED
        BY <2>1 DEF Charge, Updated, Session
    <3>. QED
      BY <3>1, <3>2
  <2>8. /\ s.aggregateBytes \in Nat /\ s.outputBytes \in Nat /\ s.textBytes \in Nat
        /\ k \notin ToolKeys
        /\ MaxTextBytes \in Nat /\ MaxOutputBytes \in Nat /\ MaxAggregateBytes \in Nat
    BY <2>1, Counters, SessionAssumption
  <2>9. /\ a \in Nat /\ s.aggregateBytes =< a /\ a =< MaxAggregateBytes
        /\ o \in Nat /\ o = s.outputBytes - old.bytes + item.bytes /\ o =< MaxOutputBytes
        /\ a - s.aggregateBytes >= o - s.outputBytes
        /\ x \in Nat /\ x =< MaxTextBytes
        /\ x = IF item.key \in TextKeys THEN s.textBytes - old.bytes + item.bytes ELSE s.textBytes
    <3>. HIDE DEF item
    <3>. QED
      BY <1>2, <2>3, <2>4, <2>8 DEF Fits
  <2>. HIDE DEF i, item, a, o, x, d
  <2>10. /\ Live(d, FALSE, 0) /\ d.started
         /\ Len(d.itemOrder) = Len(s.itemOrder) /\ d.itemOrder[i] = item
         /\ NamedIfDone(d)
    <3>1. item.key = old.key /\ (item.key \in ToolKeys => item.bytes =< MaxToolCallArgumentBytes)
      BY <2>2, <2>4, <2>8
    <3>2. Affordable(s, i, item, a, o, x)
      BY <2>2, <2>4, <2>5, <2>6, <2>9, <3>1 DEF Affordable
    <3>3. Live(d, FALSE, 0) /\ d.started /\ Replaced(d, s, i, item) /\ NamedIfDone(d)
      <4>1. d = Updated(s, i, item, a, o, x)
        BY DEF d
      <4>4. Live(d, FALSE, 0) /\ d.started /\ Replaced(d, s, i, item)
        BY <3>2, <4>1, UpdateLive, Zenon
      <4>5. NamedIfDone(d)
        BY <3>2, <4>4, UpdateNamed
      <4>. QED
        BY <4>4, <4>5
    <3>. QED
      BY <3>3 DEF Replaced
  <2>11. Stopped(t) \/ (Live(t, FALSE, 0) /\ SameState(t, d))
    BY <2>2, <2>4, <2>5, <2>7, <2>10, EmitPlain
  <2>. QED
    BY <2>10, <2>11 DEF InOrder, Stopped, NamedIfDone, SameState
<1>. QED
  BY <1>1, <1>2

\* textDeltaLocked.
LEMMA TextDeltaInOrder ==
    ASSUME NEW s, Live(s, FALSE, 0), NamedIfDone(s), NEW e \in Event, e.key \in TextKeys,
           NEW t \in textDeltaLocked(s, e)
    PROVE  InOrder(t)
<1>. DEFINE k == e.key
            n == e.bytes
            More(x) == Then(newTextItemLocked(x, k), LAMBDA y : appendText(y, k, n))
<1>1. PICK x \in ensureStartedLocked(s) :
         IF x.err = "nil"
         THEN t \in IF ~e.valid \/ (Has(x, k) /\ ItemOf(x, k).itemDone)
                    THEN invalidTransitionLocked(x)
                    ELSE IF n = 0 THEN {x}
                    ELSE IF Has(x, k) THEN appendText(x, k, n)
                    ELSE More(x)
         ELSE t = x
  BY DEF textDeltaLocked, Then
<1>2. t \in More(x) => \E y \in newTextItemLocked(x, k) :
                          IF y.err = "nil" THEN t \in appendText(y, k, n) ELSE t = y
  BY DEF Then
<1>3. n \in Nat /\ k \in TextKeys /\ k \in Keys
  BY DEF Event, Keys
<1>. HIDE DEF More, k, n
<1>4. Stopped(x) \/ (Live(x, FALSE, 0) /\ x.started /\ SameState(x, s))
  BY EnsureLive
<1>5. CASE Stopped(x)
  BY <1>1, <1>5 DEF Stopped, InOrder
<1>6. CASE Live(x, FALSE, 0) /\ x.started /\ SameState(x, s)
  <2>1. NamedIfDone(x) /\ x.err = "nil"
    BY <1>6 DEF NamedIfDone, SameState, Live, Running
  <2>2. CASE t \in invalidTransitionLocked(x)
    BY <1>6, <2>2, InvalidStops DEF Stopped, InOrder
  <2>3. CASE t = x
    BY <1>6, <2>1, <2>3 DEF InOrder
  <2>4. CASE Has(x, k) /\ ~ItemOf(x, k).itemDone /\ t \in appendText(x, k, n)
    BY <1>3, <1>6, <2>1, <2>4, AppendTextInOrder
  <2>5. CASE ~Has(x, k) /\ t \in More(x)
    <3>1. PICK y \in newTextItemLocked(x, k) :
             IF y.err = "nil" THEN t \in appendText(y, k, n) ELSE t = y
      BY <1>2, <2>5
    <3>2. \/ Stopped(y)
          \/ /\ Live(y, FALSE, 0) /\ y.started /\ NamedIfDone(y)
             /\ Has(y, k) /\ ~ItemOf(y, k).itemDone
      BY <1>3, <1>6, <2>1, <2>5, NewTextLive
    <3>3. CASE Stopped(y)
      BY <3>1, <3>3 DEF Stopped, InOrder
    <3>4. CASE /\ Live(y, FALSE, 0) /\ y.started /\ NamedIfDone(y)
               /\ Has(y, k) /\ ~ItemOf(y, k).itemDone
      <4>1. t \in appendText(y, k, n)
        BY <3>1, <3>4 DEF Live, Running
      <4>. QED
        BY <1>3, <3>4, <4>1, AppendTextInOrder
    <3>. QED
      BY <3>2, <3>3, <3>4
  <2>. QED
    BY <1>1, <2>1, <2>2, <2>3, <2>4, <2>5
<1>. QED
  BY <1>4, <1>5, <1>6

Identified(s, k, m, named) == [Charge(s, m) EXCEPT !.itemOrder[At(s, k)].named = named]

\* A new call takes its identity and is announced.
LEMMA AnnounceInOrder ==
    ASSUME NEW s, Live(s, TRUE, 0), s.started, NamedIfDone(s), NEW k \in ToolKeys,
           Len(s.itemOrder) > 0, s.itemOrder[Len(s.itemOrder)] = NewItem(k),
           NEW m \in Nat, Fits(s, m), NEW named \in BOOLEAN,
           NEW t \in Emit(Identified(s, k, m, named), "item.added", k)
    PROVE  InOrder(t)
<1>. DEFINE i == Len(s.itemOrder)
            item == [NewItem(k) EXCEPT !.named = named]
            a == s.aggregateBytes + m
            o == s.outputBytes
            x == s.textBytes
            d == Updated(s, i, item, a, o, x)
<1>1. s \in Session
  BY DEF Live, Sound
<1>2. k \in Keys /\ k \notin TextKeys
  BY SessionAssumption DEF Keys
<1>3. /\ NewItem(k) \in Item /\ NewItem(k).key = k /\ NewItem(k).bytes = 0
      /\ ~NewItem(k).itemDone /\ ~NewItem(k).named
  BY <1>2 DEF NewItem, Item
<1>4. i \in Nat /\ i \in 1..i
  BY <1>1 DEF Session
<1>5. Has(s, k)
  BY <1>3, <1>4 DEF Has
<1>6. At(s, k) = i
  <2>1. At(s, k) \in 1..Len(s.itemOrder) /\ s.itemOrder[At(s, k)].key = k
    BY <1>5, AtFacts
  <2>. QED
    BY <1>3, <1>4, <2>1 DEF Live, Tracked
<1>7. item \in Item /\ item.key = k /\ item.bytes = 0
  BY <1>3 DEF Item
<1>8. ~item.itemDone
  BY <1>3 DEF Item
<1>9. t \in Emit(d, "item.added", k)
  <2>1. Identified(s, k, m, named) = [Charge(s, m) EXCEPT !.itemOrder[i].named = named]
    BY <1>6 DEF Identified
  <2>2. [Charge(s, m) EXCEPT !.itemOrder[i].named = named] = d
    <3>. HIDE DEF i
    <3>. QED
      BY <1>1 DEF Charge, Updated, Session, i
  <2>3. Identified(s, k, m, named) = d
    BY <2>1, <2>2
  <2>. HIDE DEF d
  <2>. QED
    BY <2>3
<1>10. /\ s.aggregateBytes \in Nat /\ s.outputBytes \in Nat /\ s.textBytes \in Nat
       /\ s.outputBytes =< MaxOutputBytes /\ s.textBytes =< MaxTextBytes
       /\ MaxTextBytes \in Nat /\ MaxOutputBytes \in Nat /\ MaxAggregateBytes \in Nat
       /\ MaxToolCallArgumentBytes \in Nat
  BY <1>1, Counters, SessionAssumption
<1>11. /\ a \in Nat /\ s.aggregateBytes =< a /\ a =< MaxAggregateBytes
       /\ a - s.aggregateBytes >= o - s.outputBytes
       /\ o = s.outputBytes - 0 + 0
  BY <1>10, SMTT(60) DEF Fits
<1>. HIDE DEF i, item, a, d
<1>12. Affordable(s, i, item, a, o, x)
  <2>. DEFINE old == s.itemOrder[i]
  <2>1. old.key = k /\ old.bytes = 0 /\ ~old.itemDone /\ ~old.named /\ i \in 1..Len(s.itemOrder)
    BY <1>3, <1>4 DEF i
  <2>2. o = s.outputBytes - old.bytes + item.bytes /\ x = s.textBytes /\ o \in Nat
    BY <1>7, <1>10, <2>1
  <2>3. item.itemDone <=> old.itemDone
    BY <1>8, <2>1
  <2>. HIDE DEF old, o, x
  <2>. QED
    BY <1>2, <1>7, <1>10, <1>11, <2>1, <2>2, <2>3 DEF Affordable, old, o, x
<1>. HIDE DEF o, x
<1>13. Live(d, TRUE, 0) /\ d.started /\ Replaced(d, s, i, item)
  <2>1. d = Updated(s, i, item, a, o, x)
    BY DEF d
  <2>. QED
    BY <1>12, <2>1, UpdateLive, Zenon
<1>14. NamedIfDone(d)
  BY <1>12, <1>13, UpdateNamed
<1>15. i = Len(d.itemOrder) /\ i > 0 /\ ~d.itemOrder[i].itemDone /\ k = d.itemOrder[i].key
  BY <1>7, <1>8, <1>13 DEF Replaced, i
<1>16. Stopped(t) \/ (Live(t, FALSE, 0) /\ SameState(t, d))
  BY <1>9, <1>13, <1>15, EmitAdded
<1>. QED
  BY <1>14, <1>16 DEF InOrder, Stopped, NamedIfDone, SameState

\* A call is announced with what it carries, or closed by a limit without having been.
LEMMA ToolStartedInOrder ==
    ASSUME NEW s, Live(s, FALSE, 0), NamedIfDone(s), NEW e \in Event, e.key \in ToolKeys,
           NEW t \in toolCallStartedLocked(s, e)
    PROVE  InOrder(t)
<1>. DEFINE k == e.key
            m == e.meta
            b == e.named
            Declare(y) == IF ~Fits(y, m) THEN limitLocked(y)
                          ELSE Emit(Identified(y, k, m, b), "item.added", k)
            More(x) == Then(newItemLocked(x, k), LAMBDA y : Declare(y))
            Rest(x) == IF Has(x, k) THEN invalidTransitionLocked(x) ELSE More(x)
<1>1. CASE ~e.valid
  <2>1. t \in invalidTransitionLocked(s)
    BY <1>1 DEF toolCallStartedLocked
  <2>. QED
    BY <2>1, InvalidStops DEF Stopped, InOrder
<1>2. CASE e.valid
  <2>1. PICK x \in ensureStartedLocked(s) : IF x.err = "nil" THEN t \in Rest(x) ELSE t = x
    BY <1>2 DEF toolCallStartedLocked, Then, Identified
  <2>2. t \in More(x) => \E y \in newItemLocked(x, k) :
                            IF y.err = "nil" THEN t \in Declare(y) ELSE t = y
    BY DEF Then
  <2>3. m \in Nat /\ k \in ToolKeys /\ k \in Keys /\ k \notin TextKeys /\ b \in BOOLEAN
    BY SessionAssumption DEF Event, Keys
  <2>. HIDE DEF More, Declare, k, m, b
  <2>4. Stopped(x) \/ (Live(x, FALSE, 0) /\ x.started /\ SameState(x, s))
    BY EnsureLive
  <2>5. CASE Stopped(x)
    BY <2>1, <2>5 DEF Stopped, InOrder
  <2>6. CASE Live(x, FALSE, 0) /\ x.started /\ SameState(x, s)
    <3>1. NamedIfDone(x) /\ x.err = "nil"
      BY <2>6 DEF NamedIfDone, SameState, Live, Running
    <3>2. CASE t \in invalidTransitionLocked(x)
      BY <2>6, <3>2, InvalidStops DEF Stopped, InOrder
    <3>3. CASE ~Has(x, k) /\ t \in More(x)
      <4>1. PICK y \in newItemLocked(x, k) : IF y.err = "nil" THEN t \in Declare(y) ELSE t = y
        BY <2>2, <3>3
      <4>2. \/ Stopped(y)
            \/ /\ Live(y, TRUE, 0) /\ y.started /\ NamedIfDone(y)
               /\ Len(y.itemOrder) = Len(x.itemOrder) + 1
               /\ y.itemOrder[Len(y.itemOrder)] = NewItem(k)
        BY <2>3, <2>6, <3>1, <3>3, NewItemLive
      <4>3. CASE Stopped(y)
        BY <4>1, <4>3 DEF Stopped, InOrder
      <4>4. CASE /\ Live(y, TRUE, 0) /\ y.started /\ NamedIfDone(y)
                 /\ Len(y.itemOrder) = Len(x.itemOrder) + 1
                 /\ y.itemOrder[Len(y.itemOrder)] = NewItem(k)
        <5>1. t \in Declare(y)
          BY <4>1, <4>4 DEF Live, Running
        <5>2. NewItem(k).key = k /\ NewItem(k) \in Item /\ NewItem(k).bytes = 0
              /\ ~NewItem(k).itemDone /\ ~NewItem(k).named
          BY <2>3 DEF NewItem, Item
        <5>3. CASE ~Fits(y, m)
          <6>1. t \in limitLocked(y) /\ FreshTool(y, TRUE)
            BY <2>3, <4>4, <5>1, <5>2, <5>3 DEF Declare, FreshTool
          <6>. QED
            BY <4>4, <6>1, LimitStops DEF InOrder, Stopped
        <5>4. CASE Fits(y, m)
          <6>1. t \in Emit(Identified(y, k, m, b), "item.added", k)
            BY <5>1, <5>4 DEF Declare
          <6>2. Len(y.itemOrder) > 0
            <7>1. Len(x.itemOrder) \in Nat
              BY <2>6 DEF Live, Sound, Session
            <7>. QED
              BY <4>4, <7>1
          <6>. QED
            BY <2>3, <4>4, <5>4, <6>1, <6>2, AnnounceInOrder
        <5>. QED
          BY <5>3, <5>4
      <4>. QED
        BY <4>2, <4>3, <4>4
    <3>. QED
      BY <2>1, <2>6, <3>1, <3>2, <3>3
  <2>. QED
    BY <2>4, <2>5, <2>6
<1>. QED
  BY <1>1, <1>2

\* The item of a call that is not done yet.
LEMMA ActiveFacts ==
    ASSUME NEW s, Live(s, FALSE, 0), NEW k \in ToolKeys, Active(s, k), NEW i, i = At(s, k)
    PROVE  /\ s \in Session /\ s.started
           /\ i \in 1..Len(s.itemOrder) /\ s.itemOrder[i] \in Item
           /\ s.itemOrder[i].key = k /\ ~s.itemOrder[i].itemDone /\ k \notin TextKeys
           /\ s.itemOrder[i].bytes \in Nat /\ s.itemOrder[i].bytes =< MaxToolCallArgumentBytes
           /\ s.itemOrder[i].bytes =< s.outputBytes
<1>1. s \in Session /\ Budget(s)
  BY DEF Live, Sound
<1>2. Has(s, k) /\ ~s.itemOrder[i].itemDone
  BY DEF Active, ItemOf
<1>3. i \in 1..Len(s.itemOrder) /\ s.itemOrder[i].key = k
  BY <1>2, AtFacts
<1>4. /\ s.itemOrder \in Seq(Item) /\ s.itemOrder[i] \in Item /\ s.itemOrder[i].bytes \in Nat
      /\ k \in Keys
  BY <1>1, <1>3, ItemFields
<1>5. s.itemOrder[i].bytes =< Total(s.itemOrder, Keys)
  <2>. DEFINE items == s.itemOrder
  <2>1. items \in Seq(Item) /\ i \in 1..Len(items) /\ items[i].key \in Keys
    BY <1>3, <1>4
  <2>. HIDE DEF items
  <2>2. items[i].bytes =< Total(items, Keys)
    BY <2>1, TotalReplace
  <2>. QED
    BY <2>2 DEF items
<1>6. /\ s.outputBytes = Total(s.itemOrder, Keys)
      /\ s.itemOrder[i].bytes =< MaxToolCallArgumentBytes
  BY <1>1, <1>3, BudgetTotals
<1>7. s.started
  BY <1>2, HasStarted
<1>. QED
  BY <1>1, <1>2, <1>3, <1>4, <1>5, <1>6, <1>7, SessionAssumption

\* An affordable change of an item.
LEMMA ChangeLive ==
    ASSUME NEW s, Live(s, FALSE, 0), s.started, NamedIfDone(s),
           NEW i, NEW item, NEW a, NEW o, NEW x, Affordable(s, i, item, a, o, x),
           NEW t, t = Updated(s, i, item, a, o, x)
    PROVE  /\ Live(t, FALSE, 0) /\ t.started /\ NamedIfDone(t)
           /\ Len(t.itemOrder) = Len(s.itemOrder) /\ t.itemOrder[i] = item
<1>1. Live(t, FALSE, 0) /\ t.started /\ Replaced(t, s, i, item)
  BY UpdateLive, Zenon
<1>2. NamedIfDone(t)
  BY <1>1, UpdateNamed
<1>. QED
  BY <1>1, <1>2 DEF Replaced

\* A charge that is not counted as anything.
LEMMA JustCharged ==
    ASSUME NEW s, Live(s, FALSE, 0), NEW n \in Nat, Fits(s, n)
    PROVE  Live(Charge(s, n), FALSE, 0)
<1>1. s \in Session
  BY DEF Live, Sound
<1>2. /\ s.reasoningBytes \in Nat /\ s.reasoningBytes + 0 = s.reasoningBytes
      /\ s.reasoningBytes =< MaxReasoningBytes /\ 0 \in Nat /\ 0 =< n
  BY <1>1, Counters
<1>3. Charge(s, n) = Charged(s, n, 0)
  <2>. DEFINE a == s.aggregateBytes + n
              r == s.reasoningBytes
  <2>1. [s EXCEPT !.aggregateBytes = a] = [s EXCEPT !.aggregateBytes = a, !.reasoningBytes = r]
    BY <1>1 DEF Session
  <2>2. Charge(s, n) = [s EXCEPT !.aggregateBytes = a]
    BY <1>1 DEF Charge, Session
  <2>3. Charged(s, n, 0) = [s EXCEPT !.aggregateBytes = a, !.reasoningBytes = r]
    BY <1>2 DEF Charged
  <2>. QED
    BY <2>1, <2>2, <2>3
<1>4. \A t : t = Charged(s, n, 0) => Live(t, FALSE, 0)
  BY <1>2, ChargeLive
<1>. QED
  BY <1>3, <1>4

\* Fields of a call that change without bytes of it.
LEMMA MetadataInOrder ==
    ASSUME NEW s, Live(s, FALSE, 0), NamedIfDone(s), NEW e \in Event, e.key \in ToolKeys,
           NEW t \in toolCallMetadataLocked(s, e)
    PROVE  InOrder(t)
<1>. DEFINE k == e.key
            n == e.bytes
            b == e.named
            i == At(s, k)
            old == s.itemOrder[i]
            item == [old EXCEPT !.named = old.named \/ b]
            a == s.aggregateBytes + n
            o == s.outputBytes
            x == s.textBytes
            d == Updated(s, i, item, a, o, x)
<1>1. n \in Nat /\ k \in ToolKeys /\ b \in BOOLEAN
  BY DEF Event
<1>2. CASE ~Active(s, k) \/ ~e.valid
  <2>1. t \in invalidTransitionLocked(s)
    BY <1>2 DEF toolCallMetadataLocked
  <2>. QED
    BY <2>1, InvalidStops DEF Stopped, InOrder
<1>3. CASE Active(s, k) /\ e.valid /\ ~Fits(s, n)
  <2>1. t \in limitLocked(s) /\ FreshTool(s, FALSE)
    BY <1>3 DEF toolCallMetadataLocked, FreshTool
  <2>. QED
    BY <2>1, LimitStops DEF InOrder, Stopped
<1>4. CASE Active(s, k) /\ e.valid /\ Fits(s, n) /\ ~e.sameID
  <2>1. t \in invalidTransitionLocked(Charge(s, n))
    BY <1>4 DEF toolCallMetadataLocked
  <2>2. Live(Charge(s, n), FALSE, 0)
    BY <1>1, <1>4, JustCharged
  <2>. QED
    BY <2>1, <2>2, InvalidStops DEF Stopped, InOrder
<1>5. CASE Active(s, k) /\ e.valid /\ Fits(s, n) /\ e.sameID
  <2>1. /\ s \in Session /\ s.started
        /\ i \in 1..Len(s.itemOrder) /\ old \in Item
        /\ old.key = k /\ ~old.itemDone /\ k \notin TextKeys
        /\ old.bytes \in Nat /\ old.bytes =< MaxToolCallArgumentBytes
        /\ old.bytes =< s.outputBytes
    <3>. HIDE DEF k, i
    <3>. QED
      BY <1>1, <1>5, ActiveFacts DEF i
  <2>2. t = d
    <3>1. t = [Charge(s, n) EXCEPT !.itemOrder[i].named = @ \/ b]
      BY <1>5 DEF toolCallMetadataLocked
    <3>2. [Charge(s, n) EXCEPT !.itemOrder[i].named = @ \/ b] = d
      <4>. HIDE DEF i, n, b
      <4>. QED
        BY <2>1 DEF Charge, Updated, Session
    <3>. QED
      BY <3>1, <3>2
  <2>. HIDE DEF i, k, n, b
  <2>3. item \in Item /\ item.key = k /\ item.bytes = old.bytes
    BY <1>1, <2>1 DEF Item
  <2>4. item.itemDone <=> old.itemDone
    BY <2>1 DEF Item
  <2>5. old.named => item.named
    BY <2>1 DEF Item
  <2>6. /\ s.aggregateBytes \in Nat /\ s.outputBytes \in Nat /\ s.textBytes \in Nat
        /\ s.outputBytes =< MaxOutputBytes /\ s.textBytes =< MaxTextBytes
        /\ MaxAggregateBytes \in Nat
    BY <2>1, Counters, SessionAssumption
  <2>7. Affordable(s, i, item, a, o, x)
    <3>1. /\ a \in Nat /\ s.aggregateBytes =< a /\ a =< MaxAggregateBytes
          /\ a - s.aggregateBytes >= o - s.outputBytes
      BY <1>1, <1>5, <2>6 DEF Fits
    <3>. HIDE DEF item, a
    <3>2. o = s.outputBytes - old.bytes + item.bytes
      BY <2>1, <2>3, <2>6
    <3>. HIDE DEF old, o, x
    <3>. QED
      BY <2>1, <2>3, <2>4, <2>5, <2>6, <3>1, <3>2 DEF Affordable, old, o, x
  <2>8. t = Updated(s, i, item, a, o, x)
    BY <2>2
  <2>. HIDE DEF item, a, o, x, d, old
  <2>. QED
    BY <2>1, <2>7, <2>8, ChangeLive, Zenon DEF InOrder
<1>. QED
  BY <1>2, <1>3, <1>4, <1>5

\* A fragment of the arguments is counted before it is sent.
LEMMA ArgumentsInOrder ==
    ASSUME NEW s, Live(s, FALSE, 0), NamedIfDone(s), NEW e \in Event, e.key \in ToolKeys,
           NEW t \in toolCallArgumentsLocked(s, e)
    PROVE  InOrder(t)
<1>. DEFINE k == e.key
            n == e.bytes
            i == At(s, k)
            old == s.itemOrder[i]
            item == [old EXCEPT !.bytes = old.bytes + n]
            a == s.aggregateBytes + n
            o == s.outputBytes + n
            x == s.textBytes
            d == Updated(s, i, item, a, o, x)
            fits == ~(\/ n > MaxOutputBytes - s.outputBytes
                      \/ n > MaxToolCallArgumentBytes - ItemOf(s, k).bytes
                      \/ ~Fits(s, n))
<1>1. n \in Nat /\ k \in ToolKeys
  BY DEF Event
<1>2. CASE ~Active(s, k) \/ ~e.valid
  <2>1. t \in invalidTransitionLocked(s)
    BY <1>2 DEF toolCallArgumentsLocked
  <2>. QED
    BY <2>1, InvalidStops DEF Stopped, InOrder
<1>3. CASE Active(s, k) /\ e.valid /\ n = 0
  <2>1. t = s
    BY <1>3 DEF toolCallArgumentsLocked
  <2>. QED
    BY <2>1 DEF InOrder
<1>4. CASE Active(s, k) /\ e.valid /\ n # 0 /\ ~fits
  <2>1. t \in limitLocked(s) /\ FreshTool(s, FALSE)
    BY <1>4 DEF toolCallArgumentsLocked, FreshTool
  <2>. QED
    BY <2>1, LimitStops DEF InOrder, Stopped
<1>5. CASE Active(s, k) /\ e.valid /\ n # 0 /\ fits
  <2>1. /\ s \in Session /\ s.started
        /\ i \in 1..Len(s.itemOrder) /\ old \in Item
        /\ old.key = k /\ ~old.itemDone /\ k \notin TextKeys
        /\ old.bytes \in Nat /\ old.bytes =< MaxToolCallArgumentBytes
        /\ old.bytes =< s.outputBytes
    <3>. HIDE DEF k, i, fits
    <3>. QED
      BY <1>1, <1>5, ActiveFacts DEF i
  <2>2. t \in Emit(d, "delta", k)
    <3>1. t \in Emit([Charge(s, n) EXCEPT !.itemOrder[i].bytes = @ + n,
                                          !.outputBytes = @ + n], "delta", k)
      BY <1>5 DEF toolCallArgumentsLocked
    <3>2. [Charge(s, n) EXCEPT !.itemOrder[i].bytes = @ + n, !.outputBytes = @ + n] = d
      <4>. HIDE DEF i, n
      <4>. QED
        BY <2>1 DEF Charge, Updated, Session
    <3>. QED
      BY <3>1, <3>2
  <2>3. n =< MaxOutputBytes - s.outputBytes /\ n =< MaxToolCallArgumentBytes - old.bytes
        /\ n =< MaxAggregateBytes - s.aggregateBytes /\ n \in Nat
    <3>1. /\ s.aggregateBytes \in Nat /\ s.outputBytes \in Nat
          /\ MaxAggregateBytes \in Nat /\ MaxOutputBytes \in Nat /\ MaxToolCallArgumentBytes \in Nat
      BY <2>1, Counters, SessionAssumption
    <3>2. ItemOf(s, k).bytes = old.bytes
      BY DEF ItemOf
    <3>3. /\ ~(n > MaxOutputBytes - s.outputBytes)
          /\ ~(n > MaxToolCallArgumentBytes - old.bytes)
          /\ s.aggregateBytes =< MaxAggregateBytes - n
      BY <1>5, <3>2 DEF Fits
    <3>4. old.bytes \in Nat
      BY <2>1
    <3>. HIDE DEF n, old
    <3>. QED
      BY <1>1, <3>1, <3>3, <3>4, SMTT(60)
  <2>. HIDE DEF i, k, n, fits
  <2>4. item \in Item /\ item.key = k /\ item.bytes = old.bytes + n
    BY <1>1, <2>1 DEF Item
  <2>5. item.itemDone <=> old.itemDone
    BY <2>1 DEF Item
  <2>6. item.named <=> old.named
    BY <2>1 DEF Item
  <2>7. /\ s.aggregateBytes \in Nat /\ s.outputBytes \in Nat /\ s.textBytes \in Nat
        /\ s.textBytes =< MaxTextBytes /\ MaxAggregateBytes \in Nat
        /\ MaxOutputBytes \in Nat /\ MaxToolCallArgumentBytes \in Nat
    BY <2>1, Counters, SessionAssumption
  <2>8. Affordable(s, i, item, a, o, x)
    <3>1. /\ a \in Nat /\ s.aggregateBytes =< a /\ a =< MaxAggregateBytes
          /\ o \in Nat /\ o =< MaxOutputBytes
          /\ a - s.aggregateBytes >= o - s.outputBytes
      BY <2>3, <2>7
    <3>. HIDE DEF item, a
    <3>2. o = s.outputBytes - old.bytes + item.bytes /\ item.bytes =< MaxToolCallArgumentBytes
      BY <2>1, <2>3, <2>4, <2>7, SMTT(60)
    <3>. HIDE DEF old, o, x
    <3>. QED
      BY <2>1, <2>4, <2>5, <2>6, <2>7, <3>1, <3>2 DEF Affordable, old, x
  <2>9. d = Updated(s, i, item, a, o, x) /\ s.started
    BY <2>1
  <2>. HIDE DEF item, a, o, x, d, old
  <2>10. /\ Live(d, FALSE, 0) /\ d.started /\ NamedIfDone(d)
         /\ Len(d.itemOrder) = Len(s.itemOrder) /\ d.itemOrder[i] = item
    <3>1. Live(d, FALSE, 0) /\ d.started /\ Replaced(d, s, i, item)
      BY <2>8, <2>9, UpdateLive, Zenon
    <3>2. NamedIfDone(d)
      BY <2>8, <3>1, UpdateNamed
    <3>. QED
      BY <3>1, <3>2 DEF Replaced
  <2>11. Stopped(t) \/ (Live(t, FALSE, 0) /\ SameState(t, d))
    BY <2>1, <2>2, <2>4, <2>5, <2>10, EmitPlain
  <2>. QED
    BY <2>10, <2>11 DEF InOrder, Stopped, NamedIfDone, SameState
<1>. QED
  BY <1>2, <1>3, <1>4, <1>5

\* Reasoning is counted and dropped.
LEMMA ReasoningInOrder ==
    ASSUME NEW s, Live(s, FALSE, 0), NamedIfDone(s), NEW e \in Event,
           NEW t \in reasoningDeltaLocked(s, e)
    PROVE  InOrder(t)
<1>. DEFINE n == e.bytes
            Count(x) == [Charge(x, n) EXCEPT !.reasoningBytes = @ + n]
            over(x) == n > MaxReasoningBytes - x.reasoningBytes \/ ~Fits(x, n)
<1>1. n \in Nat
  BY DEF Event
<1>2. CASE ~e.valid
  <2>1. t \in invalidTransitionLocked(s)
    BY <1>2 DEF reasoningDeltaLocked
  <2>. QED
    BY <2>1, InvalidStops DEF Stopped, InOrder
<1>3. CASE e.valid
  <2>1. PICK x \in ensureStartedLocked(s) :
           IF x.err = "nil" THEN t \in IF over(x) THEN limitLocked(x) ELSE {Count(x)} ELSE t = x
    BY <1>3 DEF reasoningDeltaLocked, Then
  <2>. HIDE DEF n
  <2>2. Stopped(x) \/ (Live(x, FALSE, 0) /\ x.started /\ SameState(x, s))
    BY EnsureLive
  <2>3. CASE Stopped(x)
    BY <2>1, <2>3 DEF Stopped, InOrder
  <2>4. CASE Live(x, FALSE, 0) /\ x.started /\ SameState(x, s)
    <3>1. NamedIfDone(x) /\ x.err = "nil" /\ x \in Session
      BY <2>4 DEF NamedIfDone, SameState, Live, Running, Sound
    <3>2. CASE over(x)
      <4>1. t \in limitLocked(x) /\ FreshTool(x, FALSE)
        BY <2>1, <3>1, <3>2 DEF FreshTool
      <4>. QED
        BY <2>4, <4>1, LimitStops DEF InOrder, Stopped
    <3>3. CASE ~over(x)
      <4>1. t = Count(x)
        BY <2>1, <3>1, <3>3
      <4>2. Count(x) = Charged(x, n, n)
        BY <3>1 DEF Charge, Charged, Session
      <4>3. x.reasoningBytes + n =< MaxReasoningBytes /\ Fits(x, n) /\ n =< n
        <5>1. x.reasoningBytes \in Nat /\ MaxReasoningBytes \in Nat
          BY <3>1, Counters, SessionAssumption
        <5>. QED
          BY <1>1, <3>3, <5>1
      <4>4. t = Charged(x, n, n)
        BY <4>1, <4>2
      <4>5. Live(t, FALSE, 0) /\ NamedIfDone(t)
        BY <1>1, <2>4, <3>1, <4>3, <4>4, ChargeLive
      <4>. QED
        BY <4>5 DEF InOrder
    <3>. QED
      BY <3>2, <3>3
  <2>. QED
    BY <2>2, <2>3, <2>4
<1>. QED
  BY <1>2, <1>3

\* Starting, explicitly or by the first event.
LEMMA EnsureInOrder ==
    ASSUME NEW s, Live(s, FALSE, 0), NamedIfDone(s), NEW t \in ensureStartedLocked(s)
    PROVE  InOrder(t)
<1>1. Stopped(t) \/ (Live(t, FALSE, 0) /\ t.started /\ SameState(t, s))
  BY EnsureLive
<1>. QED
  BY <1>1 DEF InOrder, Stopped, NamedIfDone, SameState

\* responseStartedLocked.
LEMMA ResponseStartedInOrder ==
    ASSUME NEW s, Live(s, FALSE, 0), NamedIfDone(s), NEW e, NEW t \in responseStartedLocked(s, e)
    PROVE  InOrder(t)
<1>1. CASE t \in ensureStartedLocked(s)
  BY <1>1, EnsureInOrder
<1>2. CASE t \in invalidTransitionLocked(s)
  BY <1>2, InvalidStops DEF Stopped, InOrder
<1>. QED
  BY <1>1, <1>2 DEF responseStartedLocked, ensureStartedLocked

\* The arguments of a completion replace those sent so far, in the item and in the counters.
LEMMA CompletedInOrder ==
    ASSUME NEW s, Live(s, FALSE, 0), NamedIfDone(s), NEW e \in Event, e.key \in ToolKeys,
           NEW t \in toolCallCompletedLocked(s, e)
    PROVE  InOrder(t)
<1>. DEFINE k == e.key
            n == e.bytes
            m == e.meta
            b == e.named
            i == At(s, k)
            old == s.itemOrder[i]
            held == old.bytes
            over == \/ n > MaxToolCallArgumentBytes
                    \/ n > 0 /\ n > MaxOutputBytes - (s.outputBytes - held)
                    \/ ~Fits(s, m + n)
<1>1. n \in Nat /\ m \in Nat /\ m + n \in Nat /\ k \in ToolKeys /\ b \in BOOLEAN
  BY DEF Event
<1>2. CASE ~Active(s, k) \/ ~e.valid
  <2>1. t \in invalidTransitionLocked(s)
    BY <1>2 DEF toolCallCompletedLocked
  <2>. QED
    BY <2>1, InvalidStops DEF Stopped, InOrder
<1>3. CASE Active(s, k) /\ e.valid /\ over
  <2>1. t \in limitLocked(s) /\ FreshTool(s, FALSE)
    BY <1>3 DEF toolCallCompletedLocked, FreshTool
  <2>. QED
    BY <2>1, LimitStops DEF InOrder, Stopped
<1>4. CASE Active(s, k) /\ e.valid /\ ~over /\ ~e.sameID
  <2>1. t \in invalidTransitionLocked(Charge(s, m + n)) /\ Fits(s, m + n)
    BY <1>4 DEF toolCallCompletedLocked
  <2>2. Live(Charge(s, m + n), FALSE, 0)
    BY <1>1, <2>1, JustCharged
  <2>. QED
    BY <2>1, <2>2, InvalidStops DEF Stopped, InOrder
<1>5. CASE Active(s, k) /\ e.valid /\ ~over /\ e.sameID
  <2>. DEFINE c == Charge(s, m + n)
              g == IF n = 0 THEN c
                   ELSE [c EXCEPT !.itemOrder[i].bytes = n, !.outputBytes = @ + n - held]
              f == [g EXCEPT !.itemOrder[i].named = @ \/ b]
              bytes == IF n = 0 THEN held ELSE n
              item == [old EXCEPT !.bytes = bytes, !.named = old.named \/ b]
              a == s.aggregateBytes + (m + n)
              o == IF n = 0 THEN s.outputBytes ELSE s.outputBytes + n - held
              x == s.textBytes
  <2>1. /\ s \in Session /\ s.started
        /\ i \in 1..Len(s.itemOrder) /\ old \in Item
        /\ old.key = k /\ ~old.itemDone /\ k \notin TextKeys
        /\ old.bytes \in Nat /\ old.bytes =< MaxToolCallArgumentBytes
        /\ old.bytes =< s.outputBytes
    <3>. HIDE DEF k, i, over
    <3>. QED
      BY <1>1, <1>5, ActiveFacts DEF i
  <2>2. t \in IF f.itemOrder[i].named THEN finishToolItemLocked(f, i) ELSE invalidTransitionLocked(f)
    BY <1>5 DEF toolCallCompletedLocked
  <2>3. ~over
    BY <1>5
  <2>. HIDE DEF i, k, n, m, b, over
  <2>4. f = Updated(s, i, item, a, o, x)
    <3>1. CASE n = 0
      BY <2>1, <3>1, ZenonT(60) DEF Charge, Updated, Session, Item
    <3>2. CASE n # 0
      <4>. DEFINE p == [old EXCEPT !.bytes = n]
                  items == [s.itemOrder EXCEPT ![i] = p]
                  q == [s EXCEPT !.aggregateBytes = a, !.itemOrder = items, !.outputBytes = o]
                  new == [s.itemOrder EXCEPT ![i] = item]
      <4>1. g = q
        BY <2>1, <3>2 DEF Charge, Session
      <4>2. items \in Seq(Item) /\ items[i] = p
        <5>1. p \in Item /\ s.itemOrder \in Seq(Item)
          BY <1>1, <2>1 DEF Item, Session
        <5>. QED
          BY <2>1, <5>1, ReplaceItem
      <4>3. [p EXCEPT !.named = p.named \/ b] = item
        BY <2>1, <3>2 DEF Item
      <4>4. [items EXCEPT ![i] = item] = new
        BY <2>1 DEF Session
      <4>5. [q EXCEPT !.itemOrder[i].named = @ \/ b]
               = [q EXCEPT !.itemOrder = [items EXCEPT ![i] = [p EXCEPT !.named = p.named \/ b]]]
        <5>1. q.itemOrder = items
          BY <2>1 DEF Session
        <5>. HIDE DEF q, items, p
        <5>. QED
          BY <4>2, <5>1
      <4>6. f = [q EXCEPT !.itemOrder = new]
        <5>1. f = [q EXCEPT !.itemOrder[i].named = @ \/ b]
          BY <4>1
        <5>. HIDE DEF q, items, p, item, new, f
        <5>. QED
          BY <4>3, <4>4, <4>5, <5>1
      <4>. HIDE DEF p, items, item, f, g, a, o
      <4>. QED
        BY <2>1, <4>6 DEF Updated, Session
    <3>. QED
      BY <3>1, <3>2
  <2>. HIDE DEF f
  <2>5. /\ s.aggregateBytes \in Nat /\ s.outputBytes \in Nat /\ s.textBytes \in Nat
        /\ s.outputBytes =< MaxOutputBytes
        /\ s.textBytes =< MaxTextBytes /\ MaxAggregateBytes \in Nat
        /\ MaxOutputBytes \in Nat /\ MaxToolCallArgumentBytes \in Nat
    BY <2>1, Counters, SessionAssumption
  <2>6. /\ n =< MaxToolCallArgumentBytes
        /\ n > 0 => n =< MaxOutputBytes - (s.outputBytes - held)
        /\ s.aggregateBytes =< MaxAggregateBytes - (m + n)
    <3>1. /\ ~(n > MaxToolCallArgumentBytes)
          /\ ~(n > 0 /\ n > MaxOutputBytes - (s.outputBytes - held))
          /\ s.aggregateBytes =< MaxAggregateBytes - (m + n)
      BY <2>3 DEF over, Fits
    <3>2. held \in Nat
      BY <2>1
    <3>. HIDE DEF held
    <3>. QED
      BY <1>1, <2>5, <3>1, <3>2, SMTT(60)
  <2>7. bytes \in Nat /\ bytes =< MaxToolCallArgumentBytes
    BY <1>1, <2>1, <2>6
  <2>8. item \in Item /\ item.key = k /\ item.bytes = bytes
    <3>. HIDE DEF bytes
    <3>. QED
      BY <1>1, <2>1, <2>7 DEF Item
  <2>9. item.itemDone <=> old.itemDone
    BY <2>1 DEF Item
  <2>10. old.named => item.named
    BY <2>1 DEF Item
  <2>11. Affordable(s, i, item, a, o, x)
    <3>1. a \in Nat /\ s.aggregateBytes =< a /\ a =< MaxAggregateBytes
      BY <1>1, <2>5, <2>6
    <3>2. /\ o \in Nat /\ o =< MaxOutputBytes /\ o = s.outputBytes - held + bytes
          /\ a - s.aggregateBytes >= o - s.outputBytes
      <4>1. held \in Nat /\ held =< s.outputBytes
        BY <2>1
      <4>. HIDE DEF held
      <4>2. CASE n = 0
        <5>1. o = s.outputBytes /\ bytes = held
          BY <4>2
        <5>. HIDE DEF o, bytes
        <5>. QED
          BY <1>1, <2>5, <2>6, <4>1, <4>2, <5>1
      <4>3. CASE n # 0
        <5>1. o = s.outputBytes + n - held /\ bytes = n
          BY <4>3
        <5>. HIDE DEF o, bytes
        <5>. QED
          BY <1>1, <2>5, <2>6, <4>1, <4>3, <5>1
      <4>. QED
        BY <4>2, <4>3
    <3>. HIDE DEF item, a, o, bytes
    <3>3. o = s.outputBytes - old.bytes + item.bytes
      BY <2>8, <3>2
    <3>. HIDE DEF old, x
    <3>. QED
      BY <2>1, <2>5, <2>7, <2>8, <2>9, <2>10, <3>1, <3>2, <3>3 DEF Affordable, old, x
  <2>. HIDE DEF item, a, o, x, old
  <2>12. Live(f, FALSE, 0) /\ f.started /\ Replaced(f, s, i, item)
    BY <2>1, <2>4, <2>11, UpdateLive, Zenon
  <2>13. NamedIfDone(f)
    BY <2>11, <2>12, UpdateNamed
  <2>14. i \in 1..Len(f.itemOrder) /\ ~f.itemOrder[i].itemDone
    BY <2>1, <2>9, <2>12 DEF Replaced
  <2>15. CASE f.itemOrder[i].named /\ t \in finishToolItemLocked(f, i)
    <3>1. Stopped(t) \/ (Live(t, FALSE, 0) /\ t.started /\ Finished(t, f, {i}))
      BY <2>12, <2>14, <2>15, FinishToolLive
    <3>2. Finished(t, f, {i}) => NamedIfDone(t)
      BY <2>13, <2>15 DEF Finished, NamedIfDone
    <3>. QED
      BY <3>1, <3>2 DEF Stopped, InOrder
  <2>16. CASE t \in invalidTransitionLocked(f)
    BY <2>12, <2>16, InvalidStops DEF Stopped, InOrder
  <2>. QED
    BY <2>2, <2>15, <2>16
<1>. QED
  BY <1>2, <1>3, <1>4, <1>5

\* Every event leaves the session in order.  A text delta names a text item, and a tool
\* event a call.
LEMMA HandledInOrder ==
    ASSUME NEW s, Live(s, FALSE, 0), NamedIfDone(s), NEW e \in Event,
           e.kind = "TextDelta" => e.key \in TextKeys,
           e.kind \in {"ToolCallStarted", "ToolCallMetadataDelta", "ToolCallArgumentsDelta",
                       "ToolCallCompleted"} => e.key \in ToolKeys,
           NEW t \in Handled(s, e)
    PROVE  InOrder(t)
<1>1. CASE e.kind = "ResponseStarted"
  BY <1>1, ResponseStartedInOrder DEF Handled
<1>2. CASE e.kind = "TextDelta"
  BY <1>2, TextDeltaInOrder DEF Handled
<1>3. CASE e.kind = "ToolCallStarted"
  BY <1>3, ToolStartedInOrder DEF Handled
<1>4. CASE e.kind = "ToolCallMetadataDelta"
  BY <1>4, MetadataInOrder DEF Handled
<1>5. CASE e.kind = "ToolCallArgumentsDelta"
  BY <1>5, ArgumentsInOrder DEF Handled
<1>6. CASE e.kind = "ToolCallCompleted"
  BY <1>6, CompletedInOrder DEF Handled
<1>7. CASE e.kind = "ReasoningDelta"
  BY <1>7, ReasoningInOrder DEF Handled
<1>8. CASE e.kind = "UsageUpdated"
  BY <1>8, EnsureInOrder DEF Handled
<1>9. CASE e.kind \in {"Completed", "Incomplete", "Failed"}
  <2>1. PICK type \in TerminalTypes : t \in endLocked(s, type)
    BY <1>9 DEF Handled, TerminalTypes
  <2>. QED
    BY <2>1, EndDead DEF InOrder
<1>. QED
  BY <1>1, <1>2, <1>3, <1>4, <1>5, <1>6, <1>7, <1>8, <1>9 DEF Event

-----------------------------------------------------------------------------
(* Calls.                                                                  *)

EventSet(kinds, ks, sizes, metas, valids, ids, names) ==
    [kind : kinds, key : ks, bytes : sizes, meta : metas, valid : valids, sameID : ids,
     named : names]

ToolKinds == {"ToolCallStarted", "ToolCallMetadataDelta", "ToolCallArgumentsDelta",
              "ToolCallCompleted"}

PlainKinds == {"ResponseStarted", "UsageUpdated", "Completed", "Incomplete", "Failed"}

\* Events of given kinds, keys and sizes.
LEMMA EventSetFacts ==
    ASSUME NEW kinds \in SUBSET (PlainKinds \cup ToolKinds \cup {"TextDelta", "ReasoningDelta"}),
           NEW ks \in SUBSET (Keys \cup {NoKey}), NEW sizes \in SUBSET Nat, NEW metas \in SUBSET Nat,
           NEW valids \in SUBSET BOOLEAN, NEW ids \in SUBSET BOOLEAN, NEW names \in SUBSET BOOLEAN,
           NEW e \in EventSet(kinds, ks, sizes, metas, valids, ids, names)
    PROVE  e \in Event /\ e.kind \in kinds /\ e.key \in ks
BY DEF EventSet, Event, PlainKinds, ToolKinds

\* What a caller offers: a text delta names a text item, and a tool event a call.
LEMMA OfferFacts ==
    ASSUME NEW e \in Offers
    PROVE  /\ e \in Event
           /\ e.kind = "TextDelta" => e.key \in TextKeys
           /\ e.kind \in ToolKinds => e.key \in ToolKeys
<1>. DEFINE Part(kinds, ks) ==
              \E sizes \in SUBSET Nat, metas \in SUBSET Nat, valids \in SUBSET BOOLEAN,
                 ids \in SUBSET BOOLEAN, names \in SUBSET BOOLEAN :
                 e \in EventSet(kinds, ks, sizes, metas, valids, ids, names)
            yes == {TRUE}
            no == {FALSE}
            zero == {0}
            one == {1}
            meta == {MetaCost}
<1>1. /\ yes \in SUBSET BOOLEAN /\ no \in SUBSET BOOLEAN /\ BOOLEAN \in SUBSET BOOLEAN
      /\ zero \in SUBSET Nat /\ one \in SUBSET Nat /\ meta \in SUBSET Nat
      /\ Sizes \in SUBSET Nat
  BY SessionAssumption
<1>2. /\ \A kinds : Plain(kinds) = EventSet(kinds, {NoKey}, zero, zero, BOOLEAN, yes, yes)
      /\ \A kind, ks, ids, names :
            Sized(kind, ks, ids, names) = EventSet({kind}, ks, Sizes, meta, yes, ids, names)
      /\ \A kinds, ks : Garbled(kinds, ks) = EventSet(kinds, ks, one, meta, no, yes, yes)
  BY Zenon DEF Plain, Sized, Garbled, EventSet
<1>3. \/ e \in Plain(PlainKinds)
      \/ e \in Sized("TextDelta", TextKeys, yes, yes)
      \/ e \in Sized("ToolCallStarted", ToolKeys, yes, BOOLEAN)
      \/ e \in Sized("ToolCallMetadataDelta", ToolKeys, BOOLEAN, BOOLEAN)
      \/ e \in Sized("ToolCallArgumentsDelta", ToolKeys, yes, yes)
      \/ e \in Sized("ToolCallCompleted", ToolKeys, BOOLEAN, BOOLEAN)
      \/ e \in Sized("ReasoningDelta", {NoKey}, yes, yes)
      \/ e \in Garbled({"TextDelta"}, TextKeys)
      \/ e \in Garbled({"ReasoningDelta"}, {NoKey})
      \/ e \in Garbled(ToolKinds, ToolKeys)
  <2>. DEFINE plain == Plain(PlainKinds)
              s1 == Sized("TextDelta", TextKeys, yes, yes)
              s2 == Sized("ToolCallStarted", ToolKeys, yes, BOOLEAN)
              s3 == Sized("ToolCallMetadataDelta", ToolKeys, BOOLEAN, BOOLEAN)
              s4 == Sized("ToolCallArgumentsDelta", ToolKeys, yes, yes)
              s5 == Sized("ToolCallCompleted", ToolKeys, BOOLEAN, BOOLEAN)
              s6 == Sized("ReasoningDelta", {NoKey}, yes, yes)
              g1 == Garbled({"TextDelta"}, TextKeys)
              g2 == Garbled({"ReasoningDelta"}, {NoKey})
              g3 == Garbled(ToolKinds, ToolKeys)
  <2>1. Offers = plain \cup s1 \cup s2 \cup s3 \cup s4 \cup s5 \cup s6 \cup g1 \cup g2 \cup g3
    BY Zenon DEF Offers, PlainKinds, ToolKinds
  <2>. HIDE DEF plain, s1, s2, s3, s4, s5, s6, g1, g2, g3
  <2>2. \/ e \in plain \/ e \in s1 \/ e \in s2 \/ e \in s3 \/ e \in s4 \/ e \in s5 \/ e \in s6
        \/ e \in g1 \/ e \in g2 \/ e \in g3
    BY <2>1
  <2>. QED
    BY <2>2, Zenon DEF plain, s1, s2, s3, s4, s5, s6, g1, g2, g3
<1>. HIDE DEF yes, no, zero, one, meta
<1>4. \/ Part(PlainKinds, {NoKey})
      \/ Part({"TextDelta"}, TextKeys)
      \/ \E kind \in ToolKinds : Part({kind}, ToolKeys)
      \/ Part(ToolKinds, ToolKeys)
      \/ Part({"ReasoningDelta"}, {NoKey})
  <2>. DEFINE bool == BOOLEAN
  <2>1. bool \in SUBSET BOOLEAN /\ BOOLEAN = bool
    OBVIOUS
  <2>. HIDE DEF bool
  <2>2. ASSUME NEW kinds, NEW ks, NEW sizes \in SUBSET Nat, NEW metas \in SUBSET Nat,
               NEW valids \in SUBSET BOOLEAN, NEW ids \in SUBSET BOOLEAN, NEW names \in SUBSET BOOLEAN,
               e \in EventSet(kinds, ks, sizes, metas, valids, ids, names)
        PROVE  Part(kinds, ks)
    BY <2>2
  <2>. HIDE DEF Part
  <2>3. /\ \A kinds : e \in Plain(kinds) => Part(kinds, {NoKey})
        /\ \A kind, ks : \A ids, names \in SUBSET BOOLEAN :
              e \in Sized(kind, ks, ids, names) => Part({kind}, ks)
        /\ \A kinds, ks : e \in Garbled(kinds, ks) => Part(kinds, ks)
    BY <1>1, <1>2, <2>2
  <2>4. {"ToolCallStarted", "ToolCallMetadataDelta", "ToolCallArgumentsDelta",
         "ToolCallCompleted"} \subseteq ToolKinds
    BY DEF ToolKinds
  <2>. QED
    BY <1>1, <1>3, <2>3, <2>4
<1>5. ASSUME NEW kinds \in SUBSET (PlainKinds \cup ToolKinds \cup {"TextDelta", "ReasoningDelta"}),
             NEW ks \in SUBSET (Keys \cup {NoKey}), Part(kinds, ks)
      PROVE  e \in Event /\ e.kind \in kinds /\ e.key \in ks
  BY <1>5, EventSetFacts
<1>6. /\ TextKeys \in SUBSET (Keys \cup {NoKey}) /\ ToolKeys \in SUBSET (Keys \cup {NoKey})
      /\ {NoKey} \in SUBSET (Keys \cup {NoKey})
  BY DEF Keys
<1>7. "TextDelta" \notin ToolKinds \cup PlainKinds /\ "ReasoningDelta" \notin ToolKinds
      /\ ToolKinds \cap PlainKinds = {}
  BY DEF ToolKinds, PlainKinds
<1>. HIDE DEF Part
<1>8. CASE Part(PlainKinds, {NoKey})
  BY <1>5, <1>6, <1>7, <1>8
<1>9. CASE Part({"TextDelta"}, TextKeys)
  <2>1. e \in Event /\ e.kind \in {"TextDelta"} /\ e.key \in TextKeys
    BY <1>5, <1>6, <1>9
  <2>. QED
    BY <1>7, <2>1
<1>10. CASE \E kind \in ToolKinds : Part({kind}, ToolKeys)
  BY <1>5, <1>6, <1>7, <1>10
<1>11. CASE Part(ToolKinds, ToolKeys)
  BY <1>5, <1>6, <1>7, <1>11
<1>12. CASE Part({"ReasoningDelta"}, {NoKey})
  BY <1>5, <1>6, <1>7, <1>12
<1>. QED
  BY <1>4, <1>8, <1>9, <1>10, <1>11, <1>12

\* A session that has ended stays as it is, whatever is called.
LEMMA RefusedDead ==
    ASSUME NEW s, Dead(s), NEW r, r = [s EXCEPT !.err = "nil"], NEW t \in Refused(r)
    PROVE  Ended(r) /\ Dead(t)
<1>1. s \in Session /\ Ending(s) /\ Ended(s)
  BY DEF Dead, Ending, Sound
<1>2. r.writeFailure <=> s.writeFailure
  BY <1>1 DEF Session
<1>3. r.TerminalEmitted <=> s.TerminalEmitted
  BY <1>1 DEF Session
<1>4. Ended(r)
  BY <1>1, <1>2, <1>3 DEF Ended
<1>5. PICK err \in {"write", "terminal"} : t \in Error(s, err)
  <2>1. \A x : [r EXCEPT !.err = x] = [s EXCEPT !.err = x]
    BY <1>1 DEF Session
  <2>. QED
    BY <2>1 DEF Refused, Error
<1>6. err \in Errors /\ err \notin {"nil", "limit"}
  BY <1>5 DEF Errors
<1>7. Ending(t) /\ t.err = err
  BY <1>1, <1>5, <1>6, ErrorEnding
<1>. QED
  BY <1>4, <1>6, <1>7 DEF Dead

\* A live session starts a call without an error.
LEMMA LiveCall ==
    ASSUME NEW s, Live(s, FALSE, 0)
    PROVE  [s EXCEPT !.err = "nil"] = s /\ ~Ended(s)
BY DEF Live, Running, Sound, Session, Ended

\* Start.
LEMMA StartInOrder ==
    ASSUME SessionInv, Start
    PROVE  SessionInv'
<1>. DEFINE r == [session EXCEPT !.err = "nil"]
<1>1. session' \in IF Ended(r) THEN Refused(r)
                   ELSE IF r.started THEN invalidTransitionLocked(r) ELSE startLocked(r)
  BY DEF Start
<1>2. CASE Dead(session)
  <2>1. \A t \in Refused(r) : Ended(r) /\ Dead(t)
    BY <1>2, RefusedDead
  <2>2. Ended(r)
    BY <2>1 DEF Refused, Error
  <2>. QED
    BY <1>1, <2>1, <2>2 DEF SessionInv, InOrder
<1>3. CASE Live(session, FALSE, 0) /\ NamedIfDone(session)
  <2>1. r = session /\ ~Ended(session)
    BY <1>3, LiveCall
  <2>2. CASE session' \in invalidTransitionLocked(session)
    BY <1>3, <2>2, InvalidStops DEF Stopped, SessionInv, InOrder
  <2>3. CASE session' \in ensureStartedLocked(session)
    BY <1>3, <2>3, EnsureInOrder DEF SessionInv, InOrder
  <2>. HIDE DEF r
  <2>. QED
    BY <1>1, <2>1, <2>2, <2>3 DEF ensureStartedLocked
<1>. QED
  BY <1>2, <1>3 DEF SessionInv

\* Handle.
LEMMA HandleInOrder ==
    ASSUME SessionInv, NEW e \in Offers, Handle(e)
    PROVE  SessionInv'
<1>. DEFINE r == [session EXCEPT !.err = "nil"]
<1>1. session' \in IF Ended(r) THEN Refused(r) ELSE Handled(r, e)
  BY DEF Handle
<1>2. CASE Dead(session)
  <2>1. \A t \in Refused(r) : Ended(r) /\ Dead(t)
    BY <1>2, RefusedDead
  <2>2. Ended(r)
    BY <2>1 DEF Refused, Error
  <2>. QED
    BY <1>1, <2>1, <2>2 DEF SessionInv, InOrder
<1>3. CASE Live(session, FALSE, 0) /\ NamedIfDone(session)
  <2>1. r = session /\ ~Ended(session)
    BY <1>3, LiveCall
  <2>. HIDE DEF r
  <2>2. session' \in Handled(session, e)
    BY <1>1, <2>1
  <2>3. InOrder(session')
    BY <1>3, <2>2, OfferFacts, HandledInOrder DEF ToolKinds
  <2>. QED
    BY <2>3 DEF SessionInv, InOrder
<1>. QED
  BY <1>2, <1>3 DEF SessionInv

\* A new session has nothing and promises nothing.
LEMMA NewInOrder == Live(NewStreamSession, FALSE, 0) /\ NamedIfDone(NewStreamSession)
<1>. DEFINE n == NewStreamSession
<1>1. /\ n.wire = << >> /\ n.itemOrder = << >> /\ n.err = "nil"
      /\ n.aggregateBytes = 0 /\ n.outputBytes = 0 /\ n.textBytes = 0 /\ n.reasoningBytes = 0
      /\ ~n.started /\ ~n.TerminalEmitted /\ ~n.writeFailure
  BY DEF NewStreamSession
<1>2. n \in Session
  BY SessionAssumption DEF NewStreamSession, Session, Errors
<1>. HIDE DEF n
<1>3. Len(n.wire) = 0 /\ Len(n.itemOrder) = 0 /\ 1..0 = {}
  BY <1>1
<1>4. Budget(n)
  <2>1. \A w : SumOf(w, 1..Len(n.itemOrder)) = 0
    BY <1>3, SumEmpty
  <2>2. 0 * ItemCost = 0
    BY SessionAssumption
  <2>. QED
    BY <1>1, <1>3, <2>1, <2>2 DEF Budget
<1>5. Envelope(n.wire) /\ CloseOnce(n.wire) /\ Unended(n.wire)
  BY <1>3 DEF Envelope, CloseOnce, Unended
<1>6. Sound(n) /\ Running(n)
  BY <1>1, <1>2, <1>4, <1>5 DEF Sound, Running
<1>7. Tracked(n) /\ Open(n, 0) /\ Shown(n, FALSE) /\ NamedIfDone(n)
  BY <1>3 DEF Tracked, Open, Shown, Announced, NamedIfDone
<1>. QED
  BY <1>6, <1>7 DEF Live, n

\* The session is between two calls, or it has ended; calls keep it so.
THEOREM SessionInvAlways == SessionSpec => []SessionInv
<1>1. SessionInit => SessionInv
  BY NewInOrder DEF SessionInit, SessionInv
<1>2. SessionInv /\ [SessionNext]_session => SessionInv'
  <2>. SUFFICES ASSUME SessionInv, [SessionNext]_session
                PROVE  SessionInv'
    OBVIOUS
  <2>1. CASE Start
    BY <2>1, StartInOrder
  <2>2. CASE \E e \in Offers : Handle(e)
    BY <2>2, HandleInOrder
  <2>3. CASE UNCHANGED session
    BY <2>3 DEF SessionInv
  <2>. QED
    BY <2>1, <2>2, <2>3 DEF SessionNext
<1>. QED
  BY <1>1, <1>2, PTL DEF SessionSpec

-----------------------------------------------------------------------------
(* The properties.                                                         *)

\* What holds in both cases.
LEMMA InvSound ==
    ASSUME SessionInv
    PROVE  Sound(session)
BY DEF SessionInv, Live, Dead, Ending

\* Every counter of a session is within its limit, and every event it wrote and every item
\* it keeps is well formed (stream.go's fields, for any limits).
THEOREM SessionTypeCorrect == SessionSpec => []SessionTypeOK
<1>1. SessionInv => SessionTypeOK
  BY InvSound DEF Sound, SessionTypeOK
<1>. QED
  BY <1>1, SessionInvAlways, PTL

\* response.created and response.in_progress come once, first and second, and nothing
\* follows the terminal event, whatever is called after it or after a failed write.
THEOREM EnvelopeAlways == SessionSpec => []OneEnvelope
<1>1. ASSUME SessionInv
      PROVE  OneEnvelope
  <2>1. Envelope(session.wire) /\ session.wire \in Seq(WireEvent)
    BY <1>1, InvSound DEF Sound, Session, WireEvent
  <2>2. /\ Positions("created") \subseteq {1} /\ Positions("in_progress") \subseteq {2}
        /\ \A i \in 1..Len(Wire) : Wire[i].type \in TerminalTypes => i = Len(Wire)
    BY <2>1 DEF Envelope, Positions, Wire
  <2>3. Wire # << >> => Wire[1].type = "created"
    <3>1. session.wire # << >> => Len(session.wire) > 0
      BY <2>1
    <3>. QED
      BY <2>1, <3>1 DEF Envelope, Wire
  <2>4. session.TerminalEmitted /\ ~session.writeFailure => Last(Wire).type \in TerminalTypes
    BY <1>1 DEF SessionInv, Live, Running, Dead, Ending, Last, Wire
  <2>. QED
    BY <2>2, <2>3, <2>4 DEF OneEnvelope
<1>. QED
  BY <1>1, SessionInvAlways, PTL

\* An item is closed once, after its content, and nothing of it follows: however the
\* closing of it is reached (its own completion, the end of the response, a limit).
THEOREM ItemsCloseOnceAlways == SessionSpec => []ItemsCloseOnce
<1>1. ASSUME SessionInv
      PROVE  ItemsCloseOnce
  <2>1. CloseOnce(session.wire)
    BY <1>1, InvSound DEF Sound
  <2>. SUFFICES ASSUME NEW k \in Keys, NEW i \in EventsOf(k), NEW j \in EventsOf(k)
                PROVE  /\ Wire[i].type = "item.done" =>
                             /\ j =< i
                             /\ \E h \in EventsOf(k) : h < i /\ Wire[h].type = "content.done"
                       /\ Wire[i].type = "content.done" /\ Wire[j].type \in {"delta", "content.done"}
                             => j =< i
    BY DEF ItemsCloseOnce
  <2>2. /\ i \in 1..Len(session.wire) /\ j \in 1..Len(session.wire)
        /\ session.wire[i].key = k /\ session.wire[j].key = k
    BY DEF EventsOf, Wire
  <2>3. /\ session.wire[i].type = "item.done" =>
             /\ j =< i
             /\ \E h \in 1..Len(session.wire) : /\ h < i /\ session.wire[h].key = k
                                                /\ session.wire[h].type = "content.done"
        /\ session.wire[i].type = "content.done"
           /\ session.wire[j].type \in {"delta", "content.done"} => j =< i
    BY <2>1, <2>2 DEF CloseOnce
  <2>. QED
    BY <2>3 DEF EventsOf, Wire
<1>. QED
  BY <1>1, SessionInvAlways, PTL

\* A terminal event that reports no transition error comes after every item is closed, and
\* response.completed only when every tool call has its identity.
THEOREM TerminalClosesItemsAlways == SessionSpec => []TerminalClosesItems
<1>1. ASSUME SessionInv
      PROVE  TerminalClosesItems
  BY <1>1 DEF SessionInv, Live, Running, Dead, AllClosed, TerminalClosesItems, Last, Wire
<1>. QED
  BY <1>1, SessionInvAlways, PTL

\* The counters are what the items retain, to the byte, through deltas, completions that
\* replace arguments and limits that stop the stream halfway.
THEOREM BytesExactAlways == SessionSpec => []BytesExact
<1>1. ASSUME SessionInv
      PROVE  BytesExact
  <2>1. session \in Session /\ Budget(session)
    BY <1>1, InvSound DEF Sound
  <2>2. \A ks : SumBytes(ks) = Total(session.itemOrder, ks)
    <3>1. \A ks : DOMAIN Retained(session.itemOrder, ks) = 1..Len(session.itemOrder)
      BY DEF Retained
    <3>2. \A ks : SumBytes(ks) = SumOf(Retained(session.itemOrder, ks),
                                       DOMAIN Retained(session.itemOrder, ks))
      BY Zenon DEF SumBytes, SumOf
    <3>. QED
      BY <3>1, <3>2 DEF Total
  <2>3. /\ session.textBytes =< MaxTextBytes /\ session.reasoningBytes =< MaxReasoningBytes
        /\ session.outputBytes =< MaxOutputBytes /\ session.aggregateBytes =< MaxAggregateBytes
    BY <2>1, Counters
  <2>4. /\ \A i \in 1..Len(session.itemOrder) :
              session.itemOrder[i].key \in ToolKeys
                 => session.itemOrder[i].bytes =< MaxToolCallArgumentBytes
        /\ session.textBytes = Total(session.itemOrder, TextKeys)
        /\ session.outputBytes = Total(session.itemOrder, Keys)
        /\ session.aggregateBytes >= session.outputBytes + session.reasoningBytes
                                        + Len(session.itemOrder) * ItemCost
    BY <2>1, BudgetTotals
  <2>. QED
    BY <2>2, <2>3, <2>4 DEF BytesExact
<1>. QED
  BY <1>1, SessionInvAlways, PTL

\* The one item that may be closed without an announcement is the newest one, in a response
\* that fails.
THEOREM AnnouncedUnlessLimitAlways == SessionSpec => []AnnouncedUnlessLimit
<1>1. ASSUME SessionInv
      PROVE  AnnouncedUnlessLimit
  <2>. SUFFICES ASSUME NEW k \in Keys
                PROVE  \/ \A i \in EventsOf(k) :
                             \E h \in EventsOf(k) : h =< i /\ Wire[h].type = "item.added"
                       \/ /\ \A i \in EventsOf(k) : Wire[i].type \in {"content.done", "item.done"}
                          /\ k = Last(session.itemOrder).key
                          /\ Positions("completed") \cup Positions("incomplete") = {}
    BY DEF AnnouncedUnlessLimit
  <2>1. \/ Announced(session.wire, k)
        \/ /\ Unannounced(session, k)
           /\ \A i \in 1..Len(session.wire) :
                 session.wire[i].type \notin {"completed", "incomplete"}
    BY <1>1 DEF SessionInv, Live, Shown, Dead, Ending
  <2>2. Announced(session.wire, k) =>
           \A i \in EventsOf(k) : \E h \in EventsOf(k) : h =< i /\ Wire[h].type = "item.added"
    BY DEF Announced, EventsOf, Wire
  <2>3. Unannounced(session, k) =>
           /\ \A i \in EventsOf(k) : Wire[i].type \in {"content.done", "item.done"}
           /\ k = Last(session.itemOrder).key
    BY DEF Unannounced, OnlyClosing, EventsOf, Wire, Last
  <2>4. (\A i \in 1..Len(session.wire) : session.wire[i].type \notin {"completed", "incomplete"})
           => Positions("completed") \cup Positions("incomplete") = {}
    BY DEF Positions, Wire
  <2>. QED
    BY <2>1, <2>2, <2>3, <2>4
<1>. QED
  BY <1>1, SessionInvAlways, PTL
================================================================================
