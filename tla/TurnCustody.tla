----------------------------- MODULE TurnCustody -----------------------------
(***************************************************************************)
(* What the continuation store promises about one saved turn, without its  *)
(* maps, deadlines, sizes and tombstones: a turn is offered to at most one *)
(* request at a time, a request that returns it makes it available again,  *)
(* a request that commits it makes it unavailable for good, and a turn may *)
(* be withdrawn at any moment, after which its holder can do nothing.      *)
(***************************************************************************)
CONSTANTS TurnIds, Holders, Nobody

VARIABLES
    phase,    \* per turn: absent, offered, held or consumed
    holder    \* per turn: the request that holds it, or Nobody

custodyVars == <<phase, holder>>

Phase == {"absent", "offered", "held", "consumed"}

Init ==
    /\ phase = [t \in TurnIds |-> "absent"]
    /\ holder = [t \in TurnIds |-> Nobody]

Kept(t) == phase'[t] = phase[t] /\ holder'[t] = holder[t]

Withdrawn(t) == phase'[t] = "absent" /\ holder'[t] = Nobody

\* Turn t enters phase p for holder h.
Moves(t, p, h) ==
    /\ phase' \in [TurnIds -> Phase]
    /\ holder' \in [TurnIds -> Holders \cup {Nobody}]
    /\ phase'[t] = p /\ holder'[t] = h

\* Making room or looking around may withdraw other turns.
OthersMayGo(t) == \A u \in TurnIds \ {t} : Kept(u) \/ Withdrawn(u)

OthersStay(t) == \A u \in TurnIds \ {t} : Kept(u)

\* A finished provider turn becomes available to one later request.
Offer(t) == phase[t] = "absent" /\ Moves(t, "offered", Nobody) /\ OthersMayGo(t)

\* A request takes an offered turn; it holds no other.
Take(t, h) ==
    /\ phase[t] = "offered"
    /\ \A u \in TurnIds : holder[u] # h
    /\ Moves(t, "held", h)
    /\ OthersMayGo(t)

\* The holder gives the turn back, or consumes it.
GiveBack(t) == phase[t] = "held" /\ Moves(t, "offered", Nobody) /\ OthersStay(t)

Consume(t) == phase[t] = "held" /\ Moves(t, "consumed", Nobody) /\ OthersStay(t)

\* Turns are withdrawn at any moment.
Withdraw ==
    /\ phase' \in [TurnIds -> Phase]
    /\ holder' \in [TurnIds -> Holders \cup {Nobody}]
    /\ \A t \in TurnIds : Kept(t) \/ Withdrawn(t)

Next ==
    \/ Withdraw
    \/ \E t \in TurnIds :
          \/ Offer(t)
          \/ \E h \in Holders : Take(t, h)
          \/ GiveBack(t)
          \/ Consume(t)

Spec == Init /\ [][Next]_custodyVars
=============================================================================
