-------------------------- MODULE ContinuationStore --------------------------
(***************************************************************************)
(* The in-memory continuation store of internal/opencodego/continuation.go.*)
(*                                                                         *)
(* A provider turn that ends in tool calls is saved under its call IDs.    *)
(* A follow-up request that carries the complete set of results reserves   *)
(* the turn through a lease (Begin); the lease is committed when upstream  *)
(* accepts the continuation and aborted otherwise.  Every operation runs   *)
(* under the store's mutex, so each is one atomic action here; the hard    *)
(* part is what the mutex does not order: leases that outlive the record   *)
(* they point to, deadlines that pass between two operations, the cleanup  *)
(* goroutine, Close, and call IDs that come back in a later turn.          *)
(*                                                                         *)
(* A lease holds a pointer to its record, so record identity matters and   *)
(* records live in a heap of RecIds.  An identity is reused only once      *)
(* neither the map nor an open lease refers to it (Go's collector).        *)
(***************************************************************************)
EXTENDS Integers, Sequences, FiniteSets, FiniteSetsExt

CONSTANTS
    CallIDs,              \* call IDs (any string; also the keys of records)
    Kinds,                \* tool kinds: function, custom
    RecIds,               \* identities of *continuationRecord objects
    Requests,             \* the requests that may hold a lease
    Turns,                \* the PendingTurn values callers may save
    ResultSets,           \* the []bridge.ToolResult values callers may submit
    TTL, ConsumingLeaseTTL, ConsumedGracePeriod,
    MaxRecords, MaxBytesPerRecord, MaxAggregateBytes,
    MaxFunctionTools,     \* bridge.DefaultMaxFunctionTools
    MaxTime,              \* bound of the clock
    NoRecord, NoCall      \* "not in the map"; NoCall is also the empty call ID

Call == [id : CallIDs, kind : Kinds]

\* A turn offered to Save: its calls in provider order, the size of its JSON
\* encoding, and whether provider, model and every name are non-empty and the
\* provider call IDs distinct (the data checks of normalizePendingTurn).
Turn == [calls : Seq(Call), bytes : Nat \ {0}, wellFormed : BOOLEAN]

Result == [id : CallIDs \cup {NoCall}, kind : Kinds]

ASSUME SetsAssumption ==
    /\ IsFiniteSet(CallIDs)
    /\ IsFiniteSet(RecIds)
    /\ NoRecord \notin RecIds \cup Requests
    /\ NoCall \notin CallIDs
    /\ Turns # {}
    /\ Turns \subseteq Turn
    /\ ResultSets \subseteq Seq(Result)

\* normalizeContinuationStoreConfig refuses every non-positive setting.
ASSUME ConfigAssumption ==
    /\ TTL \in Nat \ {0}
    /\ ConsumingLeaseTTL \in Nat \ {0}
    /\ ConsumedGracePeriod \in Nat \ {0}
    /\ MaxRecords \in Nat \ {0}
    /\ MaxBytesPerRecord \in Nat \ {0}
    /\ MaxAggregateBytes \in Nat \ {0}
    /\ MaxFunctionTools \in Nat \ {0}
    /\ MaxTime \in Nat

VARIABLES
    store,    \* the fields guarded by store.mu, with the heap of records
    leases,   \* per request, the record of its unfinished lease, or NoRecord
    clock     \* config.Now().UTC()

storeVars == <<store, leases, clock>>

-----------------------------------------------------------------------------
(* State.                                                                  *)

Status == {"unused", "pending", "consuming", "consumed", "expired"}

NoTime == -1

Record == [turn : Turns, status : Status, expiresAt : Nat, originalExpiry : Nat]

Store == [heap           : [RecIds -> Record],
          records        : [CallIDs -> RecIds \cup {NoRecord}],
          byCallID       : [CallIDs -> CallIDs \cup {NoCall}],
          expiredCallIDs : [CallIDs -> Nat \cup {NoTime}],
          totalBytes     : Nat,
          closed         : BOOLEAN]

\* The fields under store.mu, the leases and the clock have their types.
TypeOK ==
    /\ store \in Store
    /\ leases \in [Requests -> RecIds \cup {NoRecord}]
    /\ clock \in Nat

Ids(t) == {t.calls[i].id : i \in 1..Len(t.calls)}

Key(t) == t.calls[1].id

IdsOf(s, r) == Ids(s.heap[r].turn)

KeyOf(s, r) == Key(s.heap[r].turn)

IdsOfAll(s, R) == UNION {IdsOf(s, r) : r \in R}

Live(s) == {s.records[k] : k \in CallIDs} \ {NoRecord}

Tombstones(s) == {c \in CallIDs : s.expiredCallIDs[c] # NoTime}

maxExpiredIDs == MaxRecords * MaxFunctionTools

BlankRecord == [turn |-> CHOOSE t \in Turns : TRUE, status |-> "unused",
                expiresAt |-> 0, originalExpiry |-> 0]

EmptyMaps(s) ==
    [s EXCEPT !.records = [k \in CallIDs |-> NoRecord],
              !.byCallID = [c \in CallIDs |-> NoCall],
              !.expiredCallIDs = [c \in CallIDs |-> NoTime],
              !.totalBytes = 0]

NewContinuationStore ==
    [heap |-> [r \in RecIds |-> BlankRecord],
     records |-> [k \in CallIDs |-> NoRecord],
     byCallID |-> [c \in CallIDs |-> NoCall],
     expiredCallIDs |-> [c \in CallIDs |-> NoTime],
     totalBytes |-> 0,
     closed |-> FALSE]

-----------------------------------------------------------------------------
(* The *Locked helpers, as functions from store to store.                  *)

\* The sum of the sizes of a set of records.
BytesOf(s, R) == MapThenSumSet(LAMBDA r : s.heap[r].turn.bytes, R)

\* An accounting error never leaves totalBytes negative.
FloorAtZero(n) == IF n \in Nat THEN n ELSE 0

\* Fault: only the record's key leaves the index.
RemoveAllKeyOnly(s, R) ==
    LET present == {r \in R : s.records[KeyOf(s, r)] # NoRecord}
        keys == {KeyOf(s, r) : r \in present}
    IN [s EXCEPT
          !.records = [k \in CallIDs |-> IF k \in keys THEN NoRecord ELSE s.records[k]],
          !.byCallID = [c \in CallIDs |-> IF c \in keys THEN NoCall ELSE s.byCallID[c]],
          !.totalBytes = FloorAtZero(s.totalBytes - BytesOf(s, present))]

\* Fault: the bytes of a removed record are not given back.
RemoveAllKeepsBytes(s, R) ==
    LET present == {r \in R : s.records[KeyOf(s, r)] # NoRecord}
        keys == {KeyOf(s, r) : r \in present}
        ids == IdsOfAll(s, present)
    IN [s EXCEPT
          !.records = [k \in CallIDs |-> IF k \in keys THEN NoRecord ELSE s.records[k]],
          !.byCallID = [c \in CallIDs |-> IF c \in ids THEN NoCall ELSE s.byCallID[c]]]

\* removeLocked for each record of R: it looks the record up by key, drops its
\* call IDs from the index and gives its bytes back.
RemoveAll(s, R) ==
    LET present == {r \in R : s.records[KeyOf(s, r)] # NoRecord}
        keys == {KeyOf(s, r) : r \in present}
        ids == IdsOfAll(s, present)
    IN [s EXCEPT
          !.records = [k \in CallIDs |-> IF k \in keys THEN NoRecord ELSE s.records[k]],
          !.byCallID = [c \in CallIDs |-> IF c \in ids THEN NoCall ELSE s.byCallID[c]],
          !.totalBytes = FloorAtZero(s.totalBytes - BytesOf(s, present))]

\* The call IDs that gain a tombstone when the turns of R expire.  Every ID gets
\* one while there is room; at the limit, map iteration order decides which do.
EntombChoices(s, R) ==
    LET ids == IdsOfAll(s, R)
        held == Tombstones(s)
    IN {new \in SUBSET (ids \ held) :
          \/ new = ids \ held /\ Cardinality(held \cup new) =< maxExpiredIDs
          \/ Cardinality(held \cup new) = maxExpiredIDs}

Entomb(s, R, new, now) ==
    LET refreshed == IdsOfAll(s, R) \cap Tombstones(s)
    IN [s EXCEPT !.expiredCallIDs =
          [c \in CallIDs |-> IF c \in new \cup refreshed
                             THEN now + ConsumedGracePeriod
                             ELSE s.expiredCallIDs[c]]]

\* Fault: expiry removes the record but leaves its status alone.
MarkExpiredNothing(s, R) == s

MarkExpired(s, R) ==
    [s EXCEPT !.heap = [r \in RecIds |-> IF r \in R
                                         THEN [s.heap[r] EXCEPT !.status = "expired"]
                                         ELSE s.heap[r]]]

\* expireLocked for each record of R.
ExpireAll(s, R, new, now) == RemoveAll(MarkExpired(Entomb(s, R, new, now), R), R)

\* The records cleanupLocked expires, and the ones it only removes.
Due(s, now) ==
    {r \in Live(s) :
        \/ s.heap[r].status \in {"pending", "consuming"} /\ now >= s.heap[r].expiresAt
        \/ s.heap[r].status = "expired"}

\* Fault: a consumed turn is kept until the store is closed.
SpentNever(s, now) == {}

Spent(s, now) ==
    {r \in Live(s) : s.heap[r].status = "consumed" /\ now >= s.heap[r].expiresAt}

\* Tombstones last for the grace period.
Purge(s, now) ==
    [s EXCEPT !.expiredCallIDs =
       [c \in CallIDs |-> IF now >= s.expiredCallIDs[c] THEN NoTime
                                                        ELSE s.expiredCallIDs[c]]]

\* cleanupLocked: the stores one pass may leave behind.
Cleanups(s, now) ==
    LET p == Purge(s, now)
    IN {RemoveAll(ExpireAll(p, Due(p, now), new, now), Spent(p, now)) :
           new \in EntombChoices(p, Due(p, now))}

\* recordForCallLocked.  It always follows cleanupLocked at the same instant, so
\* its own deadline tests find nothing left to do and it only reads.
RecordForCall(s, c) ==
    IF c \in CallIDs /\ s.byCallID[c] # NoCall THEN s.records[s.byCallID[c]] ELSE NoRecord

-----------------------------------------------------------------------------
(* Operations.  Every error return leaves the store as cleanup left it.    *)

\* pendingTurnFitsBounds, normalizePendingTurn and the capacity and collision
\* checks of SaveContext.
Insertable(s, t) ==
    /\ t.calls # << >>
    /\ t.wellFormed
    /\ \A i, j \in 1..Len(t.calls) : t.calls[i].id = t.calls[j].id => i = j
    /\ t.bytes =< MaxBytesPerRecord
    /\ Cardinality(Live(s)) < MaxRecords
    /\ t.bytes =< MaxAggregateBytes - s.totalBytes
    /\ \A c \in Ids(t) : s.byCallID[c] = NoCall

\* Fault: the TTL is subtracted.
InsertBackdated(s, r, t, now) ==
    [s EXCEPT
       !.heap[r] = [turn |-> t, status |-> "pending",
                    expiresAt |-> now - TTL, originalExpiry |-> now - TTL],
       !.records[Key(t)] = r,
       !.byCallID = [c \in CallIDs |-> IF c \in Ids(t) THEN Key(t) ELSE s.byCallID[c]],
       !.totalBytes = s.totalBytes + t.bytes]

Insert(s, r, t, now) ==
    [s EXCEPT
       !.heap[r] = [turn |-> t, status |-> "pending",
                    expiresAt |-> now + TTL, originalExpiry |-> now + TTL],
       !.records[Key(t)] = r,
       !.byCallID = [c \in CallIDs |-> IF c \in Ids(t) THEN Key(t) ELSE s.byCallID[c]],
       !.expiredCallIDs = [c \in CallIDs |-> IF c \in Ids(t) THEN NoTime
                                                             ELSE s.expiredCallIDs[c]],
       !.totalBytes = s.totalBytes + t.bytes]

\* Identities that nothing refers to.
Unreferenced == RecIds \ (Live(store) \cup {leases[q] : q \in Requests})

\* SaveContext past its first gates (the store is open and the context was alive
\* when the lock was taken): the turn is inserted, or refused.  ctxErr says that
\* the context was canceled before the last gate.
Saved(t) ==
    /\ ~store.closed
    /\ \E c \in Cleanups(store, clock) :
          /\ Insertable(c, t)
          /\ \E r \in Unreferenced : store' = Insert(c, r, t, clock)
    /\ UNCHANGED <<leases, clock>>

SaveRefused(t, ctxErr) ==
    /\ ~store.closed
    /\ \E c \in Cleanups(store, clock) :
          /\ ctxErr \/ ~Insertable(c, t)
          /\ store' = c
    /\ UNCHANGED <<leases, clock>>

SaveContext(t, ctxErr) == (~ctxErr /\ Saved(t)) \/ SaveRefused(t, ctxErr)

\* Fault: Begin does not look at the record's status.
ReservableTwice(s, results, r) ==
    /\ results # << >>
    /\ \A i \in 1..Len(results) : RecordForCall(s, results[i].id) = r
    /\ Len(results) = Len(s.heap[r].turn.calls)

\* What Begin demands of the submitted results before it reserves record r.
Reservable(s, results, r) ==
    /\ results # << >>
    /\ \A i \in 1..Len(results) : results[i].id # NoCall
    /\ \A i, j \in 1..Len(results) : results[i].id = results[j].id => i = j
    /\ \A i \in 1..Len(results) : RecordForCall(s, results[i].id) = r
    /\ s.heap[r].status = "pending"
    /\ Len(results) = Len(s.heap[r].turn.calls)
    /\ \A i \in 1..Len(results) :
          \E j \in 1..Len(s.heap[r].turn.calls) : s.heap[r].turn.calls[j] = results[i]

Restatus(s, r, status, expiresAt) ==
    [s EXCEPT !.heap[r].status = status, !.heap[r].expiresAt = expiresAt]

Reserve(s, r, now) == Restatus(s, r, "consuming", now + ConsumingLeaseTTL)

Begin(q, results) ==
    /\ leases[q] = NoRecord
    /\ ~store.closed
    /\ \E c \in Cleanups(store, clock) :
          \/ \E r \in RecIds :
                /\ Reservable(c, results, r)
                /\ store' = Reserve(c, r, clock)
                /\ leases' = [leases EXCEPT ![q] = r]
          \/ /\ \A r \in RecIds : ~Reservable(c, results, r)
             /\ store' = c
             /\ UNCHANGED leases
    /\ UNCHANGED clock

\* Fault: an abort starts a new lifetime.
SettleFresh(s, r, commit, now) ==
    IF commit THEN {Restatus(s, r, "consumed", now + ConsumedGracePeriod)}
              ELSE {Restatus(s, r, "pending", now + TTL)}

\* What finishContext makes of a consuming record whose lease deadline has not
\* passed: commit retains it for the grace period, abort hands it back unless
\* the turn's own lifetime is over.
Settle(s, r, commit, now) ==
    IF commit THEN {Restatus(s, r, "consumed", now + ConsumedGracePeriod)}
    ELSE IF now < s.heap[r].originalExpiry
    THEN {Restatus(s, r, "pending", s.heap[r].originalExpiry)}
    ELSE {ExpireAll(s, {r}, new, now) : new \in EntombChoices(s, {r})}

\* finishContext once both context gates have passed: CommitContext (commit) or
\* Abort.  Either way lease.done is set, after which the lease refuses every call:
\* the request has no lease left.  A canceled CommitContext changes nothing.
Finish(q, commit) ==
    LET r == leases[q]
    IN /\ r # NoRecord
       /\ leases' = [leases EXCEPT ![q] = NoRecord]
       /\ IF store.closed \/ store.heap[r].status # "consuming"
          THEN UNCHANGED store
          ELSE IF clock >= store.heap[r].expiresAt
          THEN \E new \in EntombChoices(store, {r}) :
                  store' = ExpireAll(store, {r}, new, clock)
          ELSE store' \in Settle(store, r, commit, clock)
       /\ UNCHANGED clock

CommitContext(q) == Finish(q, TRUE)

Abort(q) == Finish(q, FALSE)

\* Lookup, RecordCount and Bytes read, but clean up first.
Inspect ==
    /\ ~store.closed
    /\ store' \in Cleanups(store, clock)
    /\ UNCHANGED <<leases, clock>>

\* One tick of cleanupLoop.
CleanupTick ==
    /\ ~store.closed
    /\ store' \in Cleanups(store, clock)
    /\ UNCHANGED <<leases, clock>>

\* Close drops every record without touching the ones leases still point to.
Close ==
    /\ ~store.closed
    /\ store' = [EmptyMaps(store) EXCEPT !.closed = TRUE]
    /\ UNCHANGED <<leases, clock>>

\* UTC() strips the monotonic reading, so the clock is the wall clock: it
\* usually advances, and may also be stepped back.
Tick ==
    /\ \E t \in (0..MaxTime) \ {clock} : clock' = t
    /\ UNCHANGED <<store, leases>>

-----------------------------------------------------------------------------

Init ==
    /\ store = NewContinuationStore
    /\ leases = [q \in Requests |-> NoRecord]
    /\ clock = 0

Next ==
    \/ \E t \in Turns, ctxErr \in BOOLEAN : SaveContext(t, ctxErr)
    \/ \E q \in Requests, results \in ResultSets : Begin(q, results)
    \/ \E q \in Requests : CommitContext(q)
    \/ \E q \in Requests : Abort(q)
    \/ Inspect
    \/ CleanupTick
    \/ Close
    \/ Tick

Spec == Init /\ [][Next]_storeVars

-----------------------------------------------------------------------------
(* Properties.                                                             *)

\* records and byCallID agree: the record at a key is the one with that key, and
\* exactly the call IDs of a live turn lead to it.
RecordsIndexed(s) ==
    /\ \A k \in CallIDs : s.records[k] # NoRecord =>
          /\ s.heap[s.records[k]].turn.calls # << >>
          /\ KeyOf(s, s.records[k]) = k
    /\ \A c, k \in CallIDs :
          s.byCallID[c] = k <=> s.records[k] # NoRecord /\ c \in IdsOf(s, s.records[k])

\* No call ID is both retained and marked expired.
TombstonesApart(s) == \A c \in Tombstones(s) : s.byCallID[c] = NoCall

\* The three maps agree after every operation (SaveContext, removeLocked,
\* expireLocked): live turns share no call ID, no index entry dangles, and a live
\* call ID is never reported as expired.
IndexExact == RecordsIndexed(store) /\ TombstonesApart(store)

\* Records, bytes and tombstones stay within the configured limits, and the running
\* total that Save compares with MaxAggregateBytes never drifts from the sizes of the
\* records really retained, however records leave the store.
Bounded ==
    /\ store.totalBytes = BytesOf(store, Live(store))
    /\ Cardinality(Live(store)) =< MaxRecords
    /\ store.totalBytes =< MaxAggregateBytes
    /\ Cardinality(Tombstones(store)) =< maxExpiredIDs

\* The pointer an unfinished lease holds (Begin, finishContext): the record is
\* either still the live consuming record of its key, owned by this lease alone,
\* or it was expired and is out of the map. Conversely a live consuming record
\* always has a lease that can still settle it.
LeaseCustody ==
    ~store.closed =>
       /\ \A q \in Requests : leases[q] # NoRecord =>
             \/ store.heap[leases[q]].status = "consuming" /\ leases[q] \in Live(store)
             \/ store.heap[leases[q]].status = "expired" /\ leases[q] \notin Live(store)
       /\ \A q, p \in Requests : leases[q] # NoRecord /\ leases[q] = leases[p] => q = p
       /\ \A r \in Live(store) : store.heap[r].status = "consuming" =>
             \E q \in Requests : leases[q] = r

\* What one step may do to record r.
RecordStep(r) ==
    LET old == store.heap[r]
        new == store'.heap[r]
    IN IF r \in Live(store')
       THEN \/ new = old
            \/ old.status = "pending" /\ new.status = "consuming"
            \/ /\ old.status = "consuming" /\ new.status = "pending"
               /\ new.expiresAt = old.originalExpiry /\ clock < old.originalExpiry
            \/ /\ old.status = "consuming" /\ new.status = "consumed"
               /\ clock < old.expiresAt
       ELSE \/ store'.closed
            \/ clock >= old.expiresAt
            \/ old.status = "consuming" /\ clock >= old.originalExpiry

\* What one step may do to a retained turn. A reservation comes from pending
\* only; an abort restores the original deadline and never a later one; a commit
\* needs an unexpired lease; a consumed turn stays consumed; and a turn leaves the
\* store only at Close, at its deadline, or when it is handed back after its
\* lifetime: Save never evicts a live turn to make room.
TurnHistory == [][\A r \in Live(store) : RecordStep(r)]_storeVars

\* A record past its deadline does not linger: the cleanup goroutine removes it even if
\* no request ever asks for it again, and whatever became of the one that leased it.
OverdueReclaimed ==
    \A r \in RecIds :
       LET Overdue == r \in Live(store) /\ clock >= store.heap[r].expiresAt
       IN Overdue ~> ~Overdue

\* The store implements TurnCustody: a turn out of the map is absent, whatever
\* status its object still carries, and a consuming turn is held by the request
\* whose unfinished lease points at it.
PhaseOf(r) ==
    IF \A k \in CallIDs : store.records[k] # r THEN "absent"
    ELSE CASE store.heap[r].status = "pending" -> "offered"
           [] store.heap[r].status = "consuming" -> "held"
           [] store.heap[r].status = "consumed" -> "consumed"
           [] OTHER -> "absent"

HolderOf(r) ==
    IF PhaseOf(r) = "held"
    THEN CHOOSE q \in Requests : leases[q] = r
    ELSE NoRecord

Custody == INSTANCE TurnCustody WITH
    TurnIds <- RecIds, Holders <- Requests, Nobody <- NoRecord,
    phase <- [r \in RecIds |-> PhaseOf(r)],
    holder <- [r \in RecIds |-> HolderOf(r)]

\* Every behaviour of the store is one that TurnCustody allows.
CustodySpec == Custody!Spec
=============================================================================
