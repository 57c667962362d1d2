------------------------ MODULE ResponsesHandlerProofs ------------------------
(***************************************************************************)
(* Proofs about ContinuationStore, for every choice of its constants, and  *)
(* about ResponsesHandler, for any number of requests, turns and events.   *)
(*                                                                         *)
(* The operations of the store are functions from store to store, so the   *)
(* argument of the first part is in two layers: what each *Locked helper   *)
(* does to a store value that is well indexed, and what each action then   *)
(* does to the invariant.  A step of the handlers changes the handler of   *)
(* one request, so the second part is about one handler: what each         *)
(* statement of handleResponses makes of a handler that is in order, and   *)
(* then each action.  Any number of handlers take steps of the store's own *)
(* specification, which carries the first part over to the second.         *)
(***************************************************************************)
EXTENDS ResponsesHandler, FiniteFacts


\* Records in the map are in one of the three live states.
LiveStatus(s) ==
    \A r \in Live(s) : s.heap[r].status \in {"pending", "consuming", "consumed"}

StoreOK(s) ==
    /\ s \in Store
    /\ RecordsIndexed(s)
    /\ TombstonesApart(s)
    /\ LiveStatus(s)

-----------------------------------------------------------------------------
(* Turns and the index.                                                    *)

\* The IDs of a turn are call IDs, and the key of a turn with calls is one of them.
LEMMA TurnIds ==
    ASSUME NEW t \in Turns
    PROVE  /\ Ids(t) \subseteq CallIDs
           /\ t.calls # << >> => Key(t) \in Ids(t)
<1>1. t \in Turn
  BY SetsAssumption
<1>2. t.calls \in Seq(Call)
  BY <1>1 DEF Turn
<1>3. \A i \in 1..Len(t.calls) : t.calls[i].id \in CallIDs
  <2>1. \A i \in 1..Len(t.calls) : t.calls[i] \in Call
    BY <1>2
  <2>. QED
    BY <2>1 DEF Call
<1>4. t.calls # << >> => 1 \in 1..Len(t.calls)
  BY <1>2
<1>. QED
  BY <1>3, <1>4 DEF Ids, Key

\* In a well-indexed store a live record is found under its own key.
LEMMA LiveAtKey ==
    ASSUME NEW s \in Store, RecordsIndexed(s), NEW r \in Live(s)
    PROVE  /\ r \in RecIds
           /\ s.heap[r].turn \in Turns
           /\ IdsOf(s, r) \subseteq CallIDs
           /\ KeyOf(s, r) \in IdsOf(s, r)
           /\ KeyOf(s, r) \in CallIDs
           /\ s.records[KeyOf(s, r)] = r
<1>1. PICK k \in CallIDs : s.records[k] = r /\ r # NoRecord
  BY DEF Live
<1>2. r \in RecIds
  BY <1>1 DEF Store
<1>3. s.heap[r].turn \in Turns
  BY <1>2 DEF Store, Record
<1>4. s.heap[r].turn.calls # << >> /\ KeyOf(s, r) = k
  BY <1>1 DEF RecordsIndexed
<1>. QED
  BY <1>1, <1>2, <1>3, <1>4, TurnIds DEF IdsOf, KeyOf

\* A call ID of a live turn is indexed under that turn's key, and only there.
LEMMA LiveIdIndexed ==
    ASSUME NEW s \in Store, RecordsIndexed(s), NEW r \in Live(s), NEW c \in IdsOf(s, r)
    PROVE  c \in CallIDs /\ s.byCallID[c] = KeyOf(s, r)
<1>1. c \in CallIDs /\ KeyOf(s, r) \in CallIDs /\ s.records[KeyOf(s, r)] = r /\ r # NoRecord
  BY LiveAtKey, SetsAssumption
<1>. QED
  BY <1>1 DEF RecordsIndexed

-----------------------------------------------------------------------------
(* removeLocked.                                                           *)

\* What removing live records does to each field.
LEMMA RemoveAllFields ==
    ASSUME NEW s \in Store, RecordsIndexed(s), NEW R \in SUBSET Live(s)
    PROVE  LET d == RemoveAll(s, R)
               ids == IdsOfAll(s, R)
           IN /\ d \in Store
              /\ d.heap = s.heap
              /\ d.closed = s.closed
              /\ d.expiredCallIDs = s.expiredCallIDs
              /\ d.totalBytes = FloorAtZero(s.totalBytes - BytesOf(s, R))
              /\ \A k \in CallIDs : d.records[k] = IF s.records[k] \in R THEN NoRecord
                                                                         ELSE s.records[k]
              /\ \A c \in CallIDs : d.byCallID[c] = IF c \in ids THEN NoCall
                                                                 ELSE s.byCallID[c]
<1>. DEFINE present == {r \in R : s.records[KeyOf(s, r)] # NoRecord}
            keys == {KeyOf(s, r) : r \in present}
            d == RemoveAll(s, R)
<1>1. present = R
  BY LiveAtKey, SetsAssumption
<1>2. \A k \in CallIDs : k \in keys <=> s.records[k] \in R
  <2>1. ASSUME NEW k \in CallIDs, s.records[k] \in R
        PROVE  k \in keys
    <3>1. s.records[k] # NoRecord
      BY <2>1, LiveAtKey, SetsAssumption
    <3>2. KeyOf(s, s.records[k]) = k
      BY <3>1 DEF RecordsIndexed
    <3>. QED
      BY <1>1, <2>1, <3>2
  <2>2. ASSUME NEW k \in CallIDs, k \in keys
        PROVE  s.records[k] \in R
    BY <2>2, LiveAtKey
  <2>. QED
    BY <2>1, <2>2
<1>. DEFINE recs == [k \in CallIDs |-> IF k \in keys THEN NoRecord ELSE s.records[k]]
            index == [c \in CallIDs |-> IF c \in IdsOfAll(s, present)
                                         THEN NoCall ELSE s.byCallID[c]]
            n == FloorAtZero(s.totalBytes - BytesOf(s, present))
<1>3. n \in Nat
  BY DEF FloorAtZero
<1>4. /\ recs \in [CallIDs -> RecIds \cup {NoRecord}]
      /\ index \in [CallIDs -> CallIDs \cup {NoCall}]
  BY DEF Store
<1>5. d = [s EXCEPT !.records = recs, !.byCallID = index, !.totalBytes = n]
  BY Zenon DEF RemoveAll
<1>6. /\ d \in Store
      /\ d.heap = s.heap
      /\ d.records = recs
      /\ d.byCallID = index
      /\ d.expiredCallIDs = s.expiredCallIDs
      /\ d.closed = s.closed
      /\ d.totalBytes = n
  <2>. HIDE DEF recs, index, n, d
  <2>. QED
    BY <1>3, <1>4, <1>5 DEF Store
<1>. QED
  BY <1>1, <1>2, <1>6

\* Removing live records leaves the rest of the index as it was.
LEMMA RemoveAllIndex ==
    ASSUME NEW s \in Store, RecordsIndexed(s), NEW R \in SUBSET Live(s)
    PROVE  /\ RecordsIndexed(RemoveAll(s, R))
           /\ Live(RemoveAll(s, R)) = Live(s) \ R
<1>. DEFINE d == RemoveAll(s, R)
            ids == IdsOfAll(s, R)
<1>1. /\ d.heap = s.heap
      /\ d.expiredCallIDs = s.expiredCallIDs
      /\ \A k \in CallIDs : d.records[k] = IF s.records[k] \in R THEN NoRecord
                                                                 ELSE s.records[k]
      /\ \A c \in CallIDs : d.byCallID[c] = IF c \in ids THEN NoCall ELSE s.byCallID[c]
  BY RemoveAllFields
<1>. HIDE DEF d
<1>2. \A r : IdsOf(d, r) = IdsOf(s, r) /\ KeyOf(d, r) = KeyOf(s, r)
  BY <1>1 DEF IdsOf, KeyOf
<1>3. \A k \in CallIDs : d.records[k] # NoRecord =>
          d.records[k] = s.records[k] /\ s.records[k] \notin R
  BY <1>1
<1>4. Live(d) = Live(s) \ R
  BY <1>1, SetsAssumption DEF Live
<1>5. \A k \in CallIDs : d.records[k] # NoRecord =>
          d.heap[d.records[k]].turn.calls # << >> /\ KeyOf(d, d.records[k]) = k
  BY <1>1, <1>2, <1>3 DEF RecordsIndexed
<1>6. ASSUME NEW c \in CallIDs, NEW k \in CallIDs, d.byCallID[c] = k
      PROVE  d.records[k] # NoRecord /\ c \in IdsOf(d, d.records[k])
  <2>1. c \notin ids /\ s.byCallID[c] = k
    BY <1>1, <1>6, SetsAssumption
  <2>2. s.records[k] # NoRecord /\ c \in IdsOf(s, s.records[k])
    BY <2>1 DEF RecordsIndexed
  <2>3. s.records[k] \notin R
    BY <2>1, <2>2 DEF IdsOfAll
  <2>. QED
    BY <1>1, <1>2, <2>2, <2>3
<1>7. ASSUME NEW c \in CallIDs, NEW k \in CallIDs, d.records[k] # NoRecord,
             c \in IdsOf(d, d.records[k])
      PROVE  d.byCallID[c] = k
  <2>1. d.records[k] = s.records[k] /\ s.records[k] \notin R /\ s.records[k] # NoRecord
    BY <1>3, <1>7
  <2>2. c \in IdsOf(s, s.records[k])
    BY <1>2, <1>7, <2>1
  <2>3. s.byCallID[c] = k
    BY <2>1, <2>2 DEF RecordsIndexed
  <2>4. ASSUME NEW r \in R, c \in IdsOf(s, r)
        PROVE  FALSE
    <3>1. s.byCallID[c] = KeyOf(s, r) /\ s.records[KeyOf(s, r)] = r
      BY <2>4, LiveIdIndexed, LiveAtKey
    <3>. QED
      BY <2>1, <2>3, <3>1
  <2>. QED
    BY <1>1, <2>3, <2>4 DEF IdsOfAll
<1>8. RecordsIndexed(d)
  BY <1>5, <1>6, <1>7 DEF RecordsIndexed
<1>. QED
  BY <1>4, <1>8 DEF d

-----------------------------------------------------------------------------
(* expireLocked and cleanupLocked.                                         *)

\* The state between marking and removing: the turns and the maps of live records are
\* as they were, and there are no tombstones but the old ones and the chosen ones.
LEMMA MarkFields ==
    ASSUME NEW s \in Store, NEW R \in SUBSET RecIds, NEW now \in Nat,
           NEW new \in EntombChoices(s, R),
           NEW e, e = MarkExpired(Entomb(s, R, new, now), R)
    PROVE  /\ e \in Store
           /\ e.heap = [r \in RecIds |-> IF r \in R
                                         THEN [s.heap[r] EXCEPT !.status = "expired"]
                                         ELSE s.heap[r]]
           /\ \A r \in RecIds : e.heap[r].turn = s.heap[r].turn
           /\ e.records = s.records
           /\ e.byCallID = s.byCallID
           /\ \A c \in CallIDs : e.expiredCallIDs[c] # NoTime =>
                 c \in Tombstones(s) \cup new
           /\ e.totalBytes = s.totalBytes
           /\ e.closed = s.closed
           /\ new \subseteq IdsOfAll(s, R)
<1>. DEFINE tombs == [c \in CallIDs |-> IF c \in new \cup (IdsOfAll(s, R) \cap Tombstones(s))
                                        THEN now + ConsumedGracePeriod
                                        ELSE s.expiredCallIDs[c]]
            heap == [r \in RecIds |-> IF r \in R THEN [s.heap[r] EXCEPT !.status = "expired"]
                                                 ELSE s.heap[r]]
<1>1. new \subseteq IdsOfAll(s, R)
  BY DEF EntombChoices
<1>2. tombs \in [CallIDs -> Nat \cup {NoTime}]
  BY ConfigAssumption DEF Store
<1>3. heap \in [RecIds -> Record]
  BY DEF Store, Record, Status
<1>4. /\ e \in Store
      /\ e.heap = heap
      /\ e.records = s.records
      /\ e.byCallID = s.byCallID
      /\ e.expiredCallIDs = tombs
      /\ e.totalBytes = s.totalBytes
      /\ e.closed = s.closed
  <2>1. Entomb(s, R, new, now) = [s EXCEPT !.expiredCallIDs = tombs]
    BY Zenon DEF Entomb
  <2>2. [s EXCEPT !.expiredCallIDs = tombs].heap = s.heap
    BY DEF Store
  <2>3. e = [[s EXCEPT !.expiredCallIDs = tombs] EXCEPT !.heap = heap]
    BY <2>1, <2>2 DEF MarkExpired
  <2>. HIDE DEF tombs, heap
  <2>. QED
    BY <1>2, <1>3, <2>3 DEF Store
<1>5. \A r \in RecIds : e.heap[r].turn = s.heap[r].turn
  BY <1>4 DEF Store, Record
<1>6. \A c \in CallIDs : tombs[c] # NoTime => c \in Tombstones(s) \cup new
  BY DEF Tombstones
<1>. HIDE DEF tombs
<1>. QED
  BY <1>1, <1>4, <1>5, <1>6

\* Expiring live records marks them, takes them out of the map and leaves
\* tombstones for call IDs that no longer lead anywhere.
LEMMA ExpireAllOK ==
    ASSUME NEW s \in Store, RecordsIndexed(s), TombstonesApart(s),
           NEW R \in SUBSET Live(s), NEW now \in Nat, NEW new \in EntombChoices(s, R)
    PROVE  LET d == ExpireAll(s, R, new, now)
           IN /\ d \in Store
              /\ RecordsIndexed(d)
              /\ TombstonesApart(d)
              /\ Live(d) = Live(s) \ R
              /\ d.closed = s.closed
              /\ \A r \in RecIds :
                    d.heap[r] = IF r \in R THEN [s.heap[r] EXCEPT !.status = "expired"]
                                           ELSE s.heap[r]
<1>. DEFINE heap == [r \in RecIds |-> IF r \in R THEN [s.heap[r] EXCEPT !.status = "expired"]
                                                 ELSE s.heap[r]]
            e == MarkExpired(Entomb(s, R, new, now), R)
            d == RemoveAll(e, R)
<1>1. R \in SUBSET RecIds
  BY LiveAtKey
<1>2. /\ e \in Store
      /\ e.heap = heap
      /\ \A r \in RecIds : e.heap[r].turn = s.heap[r].turn
      /\ e.records = s.records
      /\ e.byCallID = s.byCallID
      /\ \A c \in CallIDs : e.expiredCallIDs[c] # NoTime =>
            c \in Tombstones(s) \cup new
      /\ e.totalBytes = s.totalBytes
      /\ e.closed = s.closed
      /\ new \subseteq IdsOfAll(s, R)
  <2>1. e = MarkExpired(Entomb(s, R, new, now), R)
    OBVIOUS
  <2>. HIDE DEF e
  <2>. QED
    BY <1>1, <2>1, MarkFields
<1>3. \A c \in CallIDs : e.expiredCallIDs[c] # NoTime => c \in Tombstones(s) \cup new
  BY <1>2
<1>4. /\ e \in Store
      /\ e.heap = heap
      /\ e.records = s.records
      /\ e.byCallID = s.byCallID
      /\ e.closed = s.closed
      /\ new \subseteq IdsOfAll(s, R)
  BY <1>2
<1>5. \A r \in RecIds : e.heap[r].turn = s.heap[r].turn
  BY <1>2
<1>6. Live(e) = Live(s)
  BY <1>4 DEF Live
<1>7. RecordsIndexed(e)
  <2>1. \A k \in CallIDs : s.records[k] # NoRecord => s.records[k] \in RecIds
    BY DEF Store
  <2>. QED
    BY <1>4, <1>5, <2>1 DEF RecordsIndexed, IdsOf, KeyOf
<1>8. IdsOfAll(e, R) = IdsOfAll(s, R)
  BY <1>5, LiveAtKey DEF IdsOfAll, IdsOf
<1>. HIDE DEF e, heap
<1>9. /\ d \in Store
      /\ d.heap = e.heap
      /\ d.closed = e.closed
      /\ d.expiredCallIDs = e.expiredCallIDs
      /\ \A c \in CallIDs : d.byCallID[c] = IF c \in IdsOfAll(s, R) THEN NoCall
                                                                    ELSE e.byCallID[c]
  BY <1>4, <1>6, <1>7, <1>8, RemoveAllFields DEF IdsOfAll
<1>10. RecordsIndexed(d) /\ Live(d) = Live(s) \ R
  BY <1>4, <1>6, <1>7, RemoveAllIndex
<1>. HIDE DEF d
<1>11. TombstonesApart(d)
  <2>1. \A c \in CallIDs : d.expiredCallIDs[c] # NoTime /\ c \notin IdsOfAll(s, R)
           => s.expiredCallIDs[c] # NoTime
    BY <1>3, <1>4, <1>9 DEF Tombstones
  <2>. QED
    BY <1>4, <1>9, <2>1 DEF TombstonesApart, Tombstones
<1>12. d = ExpireAll(s, R, new, now)
  BY DEF d, e, ExpireAll
<1>. QED
  BY <1>4, <1>9, <1>10, <1>11, <1>12 DEF heap

\* Purging tombstones touches nothing else and adds none.
LEMMA PurgeFields ==
    ASSUME NEW s \in Store, NEW now \in Nat
    PROVE  LET p == Purge(s, now)
           IN /\ p \in Store
              /\ p.heap = s.heap
              /\ p.records = s.records
              /\ p.byCallID = s.byCallID
              /\ p.totalBytes = s.totalBytes
              /\ p.closed = s.closed
              /\ Tombstones(p) \subseteq Tombstones(s)
<1>. DEFINE p == Purge(s, now)
            tombs == [c \in CallIDs |-> IF now >= s.expiredCallIDs[c]
                                        THEN NoTime ELSE s.expiredCallIDs[c]]
<1>1. tombs \in [CallIDs -> Nat \cup {NoTime}]
  BY DEF Store, NoTime
<1>2. p = [s EXCEPT !.expiredCallIDs = tombs]
  BY Zenon DEF Purge
<1>3. /\ p \in Store
      /\ p.heap = s.heap
      /\ p.records = s.records
      /\ p.byCallID = s.byCallID
      /\ p.totalBytes = s.totalBytes
      /\ p.closed = s.closed
      /\ p.expiredCallIDs = tombs
  <2>. HIDE DEF tombs, p
  <2>. QED
    BY <1>1, <1>2 DEF Store
<1>4. \A c \in CallIDs : tombs[c] # NoTime => s.expiredCallIDs[c] # NoTime
  OBVIOUS
<1>. HIDE DEF tombs, p
<1>. QED
  BY <1>3, <1>4 DEF Tombstones, p

\* What one pass of cleanupLocked does: the due records are expired, the spent
\* ones dropped, every other record keeps its place and its contents.
LEMMA CleanupsOK ==
    ASSUME NEW s, StoreOK(s), NEW now \in Nat, NEW d \in Cleanups(s, now)
    PROVE  /\ StoreOK(d)
           /\ Live(d) = Live(s) \ (Due(s, now) \cup Spent(s, now))
           /\ d.closed = s.closed
           /\ \A r \in RecIds :
                 d.heap[r] = IF r \in Due(s, now)
                             THEN [s.heap[r] EXCEPT !.status = "expired"]
                             ELSE s.heap[r]
<1>. DEFINE p == Purge(s, now)
            due == Due(p, now)
            spent == Spent(p, now)
<1>1. /\ p \in Store
      /\ p.heap = s.heap
      /\ p.records = s.records
      /\ p.byCallID = s.byCallID
      /\ p.closed = s.closed
      /\ Tombstones(p) \subseteq Tombstones(s)
  BY PurgeFields DEF StoreOK
<1>. HIDE DEF p
<1>2. Live(p) = Live(s) /\ due = Due(s, now) /\ spent = Spent(s, now)
  BY <1>1 DEF Live, Due, Spent
<1>3. RecordsIndexed(p)
  BY <1>1 DEF StoreOK, RecordsIndexed, IdsOf, KeyOf
<1>4. TombstonesApart(p)
  BY <1>1 DEF StoreOK, TombstonesApart
<1>5. PICK new \in EntombChoices(p, due) :
         d = RemoveAll(ExpireAll(p, due, new, now), spent)
  BY Zenon DEF Cleanups, p
<1>. DEFINE e == ExpireAll(p, due, new, now)
<1>6. due \in SUBSET Live(p) /\ spent \in SUBSET Live(p) /\ spent \cap due = {}
  BY DEF Due, Spent
<1>. HIDE DEF due, spent
<1>7. /\ e \in Store
      /\ RecordsIndexed(e)
      /\ TombstonesApart(e)
      /\ Live(e) = Live(p) \ due
      /\ e.closed = p.closed
      /\ \A r \in RecIds :
            e.heap[r] = IF r \in due THEN [p.heap[r] EXCEPT !.status = "expired"]
                                     ELSE p.heap[r]
  BY <1>1, <1>3, <1>4, <1>6, ExpireAllOK
<1>. HIDE DEF e
<1>8. spent \in SUBSET Live(e)
  BY <1>6, <1>7
<1>9. /\ d \in Store
      /\ d.heap = e.heap
      /\ d.closed = e.closed
      /\ d.expiredCallIDs = e.expiredCallIDs
      /\ \A c \in CallIDs : d.byCallID[c] \in {NoCall, e.byCallID[c]}
  BY <1>5, <1>7, <1>8, RemoveAllFields DEF e
<1>10. RecordsIndexed(d) /\ Live(d) = Live(e) \ spent
  BY <1>5, <1>7, <1>8, RemoveAllIndex DEF e
<1>11. TombstonesApart(d)
  BY <1>7, <1>9 DEF TombstonesApart, Tombstones
<1>12. Live(d) = Live(s) \ (Due(s, now) \cup Spent(s, now))
  BY <1>2, <1>7, <1>10
<1>13. \A r \in RecIds :
          d.heap[r] = IF r \in Due(s, now) THEN [s.heap[r] EXCEPT !.status = "expired"]
                                           ELSE s.heap[r]
  BY <1>1, <1>2, <1>7, <1>9
<1>14. LiveStatus(d)
  <2>. SUFFICES ASSUME NEW r \in Live(d)
                PROVE  d.heap[r].status \in {"pending", "consuming", "consumed"}
    BY DEF LiveStatus
  <2>1. r \in Live(s) /\ r \notin Due(s, now) /\ r \in RecIds
    BY <1>12, LiveAtKey DEF StoreOK
  <2>. QED
    BY <1>13, <2>1 DEF StoreOK, LiveStatus
<1>. QED
  BY <1>1, <1>7, <1>9, <1>10, <1>11, <1>12, <1>13, <1>14 DEF StoreOK

-----------------------------------------------------------------------------
(* Insertion and changes of status.                                        *)

\* Saving an acceptable turn adds one pending record and disturbs no other.
LEMMA InsertOK ==
    ASSUME NEW s, StoreOK(s), NEW t \in Turns, Insertable(s, t),
           NEW r \in RecIds, r \notin Live(s), NEW now \in Nat
    PROVE  LET d == Insert(s, r, t, now)
           IN /\ StoreOK(d)
              /\ Live(d) = Live(s) \cup {r}
              /\ d.closed = s.closed
              /\ d.heap[r].status = "pending"
              /\ d.heap[r].turn = t
              /\ \A u \in RecIds \ {r} : d.heap[u] = s.heap[u]
              /\ d.totalBytes = s.totalBytes + t.bytes
              /\ Tombstones(d) \subseteq Tombstones(s)
<1>. DEFINE d == Insert(s, r, t, now)
            rec == [turn |-> t, status |-> "pending",
                    expiresAt |-> now + TTL, originalExpiry |-> now + TTL]
            index == [c \in CallIDs |-> IF c \in Ids(t) THEN Key(t) ELSE s.byCallID[c]]
            tombs == [c \in CallIDs |-> IF c \in Ids(t) THEN NoTime ELSE s.expiredCallIDs[c]]
<1>1. s \in Store /\ RecordsIndexed(s) /\ TombstonesApart(s) /\ LiveStatus(s)
  BY DEF StoreOK
<1>2. Ids(t) \subseteq CallIDs /\ Key(t) \in Ids(t) /\ t.calls # << >>
  BY TurnIds DEF Insertable
<1>3. \A c \in Ids(t) : s.byCallID[c] = NoCall
  BY DEF Insertable
<1>4. rec \in Record
  BY ConfigAssumption DEF Record, Status
<1>5. index \in [CallIDs -> CallIDs \cup {NoCall}] /\ tombs \in [CallIDs -> Nat \cup {NoTime}]
  BY <1>1, <1>2 DEF Store
<1>6. s.totalBytes + t.bytes \in Nat
  BY <1>1, SetsAssumption DEF Store, Turn
<1>7. d = [s EXCEPT !.heap[r] = rec, !.records[Key(t)] = r, !.byCallID = index,
                    !.expiredCallIDs = tombs, !.totalBytes = s.totalBytes + t.bytes]
  BY Zenon DEF Insert
<1>8. /\ d \in Store
      /\ d.heap = [s.heap EXCEPT ![r] = rec]
      /\ d.records = [s.records EXCEPT ![Key(t)] = r]
      /\ d.byCallID = index
      /\ d.expiredCallIDs = tombs
      /\ d.closed = s.closed
      /\ d.totalBytes = s.totalBytes + t.bytes
  <2>. HIDE DEF d, rec, index, tombs
  <2>. QED
    BY <1>1, <1>2, <1>4, <1>5, <1>6, <1>7 DEF Store
<1>. HIDE DEF d
<1>9. s.records[Key(t)] = NoRecord
  <2>. SUFFICES ASSUME s.records[Key(t)] # NoRecord
                PROVE  FALSE
    OBVIOUS
  <2>1. s.records[Key(t)] \in Live(s) /\ KeyOf(s, s.records[Key(t)]) = Key(t)
    BY <1>1, <1>2 DEF Live, RecordsIndexed
  <2>2. s.byCallID[Key(t)] = Key(t)
    BY <1>1, <2>1, LiveAtKey, LiveIdIndexed
  <2>. QED
    BY <1>2, <1>3, <2>2, SetsAssumption
<1>10. \A k \in CallIDs : k # Key(t) => d.records[k] = s.records[k] /\ d.records[k] # r
  BY <1>1, <1>2, <1>8, SetsAssumption DEF Live, Store
<1>11. d.records[Key(t)] = r /\ r # NoRecord
  BY <1>1, <1>2, <1>8, SetsAssumption DEF Store
<1>12. d.heap[r] = rec /\ \A u \in RecIds \ {r} : d.heap[u] = s.heap[u]
  BY <1>1, <1>8 DEF Store
<1>13. Live(d) = Live(s) \cup {r}
  BY <1>2, <1>9, <1>10, <1>11 DEF Live
<1>14. \A k \in CallIDs : k # Key(t) /\ s.records[k] # NoRecord =>
          d.heap[d.records[k]] = s.heap[s.records[k]]
  BY <1>1, <1>10, <1>12 DEF Store
<1>15. ASSUME NEW k \in CallIDs, d.records[k] # NoRecord
       PROVE  d.heap[d.records[k]].turn.calls # << >> /\ KeyOf(d, d.records[k]) = k
  <2>1. CASE k = Key(t)
    BY <1>2, <1>11, <1>12, <2>1 DEF KeyOf
  <2>2. CASE k # Key(t)
    BY <1>1, <1>10, <1>14, <1>15, <2>2 DEF KeyOf, RecordsIndexed
  <2>. QED
    BY <2>1, <2>2
<1>16. ASSUME NEW c \in CallIDs, NEW k \in CallIDs
       PROVE  d.byCallID[c] = k <=> d.records[k] # NoRecord /\ c \in IdsOf(d, d.records[k])
  <2>1. CASE k = Key(t)
    <3>1. IdsOf(d, d.records[k]) = Ids(t)
      BY <1>11, <1>12, <2>1 DEF IdsOf
    <3>2. s.byCallID[c] # Key(t)
      BY <1>1, <1>2, <1>9 DEF RecordsIndexed
    <3>. QED
      BY <1>8, <1>11, <2>1, <3>1, <3>2
  <2>2. CASE k # Key(t)
    <3>1. d.records[k] = s.records[k]
      BY <1>10, <2>2
    <3>2. s.records[k] # NoRecord => IdsOf(d, d.records[k]) = IdsOf(s, s.records[k])
      BY <1>14, <2>2 DEF IdsOf
    <3>3. s.byCallID[c] = k <=> s.records[k] # NoRecord /\ c \in IdsOf(s, s.records[k])
      BY <1>1 DEF RecordsIndexed
    <3>4. c \in Ids(t) => s.byCallID[c] # k /\ d.byCallID[c] # k
      BY <1>3, <1>8, <2>2, SetsAssumption
    <3>5. c \notin Ids(t) => d.byCallID[c] = s.byCallID[c]
      BY <1>8
    <3>. QED
      BY <3>1, <3>2, <3>3, <3>4, <3>5
  <2>. QED
    BY <2>1, <2>2
<1>17. RecordsIndexed(d)
  BY <1>15, <1>16 DEF RecordsIndexed
<1>18. TombstonesApart(d)
  BY <1>1, <1>8 DEF TombstonesApart, Tombstones
<1>19. LiveStatus(d)
  <2>1. \A u \in Live(s) : u \in RecIds /\ u # r
    BY <1>1, LiveAtKey
  <2>. QED
    BY <1>1, <1>12, <1>13, <2>1 DEF LiveStatus
<1>20. Tombstones(d) \subseteq Tombstones(s)
  BY <1>8 DEF Tombstones
<1>. QED
  BY <1>8, <1>12, <1>13, <1>17, <1>18, <1>19, <1>20 DEF StoreOK, d

\* Changing the status and deadline of a live record leaves the maps alone.
LEMMA RestatusOK ==
    ASSUME NEW s, StoreOK(s), NEW r \in Live(s), NEW x \in Nat,
           NEW st \in {"pending", "consuming", "consumed"}
    PROVE  LET d == Restatus(s, r, st, x)
           IN /\ StoreOK(d)
              /\ Live(d) = Live(s)
              /\ d.closed = s.closed
              /\ d.heap[r].status = st
              /\ d.heap[r].expiresAt = x
              /\ d.heap[r].originalExpiry = s.heap[r].originalExpiry
              /\ \A u \in RecIds \ {r} : d.heap[u] = s.heap[u]
              /\ \A u \in RecIds : d.heap[u].turn = s.heap[u].turn
              /\ d.totalBytes = s.totalBytes
              /\ Tombstones(d) = Tombstones(s)
<1>. DEFINE d == Restatus(s, r, st, x)
            rec == [s.heap[r] EXCEPT !.status = st, !.expiresAt = x]
<1>1. s \in Store /\ RecordsIndexed(s) /\ TombstonesApart(s) /\ LiveStatus(s)
  BY DEF StoreOK
<1>2. r \in RecIds
  BY <1>1, LiveAtKey
<1>3. /\ rec \in Record
      /\ rec.turn = s.heap[r].turn
      /\ rec.status = st
      /\ rec.expiresAt = x
      /\ rec.originalExpiry = s.heap[r].originalExpiry
  <2>1. s.heap[r] \in Record
    BY <1>1, <1>2 DEF Store
  <2>2. st \in Status
    BY DEF Status
  <2>. QED
    BY <2>1, <2>2 DEF Record
<1>4. d.heap = [s.heap EXCEPT ![r] = rec]
  BY <1>1, <1>2 DEF Store, Restatus
<1>5. /\ d.records = s.records
      /\ d.byCallID = s.byCallID
      /\ d.expiredCallIDs = s.expiredCallIDs
      /\ d.totalBytes = s.totalBytes
      /\ d.closed = s.closed
  BY <1>1 DEF Store, Restatus
<1>6. d \in Store
  <2>1. d.heap \in [RecIds -> Record]
    BY <1>1, <1>3, <1>4 DEF Store
  <2>. QED
    BY <1>1, <1>5, <2>1 DEF Store, Restatus
<1>. HIDE DEF d
<1>7. d.heap[r] = rec /\ \A u \in RecIds \ {r} : d.heap[u] = s.heap[u]
  BY <1>1, <1>2, <1>4 DEF Store
<1>8. \A u \in RecIds : d.heap[u].turn = s.heap[u].turn
  BY <1>3, <1>7
<1>9. Live(d) = Live(s)
  BY <1>5 DEF Live
<1>10. RecordsIndexed(d)
  <2>1. \A k \in CallIDs : s.records[k] # NoRecord => s.records[k] \in RecIds
    BY <1>1 DEF Store
  <2>. QED
    BY <1>1, <1>5, <1>8, <2>1 DEF RecordsIndexed, IdsOf, KeyOf
<1>11. TombstonesApart(d)
  BY <1>1, <1>5 DEF TombstonesApart, Tombstones
<1>12. LiveStatus(d)
  BY <1>1, <1>3, <1>7, <1>9, LiveAtKey DEF LiveStatus
<1>13. Tombstones(d) = Tombstones(s)
  BY <1>5 DEF Tombstones
<1>. QED
  BY <1>3, <1>5, <1>6, <1>7, <1>8, <1>9, <1>10, <1>11, <1>12, <1>13 DEF StoreOK, d

-----------------------------------------------------------------------------
(* The inductive invariant.  Neither the index nor lease custody is        *)
(* inductive alone: custody needs live records to be found under their     *)
(* keys, so that expiring a lease's record removes that record and not a   *)
(* later one saved under the same call ID.                                 *)

IInv == TypeOK /\ StoreOK(store) /\ LeaseCustody

\* A new store satisfies the invariant (NewContinuationStore).
LEMMA InitIInv == Init => IInv
<1>. SUFFICES ASSUME Init
              PROVE  IInv
  OBVIOUS
<1>1. BlankRecord \in Record
  BY SetsAssumption DEF BlankRecord, Record, Status
<1>2. /\ store \in Store
      /\ store.heap = [r \in RecIds |-> BlankRecord]
      /\ store.records = [k \in CallIDs |-> NoRecord]
      /\ store.byCallID = [c \in CallIDs |-> NoCall]
      /\ store.expiredCallIDs = [c \in CallIDs |-> NoTime]
  BY <1>1 DEF Init, NewContinuationStore, Store
<1>3. Live(store) = {} /\ Tombstones(store) = {}
  BY <1>2 DEF Live, Tombstones
<1>4. StoreOK(store)
  BY <1>2, <1>3, SetsAssumption
  DEF StoreOK, RecordsIndexed, TombstonesApart, LiveStatus
<1>5. TypeOK
  BY <1>2 DEF Init, TypeOK
<1>6. LeaseCustody
  BY <1>3 DEF Init, LeaseCustody
<1>. QED
  BY <1>4, <1>5, <1>6 DEF IInv

\* A cleanup pass keeps custody: a leased record it expires is out of the map
\* and marked, so its lease can no longer settle it.
LEMMA CleanupCustody ==
    ASSUME IInv, ~store.closed, NEW c \in Cleanups(store, clock)
    PROVE  /\ StoreOK(c)
           /\ ~c.closed
           /\ Live(c) \subseteq Live(store)
           /\ \A r \in Live(c) : r \in RecIds /\ c.heap[r] = store.heap[r]
           /\ \A q \in Requests : leases[q] # NoRecord =>
                 \/ c.heap[leases[q]].status = "consuming" /\ leases[q] \in Live(c)
                 \/ c.heap[leases[q]].status = "expired" /\ leases[q] \notin Live(c)
           /\ \A r \in Live(c) : c.heap[r].status = "consuming" =>
                 \E q \in Requests : leases[q] = r
<1>1. /\ StoreOK(store)
      /\ clock \in Nat
      /\ leases \in [Requests -> RecIds \cup {NoRecord}]
      /\ LeaseCustody
  BY DEF IInv, TypeOK
<1>2. /\ StoreOK(c)
      /\ Live(c) = Live(store) \ (Due(store, clock) \cup Spent(store, clock))
      /\ c.closed = store.closed
      /\ \A r \in RecIds :
            c.heap[r] = IF r \in Due(store, clock)
                        THEN [store.heap[r] EXCEPT !.status = "expired"]
                        ELSE store.heap[r]
  BY <1>1, CleanupsOK
<1>3. \A r \in Live(c) : r \in RecIds /\ c.heap[r] = store.heap[r]
  BY <1>1, <1>2, LiveAtKey DEF StoreOK
<1>4. ASSUME NEW q \in Requests, leases[q] # NoRecord
      PROVE  \/ c.heap[leases[q]].status = "consuming" /\ leases[q] \in Live(c)
             \/ c.heap[leases[q]].status = "expired" /\ leases[q] \notin Live(c)
  <2>1. leases[q] \in RecIds
    BY <1>1, <1>4
  <2>2. store.heap[leases[q]] \in Record
    BY <1>1, <2>1 DEF StoreOK, Store
  <2>3. CASE leases[q] \in Due(store, clock)
    BY <1>2, <2>1, <2>2, <2>3 DEF Record
  <2>4. CASE leases[q] \notin Due(store, clock)
    <3>1. c.heap[leases[q]] = store.heap[leases[q]]
      BY <1>2, <2>1, <2>4
    <3>2. \/ store.heap[leases[q]].status = "consuming" /\ leases[q] \in Live(store)
          \/ store.heap[leases[q]].status = "expired" /\ leases[q] \notin Live(store)
      BY <1>1, <1>4 DEF LeaseCustody
    <3>3. store.heap[leases[q]].status = "consuming" => leases[q] \notin Spent(store, clock)
      BY DEF Spent
    <3>. QED
      BY <1>2, <2>4, <3>1, <3>2, <3>3
  <2>. QED
    BY <2>3, <2>4
<1>5. \A r \in Live(c) : c.heap[r].status = "consuming" => \E q \in Requests : leases[q] = r
  BY <1>1, <1>2, <1>3 DEF LeaseCustody
<1>. QED
  BY <1>2, <1>3, <1>4, <1>5

\* A pass of cleanupLocked, alone or at the start of another operation, keeps the
\* invariant.
LEMMA CleanupIInv ==
    IInv /\ ~store.closed /\ store' \in Cleanups(store, clock) /\ UNCHANGED <<leases, clock>>
       => IInv'
<1>. SUFFICES ASSUME IInv, ~store.closed, store' \in Cleanups(store, clock),
                     UNCHANGED <<leases, clock>>
              PROVE  IInv'
  OBVIOUS
<1>1. /\ StoreOK(store)'
      /\ \A q \in Requests : leases'[q] # NoRecord =>
            \/ store'.heap[leases'[q]].status = "consuming" /\ leases'[q] \in Live(store')
            \/ store'.heap[leases'[q]].status = "expired" /\ leases'[q] \notin Live(store')
      /\ \A r \in Live(store') : store'.heap[r].status = "consuming" =>
            \E q \in Requests : leases'[q] = r
  BY CleanupCustody
<1>2. TypeOK'
  BY <1>1 DEF IInv, TypeOK, StoreOK
<1>3. LeaseCustody'
  BY <1>1 DEF IInv, LeaseCustody
<1>. QED
  BY <1>1, <1>2, <1>3 DEF IInv

\* SaveContext keeps the invariant, whether it stores the turn or refuses it.
LEMMA SaveIInv ==
    ASSUME IInv, NEW t \in Turns, NEW ctxErr \in BOOLEAN, SaveContext(t, ctxErr)
    PROVE  IInv'
<1>1. ~store.closed /\ UNCHANGED <<leases, clock>>
  BY DEF SaveContext, Saved, SaveRefused
<1>2. PICK c \in Cleanups(store, clock) :
         \/ Insertable(c, t) /\ \E r \in Unreferenced : store' = Insert(c, r, t, clock)
         \/ store' = c
  BY DEF SaveContext, Saved, SaveRefused
<1>3. CASE store' = c
  BY <1>1, <1>2, <1>3, CleanupIInv
<1>4. CASE Insertable(c, t) /\ \E r \in Unreferenced : store' = Insert(c, r, t, clock)
  <2>1. PICK r \in Unreferenced : store' = Insert(c, r, t, clock)
    BY <1>4
  <2>2. r \in RecIds /\ r \notin Live(store) /\ \A q \in Requests : leases[q] # r
    BY DEF Unreferenced
  <2>3. /\ StoreOK(c)
        /\ ~c.closed
        /\ Live(c) \subseteq Live(store)
        /\ \A u \in Live(c) : u \in RecIds
        /\ \A q \in Requests : leases[q] # NoRecord =>
              \/ c.heap[leases[q]].status = "consuming" /\ leases[q] \in Live(c)
              \/ c.heap[leases[q]].status = "expired" /\ leases[q] \notin Live(c)
        /\ \A u \in Live(c) : c.heap[u].status = "consuming" =>
              \E q \in Requests : leases[q] = u
    BY <1>1, CleanupCustody
  <2>4. clock \in Nat /\ leases \in [Requests -> RecIds \cup {NoRecord}]
    BY DEF IInv, TypeOK
  <2>5. /\ StoreOK(store')
        /\ Live(store') = Live(c) \cup {r}
        /\ store'.closed = c.closed
        /\ store'.heap[r].status = "pending"
        /\ \A u \in RecIds \ {r} : store'.heap[u] = c.heap[u]
    BY <1>4, <2>1, <2>2, <2>3, <2>4, InsertOK
  <2>6. TypeOK'
    BY <1>1, <2>4, <2>5 DEF TypeOK, StoreOK
  <2>7. \A q \in Requests : leases'[q] # NoRecord =>
           \/ store'.heap[leases'[q]].status = "consuming" /\ leases'[q] \in Live(store')
           \/ store'.heap[leases'[q]].status = "expired" /\ leases'[q] \notin Live(store')
    BY <1>1, <2>2, <2>3, <2>4, <2>5
  <2>8. \A u \in Live(store') : store'.heap[u].status = "consuming" =>
           \E q \in Requests : leases'[q] = u
    BY <1>1, <2>3, <2>5
  <2>9. LeaseCustody'
    BY <1>1, <2>7, <2>8 DEF IInv, LeaseCustody
  <2>. QED
    BY <2>5, <2>6, <2>9 DEF IInv
<1>. QED
  BY <1>2, <1>3, <1>4

\* The record that results name is live and pending (Begin).
LEMMA ReservableLive ==
    ASSUME NEW c, StoreOK(c), NEW results \in ResultSets, NEW r \in RecIds,
           Reservable(c, results, r)
    PROVE  r \in Live(c) /\ c.heap[r].status = "pending"
<1>1. results \in Seq(Result) /\ results # << >>
  BY SetsAssumption DEF Reservable
<1>2. 1 \in 1..Len(results)
  BY <1>1
<1>3. RecordForCall(c, results[1].id) = r
  BY <1>2 DEF Reservable
<1>4. c.byCallID[results[1].id] \in CallIDs
  BY <1>3, SetsAssumption DEF RecordForCall, StoreOK, Store
<1>5. r = c.records[c.byCallID[results[1].id]]
  BY <1>3, SetsAssumption DEF RecordForCall
<1>. QED
  BY <1>4, <1>5, SetsAssumption DEF Live, Reservable

\* What a reservation does to the store (Begin).
LEMMA ReserveOK ==
    ASSUME NEW c, StoreOK(c), NEW r \in Live(c), NEW now \in Nat
    PROVE  LET d == Reserve(c, r, now)
           IN /\ StoreOK(d)
              /\ Live(d) = Live(c)
              /\ d.closed = c.closed
              /\ d.heap[r].status = "consuming"
              /\ \A u \in RecIds \ {r} : d.heap[u] = c.heap[u]
<1>. DEFINE st == "consuming"
            x == now + ConsumingLeaseTTL
            d == Reserve(c, r, now)
<1>1. d = Restatus(c, r, st, x)
  BY DEF Reserve
<1>2. x \in Nat /\ st \in {"pending", "consuming", "consumed"}
  BY ConfigAssumption
<1>. HIDE DEF st, x, d
<1>3. /\ StoreOK(d)
      /\ Live(d) = Live(c)
      /\ d.closed = c.closed
      /\ d.heap[r].status = st
      /\ \A u \in RecIds \ {r} : d.heap[u] = c.heap[u]
  BY <1>1, <1>2, RestatusOK
<1>. QED
  BY <1>3 DEF st, d

\* Begin keeps the invariant: the record it reserves was held by nobody.
LEMMA BeginIInv ==
    ASSUME IInv, NEW q \in Requests, NEW results \in ResultSets, Begin(q, results)
    PROVE  IInv'
<1>1. ~store.closed /\ leases[q] = NoRecord /\ UNCHANGED clock
  BY DEF Begin
<1>2. PICK c \in Cleanups(store, clock) :
         \/ \E r \in RecIds : /\ Reservable(c, results, r)
                              /\ store' = Reserve(c, r, clock)
                              /\ leases' = [leases EXCEPT ![q] = r]
         \/ store' = c /\ UNCHANGED leases
  BY DEF Begin
<1>3. CASE store' = c /\ UNCHANGED leases
  BY <1>1, <1>2, <1>3, CleanupIInv
<1>4. CASE \E r \in RecIds : /\ Reservable(c, results, r)
                             /\ store' = Reserve(c, r, clock)
                             /\ leases' = [leases EXCEPT ![q] = r]
  <2>1. PICK r \in RecIds : /\ Reservable(c, results, r)
                            /\ store' = Reserve(c, r, clock)
                            /\ leases' = [leases EXCEPT ![q] = r]
    BY <1>4
  <2>2. /\ StoreOK(c)
        /\ ~c.closed
        /\ \A u \in Live(c) : u \in RecIds
        /\ \A p \in Requests : leases[p] # NoRecord =>
              \/ c.heap[leases[p]].status = "consuming" /\ leases[p] \in Live(c)
              \/ c.heap[leases[p]].status = "expired" /\ leases[p] \notin Live(c)
        /\ \A u \in Live(c) : c.heap[u].status = "consuming" =>
              \E p \in Requests : leases[p] = u
    BY <1>1, CleanupCustody
  <2>3. r \in Live(c) /\ c.heap[r].status = "pending"
    BY <2>1, <2>2, ReservableLive
  <2>4. clock \in Nat /\ leases \in [Requests -> RecIds \cup {NoRecord}]
    BY DEF IInv, TypeOK
  <2>5. /\ StoreOK(store')
        /\ Live(store') = Live(c)
        /\ store'.closed = c.closed
        /\ store'.heap[r].status = "consuming"
        /\ \A u \in RecIds \ {r} : store'.heap[u] = c.heap[u]
    BY <2>1, <2>2, <2>3, <2>4, ReserveOK
  <2>6. TypeOK'
    BY <1>1, <2>1, <2>4, <2>5 DEF TypeOK, StoreOK
  <2>7. \A p \in Requests : leases[p] # r
    BY <2>2, <2>3, SetsAssumption
  <2>8. leases'[q] = r /\ \A p \in Requests \ {q} : leases'[p] = leases[p]
    BY <2>1, <2>4
  <2>9. \A p \in Requests : leases'[p] # NoRecord =>
           \/ store'.heap[leases'[p]].status = "consuming" /\ leases'[p] \in Live(store')
           \/ store'.heap[leases'[p]].status = "expired" /\ leases'[p] \notin Live(store')
    BY <2>2, <2>3, <2>4, <2>5, <2>7, <2>8
  <2>10. \A u \in Live(store') : store'.heap[u].status = "consuming" =>
            \E p \in Requests : leases'[p] = u
    <3>. SUFFICES ASSUME NEW u \in Live(store'), store'.heap[u].status = "consuming", u # r
                  PROVE  \E p \in Requests : leases'[p] = u
      BY <2>8
    <3>1. PICK p \in Requests : leases[p] = u
      BY <2>2, <2>5
    <3>2. u # NoRecord
      BY <2>2, <2>5, SetsAssumption
    <3>. QED
      BY <1>1, <2>8, <3>1, <3>2
  <2>11. \A p, o \in Requests : leases'[p] # NoRecord /\ leases'[p] = leases'[o] => p = o
    BY <1>1, <2>7, <2>8 DEF IInv, LeaseCustody
  <2>12. LeaseCustody'
    BY <2>9, <2>10, <2>11 DEF LeaseCustody
  <2>. QED
    BY <2>5, <2>6, <2>12 DEF IInv
<1>. QED
  BY <1>2, <1>3, <1>4

\* finishContext keeps the invariant, for a commit and for an abort, in time or late.
LEMMA FinishIInv ==
    ASSUME IInv, NEW q \in Requests, NEW commit \in BOOLEAN, Finish(q, commit)
    PROVE  IInv'
<1>. DEFINE r == leases[q]
<1>1. /\ r # NoRecord
      /\ leases' = [leases EXCEPT ![q] = NoRecord]
      /\ UNCHANGED clock
  BY DEF Finish
<1>2. /\ StoreOK(store)
      /\ clock \in Nat
      /\ leases \in [Requests -> RecIds \cup {NoRecord}]
      /\ LeaseCustody
  BY DEF IInv, TypeOK
<1>3. r \in RecIds /\ leases'[q] = NoRecord /\ \A p \in Requests \ {q} : leases'[p] = leases[p]
  BY <1>1, <1>2
<1>4. leases' \in [Requests -> RecIds \cup {NoRecord}]
  BY <1>1, <1>2
<1>. HIDE DEF r
<1>5. CASE store.closed \/ store.heap[r].status # "consuming"
  <2>1. store' = store
    BY <1>5 DEF Finish, r
  <2>2. LeaseCustody'
    <3>. SUFFICES ASSUME ~store.closed
                  PROVE  LeaseCustody'
      BY <2>1 DEF LeaseCustody
    <3>1. \A p, o \in Requests : leases'[p] # NoRecord /\ leases'[p] = leases'[o] => p = o
      BY <1>2, <1>3 DEF LeaseCustody
    <3>2. \A p \in Requests : leases'[p] # NoRecord =>
             \/ store.heap[leases'[p]].status = "consuming" /\ leases'[p] \in Live(store)
             \/ store.heap[leases'[p]].status = "expired" /\ leases'[p] \notin Live(store)
      BY <1>2, <1>3 DEF LeaseCustody
    <3>3. \A u \in Live(store) : store.heap[u].status = "consuming" =>
             \E p \in Requests : leases'[p] = u
      <4>. SUFFICES ASSUME NEW u \in Live(store), store.heap[u].status = "consuming"
                    PROVE  \E p \in Requests : leases'[p] = u
        OBVIOUS
      <4>1. PICK p \in Requests : leases[p] = u
        BY <1>2 DEF LeaseCustody
      <4>2. p # q
        BY <1>5, <4>1 DEF r
      <4>. QED
        BY <1>3, <4>1, <4>2
    <3>. QED
      BY <2>1, <3>1, <3>2, <3>3 DEF LeaseCustody
  <2>. QED
    BY <1>1, <1>2, <1>4, <2>1, <2>2 DEF IInv, TypeOK, StoreOK
<1>6. CASE ~store.closed /\ store.heap[r].status = "consuming"
  <2>1. r \in Live(store)
    BY <1>1, <1>2, <1>6 DEF LeaseCustody, r
  <2>2. \/ \E new \in EntombChoices(store, {r}) : store' = ExpireAll(store, {r}, new, clock)
        \/ store' = Restatus(store, r, "consumed", clock + ConsumedGracePeriod)
        \/ store' = Restatus(store, r, "pending", store.heap[r].originalExpiry)
    BY <1>6 DEF Finish, Settle, r
  <2>3. /\ StoreOK(store')
        /\ ~store'.closed
        /\ Live(store') = Live(store) \ {r} \/ (Live(store') = Live(store)
                                               /\ store'.heap[r].status # "consuming")
        /\ \A u \in RecIds \ {r} : store'.heap[u] = store.heap[u]
    <3>1. ASSUME NEW new \in EntombChoices(store, {r}),
                 store' = ExpireAll(store, {r}, new, clock)
          PROVE  /\ StoreOK(store')
                 /\ ~store'.closed
                 /\ Live(store') = Live(store) \ {r}
                 /\ \A u \in RecIds \ {r} : store'.heap[u] = store.heap[u]
      <4>1. /\ store' \in Store
            /\ RecordsIndexed(store')
            /\ TombstonesApart(store')
            /\ Live(store') = Live(store) \ {r}
            /\ store'.closed <=> store.closed
            /\ \A u \in RecIds :
                  store'.heap[u] = IF u \in {r}
                                   THEN [store.heap[u] EXCEPT !.status = "expired"]
                                   ELSE store.heap[u]
        <5>. DEFINE R == {r}
        <5>1. R \in SUBSET Live(store)
          BY <2>1
        <5>2. store \in Store /\ RecordsIndexed(store) /\ TombstonesApart(store)
          BY <1>2 DEF StoreOK
        <5>3. clock \in Nat
          BY <1>2
        <5>4. new \in EntombChoices(store, R) /\ store' = ExpireAll(store, R, new, clock)
          BY <3>1
        <5>. HIDE DEF R
        <5>5. /\ store' \in Store
              /\ RecordsIndexed(store')
              /\ TombstonesApart(store')
              /\ Live(store') = Live(store) \ R
              /\ store'.closed <=> store.closed
              /\ \A u \in RecIds :
                    store'.heap[u] = IF u \in R
                                     THEN [store.heap[u] EXCEPT !.status = "expired"]
                                     ELSE store.heap[u]
          BY <5>1, <5>2, <5>3, <5>4, ExpireAllOK
        <5>. QED
          BY <5>5 DEF R
      <4>2. LiveStatus(store')
        BY <1>2, <4>1, LiveAtKey DEF LiveStatus, StoreOK
      <4>. QED
        BY <1>6, <4>1, <4>2 DEF StoreOK
    <3>2. ASSUME NEW st \in {"pending", "consumed"}, NEW x \in Nat,
                 store' = Restatus(store, r, st, x)
          PROVE  /\ StoreOK(store')
                 /\ ~store'.closed
                 /\ Live(store') = Live(store)
                 /\ store'.heap[r].status # "consuming"
                 /\ \A u \in RecIds \ {r} : store'.heap[u] = store.heap[u]
      BY <1>2, <1>6, <2>1, <3>2, RestatusOK
    <3>3. clock + ConsumedGracePeriod \in Nat /\ store.heap[r].originalExpiry \in Nat
      BY <1>2, <1>3, ConfigAssumption DEF StoreOK, Store, Record
    <3>. QED
      BY <2>2, <3>1, <3>2, <3>3
  <2>4. \A p \in Requests \ {q} : leases[p] # r
    BY <1>1, <1>2, <1>6 DEF LeaseCustody, r
  <2>5. \A p \in Requests : leases'[p] # NoRecord =>
           \/ store'.heap[leases'[p]].status = "consuming" /\ leases'[p] \in Live(store')
           \/ store'.heap[leases'[p]].status = "expired" /\ leases'[p] \notin Live(store')
    <3>. SUFFICES ASSUME NEW p \in Requests, leases'[p] # NoRecord
                  PROVE  \/ /\ store'.heap[leases'[p]].status = "consuming"
                            /\ leases'[p] \in Live(store')
                         \/ /\ store'.heap[leases'[p]].status = "expired"
                            /\ leases'[p] \notin Live(store')
      OBVIOUS
    <3>1. p # q /\ leases'[p] = leases[p] /\ leases[p] # r /\ leases[p] \in RecIds
      BY <1>2, <1>3, <2>4
    <3>. QED
      BY <1>2, <1>6, <2>3, <3>1 DEF LeaseCustody
  <2>6. \A u \in Live(store') : store'.heap[u].status = "consuming" =>
           \E p \in Requests : leases'[p] = u
    <3>. SUFFICES ASSUME NEW u \in Live(store'), store'.heap[u].status = "consuming"
                  PROVE  \E p \in Requests : leases'[p] = u
      OBVIOUS
    <3>1. u # r /\ u \in Live(store) /\ u \in RecIds
      BY <1>2, <2>3, LiveAtKey DEF StoreOK
    <3>2. PICK p \in Requests : leases[p] = u
      BY <1>2, <1>6, <2>3, <3>1 DEF LeaseCustody
    <3>. QED
      BY <1>3, <3>1, <3>2 DEF r
  <2>7. \A p, o \in Requests : leases'[p] # NoRecord /\ leases'[p] = leases'[o] => p = o
    BY <1>2, <1>3, <1>6 DEF LeaseCustody
  <2>8. LeaseCustody'
    BY <2>5, <2>6, <2>7 DEF LeaseCustody
  <2>. QED
    BY <1>1, <1>2, <1>4, <2>3, <2>8 DEF IInv, TypeOK, StoreOK
<1>. QED
  BY <1>5, <1>6

\* Close keeps the invariant: the maps are empty and leases no longer matter.
LEMMA CloseIInv == IInv /\ Close => IInv'
<1>. SUFFICES ASSUME IInv, Close
              PROVE  IInv'
  OBVIOUS
<1>1. store \in Store /\ UNCHANGED <<leases, clock>>
  BY DEF IInv, StoreOK, Close
<1>2. /\ store' \in Store
      /\ store'.records = [k \in CallIDs |-> NoRecord]
      /\ store'.byCallID = [c \in CallIDs |-> NoCall]
      /\ store'.expiredCallIDs = [c \in CallIDs |-> NoTime]
      /\ store'.closed = TRUE
  BY <1>1 DEF Close, EmptyMaps, Store
<1>3. Live(store') = {} /\ Tombstones(store') = {}
  BY <1>2 DEF Live, Tombstones
<1>4. StoreOK(store')
  BY <1>2, <1>3, SetsAssumption
  DEF StoreOK, RecordsIndexed, TombstonesApart, LiveStatus
<1>. QED
  BY <1>1, <1>2, <1>4 DEF IInv, TypeOK, LeaseCustody

\* Every step of the store keeps the invariant.
LEMMA NextIInv == IInv /\ [Next]_storeVars => IInv'
<1>. SUFFICES ASSUME IInv, [Next]_storeVars
              PROVE  IInv'
  OBVIOUS
<1>1. ASSUME NEW t \in Turns, NEW ctxErr \in BOOLEAN, SaveContext(t, ctxErr)
      PROVE  IInv'
  BY <1>1, SaveIInv
<1>2. ASSUME NEW q \in Requests, NEW results \in ResultSets, Begin(q, results)
      PROVE  IInv'
  BY <1>2, BeginIInv
<1>3. ASSUME NEW q \in Requests, CommitContext(q) \/ Abort(q)
      PROVE  IInv'
  BY <1>3, FinishIInv DEF CommitContext, Abort
<1>4. CASE Inspect \/ CleanupTick
  BY <1>4, CleanupIInv DEF Inspect, CleanupTick
<1>5. CASE Close
  BY <1>5, CloseIInv
<1>6. CASE Tick
  BY <1>6 DEF Tick, IInv, TypeOK, LeaseCustody
<1>7. CASE UNCHANGED storeVars
  BY <1>7 DEF storeVars, IInv, TypeOK, LeaseCustody
<1>. QED
  BY <1>1, <1>2, <1>3, <1>4, <1>5, <1>6, <1>7 DEF Next

\* The inductive invariant holds in every state of the store: indexes, live statuses
\* and lease ownership (continuation.go: every operation under store.mu).
THEOREM IInvAlways == Spec => []IInv
BY InitIInv, NextIInv, PTL DEF Spec

\* The store's fields, leases and clock always have their types.
THEOREM TypeCorrect == Spec => []TypeOK
<1>1. IInv => TypeOK
  BY DEF IInv
<1>. QED
  BY <1>1, IInvAlways, PTL

\* records, byCallID and expiredCallIDs agree in every reachable state, for any
\* number of call IDs, records and requests (continuation.go: SaveContext,
\* cleanupLocked, expireLocked, removeLocked).
THEOREM IndexCorrect == Spec => []IndexExact
<1>1. IInv => IndexExact
  BY DEF IInv, StoreOK, IndexExact
<1>. QED
  BY <1>1, IInvAlways, PTL

\* An unfinished lease is the sole owner of a live consuming record or points at
\* a record that was expired and removed, and no consuming record is orphaned
\* (continuation.go: Begin, finishContext, cleanupLocked).
THEOREM LeaseCorrect == Spec => []LeaseCustody
<1>1. IInv => LeaseCustody
  BY DEF IInv
<1>. QED
  BY <1>1, IInvAlways, PTL

-----------------------------------------------------------------------------
(* What a step does to the turns, whichever operation it belongs to.       *)

\* A record that the step is not about stays as it is, or leaves at its deadline.
KeptOrDue(r) ==
    IF r \in Live(store') THEN store'.heap[r] = store.heap[r]
                          ELSE clock >= store.heap[r].expiresAt

\* All records but r, which need not exist yet; and no other appears.
OthersKeptOrDue(r) ==
    /\ \A u \in Live(store) \ {r} : KeptOrDue(u)
    /\ Live(store') \subseteq Live(store) \cup {r}

\* Cleanup, or nothing at all.
CleansUp ==
    /\ \A u \in Live(store) : KeptOrDue(u)
    /\ Live(store') \subseteq Live(store)
    /\ store'.closed <=> store.closed
    /\ UNCHANGED leases

Saves(r) ==
    /\ ~store.closed /\ ~store'.closed
    /\ r \in RecIds \ Live(store) /\ r \in Live(store')
    /\ store'.heap[r].status = "pending"
    /\ OthersKeptOrDue(r)
    /\ UNCHANGED leases

Reserves(q, r) ==
    /\ ~store.closed /\ ~store'.closed
    /\ r \in Live(store) /\ r \in Live(store')
    /\ store.heap[r].status = "pending" /\ store'.heap[r].status = "consuming"
    /\ OthersKeptOrDue(r)
    /\ leases[q] = NoRecord
    /\ leases' = [leases EXCEPT ![q] = r]

\* A lease that lost its record is finished without effect.
Forgets(q) ==
    /\ leases[q] # NoRecord
    /\ store.closed \/ store.heap[leases[q]].status # "consuming"
    /\ UNCHANGED store
    /\ leases' = [leases EXCEPT ![q] = NoRecord]

Settles(q, r) ==
    /\ ~store.closed /\ ~store'.closed
    /\ r \in Live(store) /\ leases[q] = r
    /\ store.heap[r].status = "consuming"
    /\ \A u \in RecIds \ {r} : store'.heap[u] = store.heap[u]
    /\ \/ /\ Live(store') = Live(store) \ {r}
          /\ clock >= store.heap[r].expiresAt \/ clock >= store.heap[r].originalExpiry
       \/ /\ Live(store') = Live(store)
          /\ store'.heap[r].status = "consumed" /\ clock < store.heap[r].expiresAt
       \/ /\ Live(store') = Live(store)
          /\ store'.heap[r].status = "pending"
          /\ store'.heap[r].expiresAt = store.heap[r].originalExpiry
          /\ clock < store.heap[r].originalExpiry
    /\ leases' = [leases EXCEPT ![q] = NoRecord]

Closes == Live(store') = {} /\ store'.closed /\ UNCHANGED leases

\* What a cleanup pass leaves is as it was, and what it takes was due.
LEMMA CleanupEffect ==
    ASSUME IInv, ~store.closed, NEW c \in Cleanups(store, clock)
    PROVE  /\ StoreOK(c) /\ ~c.closed /\ Live(c) \subseteq Live(store)
           /\ \A u \in Live(store) : u \in RecIds
           /\ \A u \in Live(c) : c.heap[u] = store.heap[u]
           /\ \A u \in Live(store) \ Live(c) : clock >= store.heap[u].expiresAt
<1>1. StoreOK(store) /\ clock \in Nat
  BY DEF IInv, TypeOK
<1>2. Live(c) = Live(store) \ (Due(store, clock) \cup Spent(store, clock))
  BY <1>1, CleanupsOK
<1>3. \A u \in Live(store) : u \in RecIds
  BY <1>1, LiveAtKey DEF StoreOK
<1>4. \A u \in Live(store) : store.heap[u].status # "expired"
  BY <1>1 DEF StoreOK, LiveStatus
<1>. QED
  BY <1>2, <1>3, <1>4, CleanupCustody DEF Due, Spent

\* The effect of Save.
LEMMA SaveEffect ==
    ASSUME IInv, NEW t \in Turns, NEW ctxErr \in BOOLEAN, SaveContext(t, ctxErr)
    PROVE  CleansUp \/ \E r \in RecIds : Saves(r)
<1>1. ~store.closed /\ UNCHANGED <<leases, clock>>
  BY DEF SaveContext, Saved, SaveRefused
<1>2. PICK c \in Cleanups(store, clock) :
         \/ Insertable(c, t) /\ \E r \in Unreferenced : store' = Insert(c, r, t, clock)
         \/ store' = c
  BY DEF SaveContext, Saved, SaveRefused
<1>3. CASE store' = c
  BY <1>1, <1>3, CleanupEffect DEF CleansUp, KeptOrDue
<1>4. CASE Insertable(c, t) /\ \E r \in Unreferenced : store' = Insert(c, r, t, clock)
  <2>1. PICK r \in Unreferenced : store' = Insert(c, r, t, clock)
    BY <1>4
  <2>2. r \in RecIds /\ r \notin Live(store) /\ r \notin Live(c) /\ StoreOK(c) /\ clock \in Nat
    BY <1>1, CleanupEffect DEF Unreferenced, IInv, TypeOK
  <2>3. /\ Live(store') = Live(c) \cup {r}
        /\ store'.closed = c.closed
        /\ store'.heap[r].status = "pending"
        /\ \A u \in RecIds \ {r} : store'.heap[u] = c.heap[u]
    BY <1>4, <2>1, <2>2, InsertOK
  <2>4. Saves(r)
    BY <1>1, <2>2, <2>3, CleanupEffect DEF Saves, OthersKeptOrDue, KeptOrDue
  <2>. QED
    BY <2>2, <2>4
<1>. QED
  BY <1>2, <1>3, <1>4

\* The effect of Begin.
LEMMA BeginEffect ==
    ASSUME IInv, NEW q \in Requests, NEW results \in ResultSets, Begin(q, results)
    PROVE  CleansUp \/ \E r \in RecIds : Reserves(q, r)
<1>1. ~store.closed /\ leases[q] = NoRecord /\ UNCHANGED clock
  BY DEF Begin
<1>2. PICK c \in Cleanups(store, clock) :
         \/ \E r \in RecIds : /\ Reservable(c, results, r)
                              /\ store' = Reserve(c, r, clock)
                              /\ leases' = [leases EXCEPT ![q] = r]
         \/ store' = c /\ UNCHANGED leases
  BY DEF Begin
<1>3. CASE store' = c /\ UNCHANGED leases
  BY <1>1, <1>3, CleanupEffect DEF CleansUp, KeptOrDue
<1>4. CASE \E r \in RecIds : /\ Reservable(c, results, r)
                             /\ store' = Reserve(c, r, clock)
                             /\ leases' = [leases EXCEPT ![q] = r]
  <2>1. PICK r \in RecIds : /\ Reservable(c, results, r)
                            /\ store' = Reserve(c, r, clock)
                            /\ leases' = [leases EXCEPT ![q] = r]
    BY <1>4
  <2>2. StoreOK(c) /\ r \in Live(c) /\ c.heap[r].status = "pending"
    BY <1>1, <2>1, CleanupEffect, ReservableLive
  <2>3. /\ Live(store') = Live(c)
        /\ store'.closed = c.closed
        /\ store'.heap[r].status = "consuming"
        /\ \A u \in RecIds \ {r} : store'.heap[u] = c.heap[u]
    BY <2>1, <2>2, ReserveOK DEF IInv, TypeOK
  <2>4. Reserves(q, r)
    BY <1>1, <2>1, <2>2, <2>3, CleanupEffect DEF Reserves, OthersKeptOrDue, KeptOrDue
  <2>. QED
    BY <2>4
<1>. QED
  BY <1>2, <1>3, <1>4

\* The effect of CommitContext and Abort.
LEMMA FinishEffect ==
    ASSUME IInv, NEW q \in Requests, NEW commit \in BOOLEAN, Finish(q, commit)
    PROVE  Forgets(q) \/ \E r \in RecIds : Settles(q, r)
<1>. DEFINE r == leases[q]
<1>1. r # NoRecord /\ leases' = [leases EXCEPT ![q] = NoRecord]
  BY DEF Finish
<1>2. StoreOK(store) /\ clock \in Nat /\ r \in RecIds /\ LeaseCustody
  BY <1>1 DEF IInv, TypeOK
<1>3. CASE store.closed \/ store.heap[r].status # "consuming"
  BY <1>1, <1>3 DEF Finish, Forgets
<1>4. CASE ~store.closed /\ store.heap[r].status = "consuming"
  <2>1. r \in Live(store)
    BY <1>1, <1>2, <1>4 DEF LeaseCustody
  <2>2. store.heap[r].expiresAt \in Nat /\ store.heap[r].originalExpiry \in Nat
    BY <1>2 DEF StoreOK, Store, Record
  <2>3. ASSUME NEW new \in EntombChoices(store, {r}),
               store' = ExpireAll(store, {r}, new, clock)
        PROVE  /\ ~store'.closed
               /\ Live(store') = Live(store) \ {r}
               /\ \A u \in RecIds \ {r} : store'.heap[u] = store.heap[u]
    <3>. DEFINE R == {r}
    <3>1. R \in SUBSET Live(store) /\ store \in Store /\ RecordsIndexed(store) /\ TombstonesApart(store)
      BY <1>2, <2>1 DEF StoreOK
    <3>2. clock \in Nat /\ new \in EntombChoices(store, R) /\ store' = ExpireAll(store, R, new, clock)
      BY <1>2, <2>3
    <3>. HIDE DEF R
    <3>3. /\ Live(store') = Live(store) \ R
          /\ store'.closed <=> store.closed
          /\ \A u \in RecIds :
                store'.heap[u] = IF u \in R THEN [store.heap[u] EXCEPT !.status = "expired"]
                                            ELSE store.heap[u]
      BY <3>1, <3>2, ExpireAllOK
    <3>. QED
      BY <1>4, <3>3 DEF R
  <2>4. ASSUME NEW st \in {"pending", "consumed"}, NEW x \in Nat,
               store' = Restatus(store, r, st, x)
        PROVE  /\ ~store'.closed
               /\ Live(store') = Live(store)
               /\ store'.heap[r].status = st
               /\ store'.heap[r].expiresAt = x
               /\ \A u \in RecIds \ {r} : store'.heap[u] = store.heap[u]
    BY <1>2, <1>4, <2>1, <2>4, RestatusOK
  <2>. HIDE DEF r
  <2>5. CASE clock >= store.heap[r].expiresAt
    <3>1. PICK new \in EntombChoices(store, {r}) : store' = ExpireAll(store, {r}, new, clock)
      BY <1>4, <2>5 DEF Finish, r
    <3>. QED
      BY <1>1, <1>2, <1>4, <2>1, <2>3, <2>5, <3>1 DEF Settles, r
  <2>6. CASE clock < store.heap[r].expiresAt
    <3>1. store' \in Settle(store, r, commit, clock)
      BY <1>2, <1>4, <2>2, <2>6 DEF Finish, r
    <3>2. CASE commit
      <4>1. store' = Restatus(store, r, "consumed", clock + ConsumedGracePeriod)
        BY <3>1, <3>2 DEF Settle
      <4>2. clock + ConsumedGracePeriod \in Nat
        BY <1>2, ConfigAssumption
      <4>. QED
        BY <1>1, <1>2, <1>4, <2>1, <2>4, <2>6, <4>1, <4>2 DEF Settles, r
    <3>3. CASE ~commit /\ clock < store.heap[r].originalExpiry
      <4>1. store' = Restatus(store, r, "pending", store.heap[r].originalExpiry)
        BY <3>1, <3>3 DEF Settle
      <4>. QED
        BY <1>1, <1>2, <1>4, <2>1, <2>2, <2>4, <3>3, <4>1 DEF Settles, r
    <3>4. CASE ~commit /\ ~(clock < store.heap[r].originalExpiry)
      <4>1. PICK new \in EntombChoices(store, {r}) : store' = ExpireAll(store, {r}, new, clock)
        BY <3>1, <3>4 DEF Settle
      <4>. QED
        BY <1>1, <1>2, <1>4, <2>1, <2>2, <2>3, <3>4, <4>1 DEF Settles, r
    <3>. QED
      BY <3>2, <3>3, <3>4
  <2>. QED
    BY <1>2, <2>2, <2>5, <2>6
<1>. QED
  BY <1>3, <1>4

\* One step of the store.
Effect ==
    \/ CleansUp
    \/ \E r \in RecIds : Saves(r)
    \/ \E q \in Requests, r \in RecIds : Reserves(q, r)
    \/ \E q \in Requests : Forgets(q)
    \/ \E q \in Requests, r \in RecIds : Settles(q, r)
    \/ Closes

\* Every step of the store has one of the effects above.
LEMMA NextEffect == IInv /\ [Next]_storeVars => Effect
<1>. SUFFICES ASSUME IInv, [Next]_storeVars
              PROVE  Effect
  OBVIOUS
<1>1. ASSUME NEW t \in Turns, NEW ctxErr \in BOOLEAN, SaveContext(t, ctxErr)
      PROVE  Effect
  BY <1>1, SaveEffect DEF Effect
<1>2. ASSUME NEW q \in Requests, NEW results \in ResultSets, Begin(q, results)
      PROVE  Effect
  BY <1>2, BeginEffect DEF Effect
<1>3. ASSUME NEW q \in Requests, CommitContext(q) \/ Abort(q)
      PROVE  Effect
  BY <1>3, FinishEffect DEF Effect, CommitContext, Abort
<1>4. CASE Inspect \/ CleanupTick
  <2>1. ~store.closed /\ store' \in Cleanups(store, clock) /\ UNCHANGED leases
    BY <1>4 DEF Inspect, CleanupTick
  <2>. QED
    BY <2>1, CleanupEffect DEF Effect, CleansUp, KeptOrDue
<1>5. CASE Close
  <2>1. store \in Store
    BY DEF IInv, StoreOK
  <2>2. store'.records = [k \in CallIDs |-> NoRecord] /\ store'.closed = TRUE
    BY <1>5, <2>1 DEF Close, EmptyMaps, Store
  <2>3. Live(store') = {}
    BY <2>2 DEF Live
  <2>. QED
    BY <1>5, <2>2, <2>3 DEF Close, Effect, Closes
<1>6. CASE Tick \/ UNCHANGED storeVars
  <2>1. UNCHANGED <<store, leases>>
    BY <1>6 DEF Tick, storeVars
  <2>. QED
    BY <2>1 DEF Effect, CleansUp, KeptOrDue
<1>. QED
  BY <1>1, <1>2, <1>3, <1>4, <1>5, <1>6 DEF Next

\* The effects allow a retained turn nothing that TurnHistory forbids.
LEMMA EffectHistory ==
    ASSUME IInv, Effect, NEW r \in Live(store)
    PROVE  RecordStep(r)
<1>1. r \in RecIds
  BY LiveAtKey DEF IInv, StoreOK
<1>2. CASE CleansUp
  BY <1>2 DEF CleansUp, KeptOrDue, RecordStep
<1>3. ASSUME NEW u \in RecIds, Saves(u)
      PROVE  RecordStep(r)
  BY <1>3 DEF Saves, OthersKeptOrDue, KeptOrDue, RecordStep
<1>4. ASSUME NEW q \in Requests, NEW u \in RecIds, Reserves(q, u)
      PROVE  RecordStep(r)
  BY <1>4 DEF Reserves, OthersKeptOrDue, KeptOrDue, RecordStep
<1>5. ASSUME NEW q \in Requests, Forgets(q)
      PROVE  RecordStep(r)
  BY <1>5 DEF Forgets, RecordStep
<1>6. ASSUME NEW q \in Requests, NEW u \in RecIds, Settles(q, u)
      PROVE  RecordStep(r)
  BY <1>1, <1>6 DEF Settles, RecordStep
<1>7. CASE Closes
  BY <1>7 DEF Closes, RecordStep
<1>. QED
  BY <1>2, <1>3, <1>4, <1>5, <1>6, <1>7 DEF Effect

\* The life of a retained turn, for any number of turns and requests and every
\* interleaving of their operations with the cleanup loop, Close and a clock that may
\* step back (continuation.go: SaveContext, Begin, finishContext, cleanupLocked).
THEOREM TurnHistoryHolds == Spec => TurnHistory
<1>1. IInv /\ [Next]_storeVars => [\A r \in Live(store) : RecordStep(r)]_storeVars
  BY NextEffect, EffectHistory
<1>. QED
  BY <1>1, IInvAlways, PTL DEF Spec, TurnHistory

-----------------------------------------------------------------------------
(* The store implements TurnCustody.  The mapping is stated over a store   *)
(* value and a lease table, so that it says the same of both ends of a     *)
(* step.  LeaseCustody is silent about a closed store, which must then be  *)
(* known to retain nothing.                                                *)

\* A closed store is empty: Close drops every record and Save refuses from then on.
ClosedEmpty == store.closed => Live(store) = {}

MapInv == IInv /\ ClosedEmpty

\* Nothing enters a store once it is closed.
LEMMA EffectClosed == ClosedEmpty /\ Effect => ClosedEmpty'
BY DEF ClosedEmpty, Effect, CleansUp, Saves, Reserves, Forgets, Settles, Closes

\* Both hold throughout.
LEMMA MapInvAlways == Spec => []MapInv
<1>1. Init => ClosedEmpty
  BY DEF Init, ClosedEmpty, NewContinuationStore
<1>2. IInv /\ ClosedEmpty /\ [Next]_storeVars => ClosedEmpty'
  BY NextEffect, EffectClosed
<1>. QED
  BY <1>1, <1>2, IInvAlways, PTL DEF Spec, MapInv

PhaseIn(s, r) ==
    IF \A k \in CallIDs : s.records[k] # r THEN "absent"
    ELSE CASE s.heap[r].status = "pending" -> "offered"
           [] s.heap[r].status = "consuming" -> "held"
           [] s.heap[r].status = "consumed" -> "consumed"
           [] OTHER -> "absent"

HolderIn(s, l, r) ==
    IF PhaseIn(s, r) = "held" THEN CHOOSE q \in Requests : l[q] = r ELSE NoRecord

\* The lease table l settles exactly the live consuming records of s.
Settled(s, l) ==
    \A r \in Live(s) : s.heap[r].status = "consuming" =>
       \E q \in Requests : l[q] = r /\ \A p \in Requests : l[p] = r => p = q

\* The invariant gives every consuming record one holder.
LEMMA InvSettled == MapInv => Settled(store, leases)
<1>. SUFFICES ASSUME MapInv, NEW r \in Live(store), store.heap[r].status = "consuming"
              PROVE  \E q \in Requests : leases[q] = r /\ \A p \in Requests : leases[p] = r => p = q
  BY DEF Settled
<1>1. ~store.closed /\ LeaseCustody
  BY DEF MapInv, IInv, ClosedEmpty
<1>2. r # NoRecord
  BY DEF Live
<1>3. PICK q \in Requests : leases[q] = r
  BY <1>1 DEF LeaseCustody
<1>. QED
  BY <1>1, <1>2, <1>3 DEF LeaseCustody

\* What the mapping makes of a record.
LEMMA MapFacts ==
    ASSUME NEW s, StoreOK(s), NEW l, Settled(s, l), NEW r \in RecIds
    PROVE  /\ PhaseIn(s, r) \in {"absent", "offered", "held", "consumed"}
           /\ r \notin Live(s) => PhaseIn(s, r) = "absent"
           /\ r \in Live(s) =>
                 /\ PhaseIn(s, r) = "offered" <=> s.heap[r].status = "pending"
                 /\ PhaseIn(s, r) = "held" <=> s.heap[r].status = "consuming"
                 /\ PhaseIn(s, r) = "consumed" <=> s.heap[r].status = "consumed"
           /\ PhaseIn(s, r) # "held" => HolderIn(s, l, r) = NoRecord
           /\ PhaseIn(s, r) = "held" =>
                 /\ HolderIn(s, l, r) \in Requests
                 /\ \A q \in Requests : l[q] = r <=> HolderIn(s, l, r) = q
<1>1. r # NoRecord
  BY SetsAssumption
<1>2. r \in Live(s) <=> ~ \A k \in CallIDs : s.records[k] # r
  BY <1>1 DEF Live
<1>3. r \in Live(s) => s.heap[r].status \in {"pending", "consuming", "consumed"}
  BY DEF StoreOK, LiveStatus
<1>4. r \notin Live(s) => PhaseIn(s, r) = "absent"
  BY <1>2 DEF PhaseIn
<1>5. ASSUME r \in Live(s), s.heap[r].status = "pending"
      PROVE  PhaseIn(s, r) = "offered"
  BY <1>2, <1>5 DEF PhaseIn
<1>6. ASSUME r \in Live(s), s.heap[r].status = "consuming"
      PROVE  PhaseIn(s, r) = "held"
  BY <1>2, <1>6 DEF PhaseIn
<1>7. ASSUME r \in Live(s), s.heap[r].status = "consumed"
      PROVE  PhaseIn(s, r) = "consumed"
  BY <1>2, <1>7 DEF PhaseIn
<1>8. PhaseIn(s, r) # "held" => HolderIn(s, l, r) = NoRecord
  BY DEF HolderIn
<1>9. ASSUME PhaseIn(s, r) = "held"
      PROVE  /\ HolderIn(s, l, r) \in Requests
             /\ \A q \in Requests : l[q] = r <=> HolderIn(s, l, r) = q
  <2>1. r \in Live(s) /\ s.heap[r].status = "consuming"
    BY <1>3, <1>4, <1>5, <1>7, <1>9
  <2>2. PICK q \in Requests : l[q] = r /\ \A p \in Requests : l[p] = r => p = q
    BY <2>1 DEF Settled
  <2>3. HolderIn(s, l, r) = CHOOSE p \in Requests : l[p] = r
    BY <1>9 DEF HolderIn
  <2>4. HolderIn(s, l, r) = q
    BY <2>2, <2>3
  <2>. QED
    BY <2>2, <2>4
<1>. QED
  BY <1>3, <1>4, <1>5, <1>6, <1>7, <1>8, <1>9

\* From store s and leases l to t and m, the mapping leaves r alone or withdraws it.
Same(s, l, t, m, r) ==
    PhaseIn(t, r) = PhaseIn(s, r) /\ HolderIn(t, m, r) = HolderIn(s, l, r)

Gone(t, m, r) == PhaseIn(t, r) = "absent" /\ HolderIn(t, m, r) = NoRecord

\* A record that keeps its status and its lease is left alone; one that leaves the
\* map is withdrawn.
LEMMA MapKept ==
    ASSUME NEW s, NEW l, StoreOK(s), Settled(s, l),
           NEW t, NEW m, StoreOK(t), Settled(t, m),
           NEW r \in RecIds,
           r \in Live(t) => r \in Live(s) /\ t.heap[r].status = s.heap[r].status,
           \A q \in Requests : m[q] = r <=> l[q] = r
    PROVE  /\ r \in Live(t) \/ r \notin Live(s) => Same(s, l, t, m, r)
           /\ r \notin Live(t) => Gone(t, m, r)
<1>1. ASSUME r \notin Live(t)
      PROVE  Gone(t, m, r)
  BY <1>1, MapFacts DEF Gone
<1>2. ASSUME r \notin Live(t), r \notin Live(s)
      PROVE  Same(s, l, t, m, r)
  BY <1>2, MapFacts DEF Same
<1>3. ASSUME r \in Live(t)
      PROVE  Same(s, l, t, m, r)
  <2>1. r \in Live(s) /\ t.heap[r].status = s.heap[r].status
    BY <1>3
  <2>2. t.heap[r].status \in {"pending", "consuming", "consumed"}
    BY <1>3 DEF StoreOK, LiveStatus
  <2>3. PhaseIn(t, r) = PhaseIn(s, r)
    BY <1>3, <2>1, <2>2, MapFacts
  <2>4. CASE PhaseIn(t, r) = "held"
    <3>1. HolderIn(t, m, r) \in Requests /\ m[HolderIn(t, m, r)] = r
      BY <2>4, MapFacts
    <3>2. HolderIn(s, l, r) = HolderIn(t, m, r)
      BY <2>3, <2>4, <3>1, MapFacts
    <3>. QED
      BY <2>3, <3>2 DEF Same
  <2>5. CASE PhaseIn(t, r) # "held"
    BY <2>3, <2>5, MapFacts DEF Same
  <2>. QED
    BY <2>4, <2>5
<1>. QED
  BY <1>1, <1>2, <1>3

Stays(r) == Same(store, leases, store', leases', r)

Goes(r) == Gone(store', leases', r)

\* The refinement mapping of ContinuationStore, in these terms.
LEMMA MapUnfolds ==
    \A r \in RecIds :
       /\ PhaseOf(r) = PhaseIn(store, r) /\ PhaseOf(r)' = PhaseIn(store', r)
       /\ HolderOf(r) = HolderIn(store, leases, r)
       /\ HolderOf(r)' = HolderIn(store', leases', r)
<1>1. \A r \in RecIds : PhaseOf(r) = PhaseIn(store, r) /\ PhaseOf(r)' = PhaseIn(store', r)
  BY DEF PhaseOf, PhaseIn
<1>. QED
  BY <1>1 DEF HolderOf, HolderIn

\* What stays is kept by TurnCustody, what goes is withdrawn.
LEMMA MapKeeps ==
    /\ \A r \in RecIds : Stays(r) => Custody!Kept(r)
    /\ \A r \in RecIds : Goes(r) => Custody!Withdrawn(r)
BY MapUnfolds DEF Stays, Goes, Same, Gone, Custody!Kept, Custody!Withdrawn

\* The mapped state after a step has its type.
LEMMA MapMoves ==
    ASSUME MapInv'
    PROVE  /\ [r \in RecIds |-> PhaseOf(r)]' \in [RecIds -> Custody!Phase]
           /\ [r \in RecIds |-> HolderOf(r)]' \in [RecIds -> Requests \cup {NoRecord}]
           /\ \A r \in RecIds :
                 Custody!Moves(r, PhaseIn(store', r), HolderIn(store', leases', r))
<1>1. StoreOK(store') /\ Settled(store', leases')
  <2>1. Settled(store, leases)'
    BY InvSettled, PTL
  <2>. QED
    BY <2>1 DEF MapInv, IInv, Settled
<1>2. \A r \in RecIds : /\ PhaseIn(store', r) \in {"absent", "offered", "held", "consumed"}
                        /\ HolderIn(store', leases', r) \in Requests \cup {NoRecord}
  BY <1>1, MapFacts
<1>3. /\ [r \in RecIds |-> PhaseOf(r)]' \in [RecIds -> Custody!Phase]
      /\ [r \in RecIds |-> HolderOf(r)]' \in [RecIds -> Requests \cup {NoRecord}]
  BY <1>2, MapUnfolds DEF Custody!Phase
<1>. QED
  BY <1>3, MapUnfolds DEF Custody!Moves

\* What is known of both ends of a step.
BothEnds ==
    /\ StoreOK(store) /\ Settled(store, leases)
    /\ StoreOK(store') /\ Settled(store', leases')

\* The invariant, before and after the step, gives it.
LEMMA StepEnds == MapInv /\ MapInv' => BothEnds
<1>1. MapInv' => Settled(store, leases)'
  BY InvSettled, PTL
<1>2. Settled(store, leases)' => Settled(store', leases')
  BY DEF Settled
<1>. QED
  BY <1>1, <1>2, InvSettled DEF MapInv, IInv, BothEnds

\* A record that is kept or due stays or goes.
LEMMA KeptMaps ==
    ASSUME BothEnds, NEW r \in RecIds,
           r \in Live(store) => KeptOrDue(r),
           r \in Live(store') => r \in Live(store),
           \A q \in Requests : leases'[q] = r <=> leases[q] = r
    PROVE  Stays(r) \/ Goes(r)
<1>1. r \in Live(store') => store'.heap[r].status = store.heap[r].status
  BY DEF KeptOrDue
<1>. QED
  BY <1>1, MapKept DEF BothEnds, Stays, Goes

\* Cleanup, and Close, withdraw turns.
LEMMA CleansUpMaps ==
    ASSUME MapInv, MapInv', CleansUp \/ Closes
    PROVE  Custody!Withdraw
<1>1. BothEnds
  BY StepEnds
<1>2. \A r \in RecIds : Stays(r) \/ Goes(r)
  <2>1. CASE CleansUp
    BY <1>1, <2>1, KeptMaps DEF CleansUp
  <2>2. CASE Closes
    BY <1>1, <2>2, MapFacts DEF Closes, Goes, Gone, BothEnds
  <2>. QED
    BY <2>1, <2>2
<1>. QED
  BY <1>2, MapKeeps, MapMoves DEF Custody!Withdraw

\* Save offers a turn.
LEMMA SavesMaps ==
    ASSUME MapInv, MapInv', NEW r \in RecIds, Saves(r)
    PROVE  Custody!Offer(r)
<1>1. BothEnds
  BY StepEnds
<1>2. \A u \in RecIds \ {r} : Stays(u) \/ Goes(u)
  BY <1>1, KeptMaps DEF Saves, OthersKeptOrDue
<1>3. /\ PhaseIn(store, r) = "absent"
      /\ PhaseIn(store', r) = "offered"
      /\ HolderIn(store', leases', r) = NoRecord
  BY <1>1, MapFacts DEF Saves, BothEnds
<1>4. Custody!Moves(r, "offered", NoRecord)
  BY <1>3, MapMoves
<1>5. Custody!OthersMayGo(r)
  BY <1>2, MapKeeps DEF Custody!OthersMayGo
<1>. QED
  BY <1>3, <1>4, <1>5, MapUnfolds DEF Custody!Offer

\* Begin takes an offered turn, for a request that holds none.
LEMMA ReservesMaps ==
    ASSUME MapInv, MapInv', NEW q \in Requests, NEW r \in RecIds, Reserves(q, r)
    PROVE  Custody!Take(r, q)
<1>1. BothEnds /\ leases \in [Requests -> RecIds \cup {NoRecord}]
  BY StepEnds DEF MapInv, IInv, TypeOK
<1>2. /\ leases'[q] = r /\ leases[q] = NoRecord
      /\ \A p \in Requests \ {q} : leases'[p] = leases[p]
  BY <1>1 DEF Reserves
<1>3. \A u \in RecIds : u # NoRecord
  BY SetsAssumption
<1>4. \A u \in RecIds \ {r} : Stays(u) \/ Goes(u)
  <2>1. \A u \in RecIds \ {r} : \A p \in Requests : leases'[p] = u <=> leases[p] = u
    BY <1>2, <1>3
  <2>. QED
    BY <1>1, <2>1, KeptMaps DEF Reserves, OthersKeptOrDue
<1>5. PhaseIn(store, r) = "offered" /\ PhaseIn(store', r) = "held"
  BY <1>1, MapFacts DEF Reserves, BothEnds
<1>6. HolderIn(store', leases', r) = q
  BY <1>1, <1>2, <1>5, MapFacts DEF BothEnds
<1>7. \A u \in RecIds : HolderIn(store, leases, u) # q
  <2>. SUFFICES ASSUME NEW u \in RecIds, HolderIn(store, leases, u) = q
                PROVE  FALSE
    OBVIOUS
  <2>1. PhaseIn(store, u) = "held"
    BY <1>1, MapFacts, SetsAssumption DEF BothEnds
  <2>2. leases[q] = u
    BY <1>1, <2>1, MapFacts DEF BothEnds
  <2>. QED
    BY <1>2, <1>3, <2>2
<1>8. Custody!Moves(r, "held", q)
  BY <1>5, <1>6, MapMoves
<1>9. Custody!OthersMayGo(r)
  BY <1>4, MapKeeps DEF Custody!OthersMayGo
<1>. QED
  BY <1>5, <1>7, <1>8, <1>9, MapUnfolds DEF Custody!Take

\* A lease that lost its record changes nothing when it is finished.
LEMMA ForgetsMaps ==
    ASSUME MapInv, MapInv', NEW q \in Requests, Forgets(q)
    PROVE  Custody!Withdraw
<1>1. BothEnds /\ leases \in [Requests -> RecIds \cup {NoRecord}]
  BY StepEnds DEF MapInv, IInv, TypeOK
<1>2. /\ store' = store
      /\ leases'[q] = NoRecord
      /\ \A p \in Requests \ {q} : leases'[p] = leases[p]
  BY <1>1 DEF Forgets
<1>3. \A u \in RecIds : u # NoRecord
  BY SetsAssumption
<1>4. ASSUME NEW u \in RecIds
      PROVE  Stays(u)
  <2>1. CASE leases[q] # u
    <3>1. \A p \in Requests : leases'[p] = u <=> leases[p] = u
      BY <1>2, <1>3, <2>1
    <3>. QED
      BY <1>1, <1>2, <3>1, MapKept DEF BothEnds, Stays
  <2>2. CASE leases[q] = u
    <3>1. u \notin Live(store) \/ store.heap[u].status # "consuming"
      BY <2>2 DEF Forgets, MapInv, ClosedEmpty
    <3>2. PhaseIn(store, u) # "held"
      BY <1>1, <3>1, MapFacts DEF BothEnds
    <3>. QED
      BY <1>1, <1>2, <3>2, MapFacts DEF BothEnds, Stays, Same
  <2>. QED
    BY <2>1, <2>2
<1>. QED
  BY <1>4, MapKeeps, MapMoves DEF Custody!Withdraw

\* Commit consumes the turn the request holds, Abort gives it back, and either may
\* find that it was withdrawn.
LEMMA SettlesMaps ==
    ASSUME MapInv, MapInv', NEW q \in Requests, NEW r \in RecIds, Settles(q, r)
    PROVE  Custody!Withdraw \/ Custody!GiveBack(r) \/ Custody!Consume(r)
<1>1. BothEnds /\ leases \in [Requests -> RecIds \cup {NoRecord}]
  BY StepEnds DEF MapInv, IInv, TypeOK
<1>2. /\ leases[q] = r /\ leases'[q] = NoRecord
      /\ \A p \in Requests \ {q} : leases'[p] = leases[p]
  BY <1>1 DEF Settles
<1>3. \A u \in RecIds : u # NoRecord
  BY SetsAssumption
<1>4. \A u \in RecIds \ {r} : Stays(u)
  <2>. SUFFICES ASSUME NEW u \in RecIds \ {r}
                PROVE  Stays(u)
    OBVIOUS
  <2>1. \A p \in Requests : leases'[p] = u <=> leases[p] = u
    BY <1>2, <1>3
  <2>2. store'.heap[u] = store.heap[u] /\ (u \in Live(store') <=> u \in Live(store))
    BY DEF Settles
  <2>. QED
    BY <1>1, <2>1, <2>2, MapKept DEF BothEnds, Stays
<1>5. PhaseIn(store, r) = "held"
  BY <1>1, MapFacts DEF Settles, BothEnds
<1>6. Custody!OthersStay(r)
  BY <1>4, MapKeeps DEF Custody!OthersStay
<1>7. CASE r \notin Live(store')
  <2>1. Goes(r)
    BY <1>1, <1>7, MapFacts DEF BothEnds, Goes, Gone
  <2>. QED
    BY <1>4, <2>1, MapKeeps, MapMoves DEF Custody!Withdraw
<1>8. CASE r \in Live(store') /\ store'.heap[r].status = "consumed"
  <2>1. PhaseIn(store', r) = "consumed" /\ HolderIn(store', leases', r) = NoRecord
    BY <1>1, <1>8, MapFacts DEF BothEnds
  <2>2. Custody!Moves(r, "consumed", NoRecord)
    BY <2>1, MapMoves
  <2>. QED
    BY <1>5, <1>6, <2>2, MapUnfolds DEF Custody!Consume
<1>9. CASE r \in Live(store') /\ store'.heap[r].status = "pending"
  <2>1. PhaseIn(store', r) = "offered" /\ HolderIn(store', leases', r) = NoRecord
    BY <1>1, <1>9, MapFacts DEF BothEnds
  <2>2. Custody!Moves(r, "offered", NoRecord)
    BY <2>1, MapMoves
  <2>. QED
    BY <1>5, <1>6, <2>2, MapUnfolds DEF Custody!GiveBack
<1>. QED
  BY <1>7, <1>8, <1>9 DEF Settles

\* The store implements TurnCustody: whatever the sizes, deadlines and interleavings,
\* what requests see of a turn is that it is offered, held by one request, given back or
\* consumed for good, or withdrawn (continuation.go: SaveContext, Begin, finishContext,
\* cleanupLocked, Close).
THEOREM CustodyRefined == Spec => CustodySpec
<1>1. Init => Custody!Init
  <2>. SUFFICES ASSUME Init
                PROVE  Custody!Init
    OBVIOUS
  <2>1. \A r \in RecIds : \A k \in CallIDs : store.records[k] # r
    BY SetsAssumption DEF Init, NewContinuationStore
  <2>2. \A r \in RecIds : PhaseOf(r) = "absent" /\ HolderOf(r) = NoRecord
    BY <2>1 DEF PhaseOf, HolderOf
  <2>. QED
    BY <2>2 DEF Custody!Init
<1>2. MapInv /\ MapInv' /\ [Next]_storeVars => [Custody!Next]_(Custody!custodyVars)
  <2>. SUFFICES ASSUME MapInv, MapInv', [Next]_storeVars
                PROVE  Custody!Next
    OBVIOUS
  <2>1. Effect
    BY NextEffect DEF MapInv
  <2>2. CASE CleansUp \/ Closes
    BY <2>2, CleansUpMaps DEF Custody!Next
  <2>3. ASSUME NEW r \in RecIds, Saves(r)
        PROVE  Custody!Next
    BY <2>3, SavesMaps DEF Custody!Next
  <2>4. ASSUME NEW q \in Requests, NEW r \in RecIds, Reserves(q, r)
        PROVE  Custody!Next
    BY <2>4, ReservesMaps DEF Custody!Next
  <2>5. ASSUME NEW q \in Requests, Forgets(q)
        PROVE  Custody!Next
    BY <2>5, ForgetsMaps DEF Custody!Next
  <2>6. ASSUME NEW q \in Requests, NEW r \in RecIds, Settles(q, r)
        PROVE  Custody!Next
    BY <2>6, SettlesMaps DEF Custody!Next
  <2>. QED
    BY <2>1, <2>2, <2>3, <2>4, <2>5, <2>6 DEF Effect
<1>. QED
  BY <1>1, <1>2, MapInvAlways, PTL DEF Spec, CustodySpec, Custody!Spec

-----------------------------------------------------------------------------
(* The limits.  totalBytes is a running total, and removeLocked silently   *)
(* floors it at zero: that it is the sum of the sizes of the live records  *)
(* needs the sum itself, and the index, without which removal would give   *)
(* bytes back twice or for a record that is not there.                     *)

Weight(s) == [r \in RecIds |-> s.heap[r].turn.bytes]

Within(s) ==
    /\ s.totalBytes = SumOf(Weight(s), Live(s))
    /\ Cardinality(Live(s)) =< MaxRecords
    /\ s.totalBytes =< MaxAggregateBytes
    /\ Cardinality(Tombstones(s)) =< maxExpiredIDs

\* Record sizes are numbers.
LEMMA WeightNat ==
    ASSUME NEW s \in Store
    PROVE  \A r \in RecIds : Weight(s)[r] = s.heap[r].turn.bytes /\ Weight(s)[r] \in Nat
<1>. SUFFICES ASSUME NEW r \in RecIds
              PROVE  s.heap[r].turn.bytes \in Nat
  BY DEF Weight
<1>1. s.heap[r].turn \in Turns
  BY DEF Store, Record
<1>. QED
  BY <1>1, SetsAssumption DEF Turn

\* BytesOf is the sum of the sizes.
LEMMA BytesAreSum ==
    ASSUME NEW s \in Store, NEW R \in SUBSET RecIds
    PROVE  BytesOf(s, R) = SumOf(Weight(s), R)
<1>. DEFINE w == Weight(s)
            Solves(g) == g = [T \in SUBSET R |->
                                 IF T = {} THEN 0
                                 ELSE s.heap[Picked(T)].turn.bytes + g[T \ {Picked(T)}]]
            h == CHOOSE g : Solves(g)
<1>1. IsFiniteSet(R) /\ R \in SUBSET R
  BY SetsAssumption, FS_Subset
<1>2. ASSUME NEW g
      PROVE  SumFrom(w, R, g) <=> Solves(g)
  <2>1. \A T \in SUBSET R : T # {} => Picked(T) \in RecIds
    BY DEF Picked
  <2>2. \A T \in SUBSET R : T # {} => w[Picked(T)] = s.heap[Picked(T)].turn.bytes
    BY <2>1, WeightNat
  <2>. HIDE DEF w
  <2>3. \A T \in SUBSET R :
           SumStep(w, g, T) = IF T = {} THEN 0
                              ELSE s.heap[Picked(T)].turn.bytes + g[T \ {Picked(T)}]
    BY <2>2 DEF SumStep
  <2>4. [T \in SUBSET R |-> SumStep(w, g, T)] =
        [T \in SUBSET R |-> IF T = {} THEN 0
                            ELSE s.heap[Picked(T)].turn.bytes + g[T \ {Picked(T)}]]
    BY <2>3
  <2>. QED
    BY <2>4 DEF SumFrom
<1>3. PICK g : SumFrom(w, R, g) /\ SumOf(w, R) = g[R]
  BY <1>1, SumUnfolds
<1>4. Solves(h)
  BY <1>2, <1>3
<1>5. BytesOf(s, R) = h[R]
  BY DEF BytesOf, MapThenSumSet, MapThenFoldSet, Picked
<1>. HIDE DEF h, w, Solves
<1>6. SumFrom(w, R, h)
  BY <1>2, <1>4
<1>7. \A U \in SUBSET R : h[U] = g[U]
  <2>1. SumFrom(w, R, g) /\ \A x \in R : w[x] = w[x]
    BY <1>3
  <2>. QED
    BY <1>1, <1>6, <2>1, SumUnique
<1>. QED
  BY <1>1, <1>3, <1>5, <1>7 DEF w

\* Live records are finitely many records, tombstones finitely many call IDs.
LEMMA LiveFinite ==
    ASSUME NEW s \in Store
    PROVE  /\ Live(s) \in SUBSET RecIds
           /\ IsFiniteSet(Live(s))
           /\ IsFiniteSet(Tombstones(s))
           /\ Cardinality(Live(s)) \in Nat
           /\ Cardinality(Tombstones(s)) \in Nat
<1>1. Live(s) \in SUBSET RecIds
  BY DEF Live, Store
<1>2. Tombstones(s) \in SUBSET CallIDs
  BY DEF Tombstones
<1>. QED
  BY <1>1, <1>2, SetsAssumption, FS_Subset, FS_CardinalityType

\* Limits depend on the live records, their turns, the total and the tombstones only.
LEMMA SameWithin ==
    ASSUME NEW s \in Store, NEW d \in Store, Within(s),
           Live(d) = Live(s),
           \A r \in RecIds : d.heap[r].turn = s.heap[r].turn,
           d.totalBytes = s.totalBytes,
           Cardinality(Tombstones(d)) =< maxExpiredIDs
    PROVE  Within(d)
<1>1. \A r \in Live(s) : Weight(s)[r] = Weight(d)[r]
  BY LiveFinite, WeightNat
<1>2. SumOf(Weight(s), Live(s)) = SumOf(Weight(d), Live(s))
  BY <1>1, LiveFinite, SumCongruent
<1>. QED
  BY <1>2 DEF Within

\* Fewer tombstones are within the limit too.
LEMMA FewerTombstones ==
    ASSUME NEW s \in Store, NEW T, T \in SUBSET Tombstones(s),
           Cardinality(Tombstones(s)) =< maxExpiredIDs
    PROVE  Cardinality(T) =< maxExpiredIDs
<1>1. Cardinality(T) \in Nat /\ Cardinality(T) =< Cardinality(Tombstones(s))
  BY LiveFinite, FS_Subset, FS_CardinalityType
<1>2. maxExpiredIDs \in Nat
  BY ConfigAssumption DEF maxExpiredIDs
<1>. QED
  BY <1>1, <1>2, LiveFinite

\* removeLocked gives back exactly the bytes of what it removes.
LEMMA RemoveWithin ==
    ASSUME NEW s \in Store, RecordsIndexed(s), Within(s), NEW R \in SUBSET Live(s)
    PROVE  Within(RemoveAll(s, R))
<1>. DEFINE d == RemoveAll(s, R)
            w == Weight(s)
<1>1. /\ d \in Store
      /\ d.heap = s.heap
      /\ d.expiredCallIDs = s.expiredCallIDs
      /\ d.totalBytes = FloorAtZero(s.totalBytes - BytesOf(s, R))
  BY RemoveAllFields
<1>2. Live(d) = Live(s) \ R
  BY RemoveAllIndex
<1>. HIDE DEF d
<1>3. Weight(d) = w /\ Tombstones(d) = Tombstones(s)
  BY <1>1 DEF Weight, Tombstones
<1>4. BytesOf(s, R) = SumOf(w, R)
  BY LiveFinite, BytesAreSum
<1>5. /\ SumOf(w, R) \in Nat /\ SumOf(w, Live(s) \ R) \in Nat
      /\ SumOf(w, Live(s)) = SumOf(w, R) + SumOf(w, Live(s) \ R)
  <2>1. \A x \in Live(s) : w[x] \in Nat
    BY LiveFinite, WeightNat
  <2>. HIDE DEF w
  <2>. QED
    BY <2>1, LiveFinite, SumSplit
<1>. HIDE DEF w
<1>6. s.totalBytes = SumOf(w, Live(s))
  BY DEF Within, w
<1>7. d.totalBytes = SumOf(w, Live(s) \ R) /\ d.totalBytes =< s.totalBytes
  BY <1>1, <1>4, <1>5, <1>6 DEF FloorAtZero
<1>8. Cardinality(Live(d)) \in Nat /\ Cardinality(Live(d)) =< Cardinality(Live(s))
  BY <1>2, LiveFinite, FS_Subset, FS_CardinalityType
<1>9. d.totalBytes =< MaxAggregateBytes
  <2>1. s.totalBytes \in Nat /\ d.totalBytes \in Nat /\ MaxAggregateBytes \in Nat
    BY <1>1, ConfigAssumption DEF Store
  <2>. QED
    BY <1>7, <2>1 DEF Within
<1>10. Cardinality(Live(d)) =< MaxRecords
  BY <1>8, LiveFinite, ConfigAssumption DEF Within
<1>. QED
  BY <1>2, <1>3, <1>7, <1>9, <1>10 DEF Within, d

\* expireLocked: a tombstone is added only while there is room.
LEMMA ExpireWithin ==
    ASSUME NEW s \in Store, RecordsIndexed(s), Within(s), NEW R \in SUBSET Live(s),
           NEW now \in Nat, NEW new \in EntombChoices(s, R)
    PROVE  Within(ExpireAll(s, R, new, now))
<1>. DEFINE e == MarkExpired(Entomb(s, R, new, now), R)
<1>1. R \in SUBSET RecIds
  BY LiveFinite
<1>2. /\ e \in Store
      /\ e.heap = [r \in RecIds |-> IF r \in R THEN [s.heap[r] EXCEPT !.status = "expired"]
                                                ELSE s.heap[r]]
      /\ \A r \in RecIds : e.heap[r].turn = s.heap[r].turn
      /\ e.records = s.records
      /\ e.byCallID = s.byCallID
      /\ \A c \in CallIDs : e.expiredCallIDs[c] # NoTime => c \in Tombstones(s) \cup new
      /\ e.totalBytes = s.totalBytes
      /\ e.closed = s.closed
      /\ new \subseteq IdsOfAll(s, R)
  <2>1. e = MarkExpired(Entomb(s, R, new, now), R)
    OBVIOUS
  <2>. HIDE DEF e
  <2>. QED
    BY <1>1, <2>1, MarkFields
<1>. HIDE DEF e
<1>3. Live(e) = Live(s)
  BY <1>2 DEF Live
<1>4. RecordsIndexed(e)
  <2>1. \A k \in CallIDs : s.records[k] # NoRecord => s.records[k] \in RecIds
    BY DEF Store
  <2>. QED
    BY <1>2, <2>1 DEF RecordsIndexed, IdsOf, KeyOf
<1>5. Cardinality(Tombstones(e)) =< maxExpiredIDs
  <2>. DEFINE held == Tombstones(s) \cup new
  <2>1. new \subseteq CallIDs
    <3>1. \A r \in R : IdsOf(s, r) \subseteq CallIDs
      BY LiveAtKey
    <3>. QED
      BY <1>2, <3>1 DEF IdsOfAll
  <2>2. held \subseteq CallIDs /\ IsFiniteSet(held)
    BY <2>1, SetsAssumption, FS_Subset DEF Tombstones
  <2>3. Tombstones(e) \subseteq held
    BY <1>2 DEF Tombstones
  <2>4. maxExpiredIDs \in Nat
    BY ConfigAssumption DEF maxExpiredIDs
  <2>5. Cardinality(held) =< maxExpiredIDs
    BY <2>4 DEF EntombChoices
  <2>. HIDE DEF held
  <2>6. /\ Cardinality(Tombstones(e)) =< Cardinality(held)
        /\ Cardinality(Tombstones(e)) \in Nat /\ Cardinality(held) \in Nat
    BY <2>2, <2>3, FS_Subset, FS_CardinalityType
  <2>. QED
    BY <2>4, <2>5, <2>6
<1>6. Within(e)
  BY <1>2, <1>3, <1>5, SameWithin
<1>7. Within(RemoveAll(e, R))
  BY <1>2, <1>3, <1>4, <1>6, RemoveWithin
<1>. QED
  BY <1>7 DEF ExpireAll, e

\* cleanupLocked stays within the limits.
LEMMA CleanupWithin ==
    ASSUME NEW s, StoreOK(s), Within(s), NEW now \in Nat, NEW d \in Cleanups(s, now)
    PROVE  Within(d)
<1>. DEFINE p == Purge(s, now)
            due == Due(p, now)
            spent == Spent(p, now)
<1>1. s \in Store
  BY DEF StoreOK
<1>2. /\ p \in Store
      /\ p.heap = s.heap
      /\ p.records = s.records
      /\ p.byCallID = s.byCallID
      /\ p.totalBytes = s.totalBytes
      /\ Tombstones(p) \subseteq Tombstones(s)
  BY <1>1, PurgeFields
<1>. HIDE DEF p
<1>3. Live(p) = Live(s)
  BY <1>2 DEF Live
<1>4. RecordsIndexed(p) /\ TombstonesApart(p)
  BY <1>2 DEF StoreOK, RecordsIndexed, IdsOf, KeyOf, TombstonesApart
<1>5. Within(p)
  <2>1. Cardinality(Tombstones(p)) =< maxExpiredIDs
    BY <1>1, <1>2, FewerTombstones DEF Within
  <2>. QED
    BY <1>1, <1>2, <1>3, <2>1, SameWithin
<1>6. PICK new \in EntombChoices(p, due) :
         d = RemoveAll(ExpireAll(p, due, new, now), spent)
  BY Zenon DEF Cleanups, p
<1>. DEFINE e == ExpireAll(p, due, new, now)
<1>7. due \in SUBSET Live(p) /\ spent \in SUBSET Live(p) /\ spent \cap due = {}
  BY DEF Due, Spent
<1>. HIDE DEF due, spent
<1>8. e \in Store /\ RecordsIndexed(e) /\ Live(e) = Live(p) \ due
  BY <1>2, <1>4, <1>7, ExpireAllOK
<1>9. Within(e)
  BY <1>2, <1>4, <1>5, <1>7, ExpireWithin
<1>. HIDE DEF e
<1>10. spent \in SUBSET Live(e)
  BY <1>7, <1>8
<1>. QED
  BY <1>6, <1>8, <1>9, <1>10, RemoveWithin DEF e

\* A turn that passes the capacity checks of SaveContext fits.
LEMMA InsertWithin ==
    ASSUME NEW s, StoreOK(s), Within(s), NEW t \in Turns, Insertable(s, t),
           NEW r \in RecIds, r \notin Live(s), NEW now \in Nat
    PROVE  Within(Insert(s, r, t, now))
<1>. DEFINE d == Insert(s, r, t, now)
            L == Live(s) \cup {r}
<1>1. s \in Store
  BY DEF StoreOK
<1>2. /\ d \in Store
      /\ Live(d) = L
      /\ d.heap[r].turn = t
      /\ \A u \in RecIds \ {r} : d.heap[u] = s.heap[u]
      /\ d.totalBytes = s.totalBytes + t.bytes
      /\ Tombstones(d) \subseteq Tombstones(s)
  BY InsertOK DEF StoreOK
<1>. HIDE DEF d
<1>3. /\ Weight(d)[r] = t.bytes
      /\ \A u \in Live(s) : Weight(d)[u] = Weight(s)[u]
      /\ \A u \in L : Weight(d)[u] \in Nat
  BY <1>1, <1>2, WeightNat, LiveFinite
<1>4. IsFiniteSet(L) /\ Cardinality(L) = Cardinality(Live(s)) + 1
  BY <1>1, LiveFinite, FS_AddElement
<1>5. SumOf(Weight(d), L) = t.bytes + SumOf(Weight(d), Live(s))
  <2>1. r \in L /\ L \ {r} = Live(s)
    OBVIOUS
  <2>. HIDE DEF L
  <2>2. SumOf(Weight(d), L) = Weight(d)[r] + SumOf(Weight(d), L \ {r})
    BY <1>3, <1>4, <2>1, SumTake
  <2>. QED
    BY <1>3, <2>1, <2>2
<1>6. SumOf(Weight(d), Live(s)) = SumOf(Weight(s), Live(s))
  BY <1>1, <1>3, LiveFinite, SumCongruent
<1>7. /\ s.totalBytes = SumOf(Weight(s), Live(s))
      /\ s.totalBytes \in Nat /\ t.bytes \in Nat
      /\ t.bytes =< MaxAggregateBytes - s.totalBytes
      /\ Cardinality(Live(s)) < MaxRecords
      /\ MaxAggregateBytes \in Nat /\ MaxRecords \in Nat
  BY <1>1, SetsAssumption, ConfigAssumption DEF Within, Insertable, Store, Turn
<1>8. d.totalBytes = SumOf(Weight(d), L) /\ d.totalBytes =< MaxAggregateBytes
  BY <1>2, <1>5, <1>6, <1>7
<1>9. Cardinality(L) =< MaxRecords
  BY <1>1, <1>4, <1>7, LiveFinite
<1>10. Cardinality(Tombstones(d)) =< maxExpiredIDs
  BY <1>1, <1>2, FewerTombstones DEF Within
<1>. QED
  BY <1>2, <1>8, <1>9, <1>10 DEF Within, d

\* A change of status does not touch the limits.
LEMMA RestatusWithin ==
    ASSUME NEW s, StoreOK(s), Within(s), NEW r \in Live(s), NEW x \in Nat,
           NEW st \in {"pending", "consuming", "consumed"}
    PROVE  Within(Restatus(s, r, st, x))
<1>. DEFINE d == Restatus(s, r, st, x)
<1>1. /\ d \in Store /\ s \in Store
      /\ Live(d) = Live(s)
      /\ \A u \in RecIds : d.heap[u].turn = s.heap[u].turn
      /\ d.totalBytes = s.totalBytes
      /\ Tombstones(d) = Tombstones(s)
  BY RestatusOK DEF StoreOK
<1>. HIDE DEF d
<1>2. Within(d)
  BY <1>1, SameWithin DEF Within
<1>. QED
  BY <1>2 DEF d

\* The limits survive CommitContext and Abort.
LEMMA FinishWithin ==
    ASSUME IInv, Within(store), NEW q \in Requests, NEW commit \in BOOLEAN, Finish(q, commit)
    PROVE  Within(store')
<1>. DEFINE r == leases[q]
<1>1. r # NoRecord
  BY DEF Finish
<1>2. StoreOK(store) /\ clock \in Nat /\ r \in RecIds /\ LeaseCustody
  BY <1>1 DEF IInv, TypeOK
<1>3. CASE store.closed \/ store.heap[r].status # "consuming"
  BY <1>1, <1>3 DEF Finish
<1>4. CASE ~store.closed /\ store.heap[r].status = "consuming"
  <2>1. r \in Live(store)
    BY <1>1, <1>2, <1>4 DEF LeaseCustody
  <2>2. store.heap[r].originalExpiry \in Nat /\ clock + ConsumedGracePeriod \in Nat
    BY <1>2, ConfigAssumption DEF StoreOK, Store, Record
  <2>3. \/ \E new \in EntombChoices(store, {r}) : store' = ExpireAll(store, {r}, new, clock)
        \/ store' = Restatus(store, r, "consumed", clock + ConsumedGracePeriod)
        \/ store' = Restatus(store, r, "pending", store.heap[r].originalExpiry)
    BY <1>4 DEF Finish, Settle
  <2>. HIDE DEF r
  <2>4. CASE \E new \in EntombChoices(store, {r}) : store' = ExpireAll(store, {r}, new, clock)
    <3>1. PICK new \in EntombChoices(store, {r}) : store' = ExpireAll(store, {r}, new, clock)
      BY <2>4
    <3>. DEFINE R == {r}
    <3>2. R \in SUBSET Live(store) /\ store \in Store /\ RecordsIndexed(store)
      BY <1>2, <2>1 DEF StoreOK
    <3>3. clock \in Nat /\ new \in EntombChoices(store, R) /\ store' = ExpireAll(store, R, new, clock)
      BY <1>2, <3>1
    <3>. HIDE DEF R
    <3>. QED
      BY <3>2, <3>3, ExpireWithin
  <2>5. CASE store' = Restatus(store, r, "consumed", clock + ConsumedGracePeriod)
    BY <1>2, <2>1, <2>2, <2>5, RestatusWithin
  <2>6. CASE store' = Restatus(store, r, "pending", store.heap[r].originalExpiry)
    BY <1>2, <2>1, <2>2, <2>6, RestatusWithin
  <2>. QED
    BY <2>3, <2>4, <2>5, <2>6
<1>. QED
  BY <1>3, <1>4

\* Every step stays within the limits.
LEMMA NextWithin == IInv /\ Within(store) /\ [Next]_storeVars => Within(store')
<1>. SUFFICES ASSUME IInv, Within(store), [Next]_storeVars
              PROVE  Within(store')
  OBVIOUS
<1>1. StoreOK(store) /\ clock \in Nat /\ store \in Store
  BY DEF IInv, TypeOK
<1>2. \A c \in Cleanups(store, clock) : StoreOK(c) /\ Within(c) /\ Live(c) \subseteq Live(store)
  BY <1>1, CleanupsOK, CleanupWithin
<1>3. ASSUME NEW t \in Turns, NEW ctxErr \in BOOLEAN, SaveContext(t, ctxErr)
      PROVE  Within(store')
  <2>1. PICK c \in Cleanups(store, clock) :
           \/ Insertable(c, t) /\ \E r \in Unreferenced : store' = Insert(c, r, t, clock)
           \/ store' = c
    BY <1>3 DEF SaveContext, Saved, SaveRefused
  <2>2. CASE store' = c
    BY <1>2, <2>2
  <2>3. ASSUME Insertable(c, t), NEW r \in Unreferenced, store' = Insert(c, r, t, clock)
        PROVE  Within(store')
    <3>1. r \in RecIds /\ r \notin Live(c)
      BY <1>2 DEF Unreferenced
    <3>. QED
      BY <1>1, <1>2, <2>3, <3>1, InsertWithin
  <2>. QED
    BY <2>1, <2>2, <2>3
<1>4. ASSUME NEW q \in Requests, NEW results \in ResultSets, Begin(q, results)
      PROVE  Within(store')
  <2>1. PICK c \in Cleanups(store, clock) :
           \/ \E r \in RecIds : Reservable(c, results, r) /\ store' = Reserve(c, r, clock)
           \/ store' = c
    BY <1>4 DEF Begin
  <2>2. CASE store' = c
    BY <1>2, <2>2
  <2>3. ASSUME NEW r \in RecIds, Reservable(c, results, r), store' = Reserve(c, r, clock)
        PROVE  Within(store')
    <3>1. r \in Live(c)
      BY <1>2, <2>3, ReservableLive
    <3>2. clock + ConsumingLeaseTTL \in Nat
      BY <1>1, ConfigAssumption
    <3>3. store' = Restatus(c, r, "consuming", clock + ConsumingLeaseTTL)
      BY <2>3 DEF Reserve
    <3>. QED
      BY <1>2, <3>1, <3>2, <3>3, RestatusWithin
  <2>. QED
    BY <2>1, <2>2, <2>3
<1>5. ASSUME NEW q \in Requests, CommitContext(q) \/ Abort(q)
      PROVE  Within(store')
  BY <1>5, FinishWithin DEF CommitContext, Abort
<1>6. CASE Inspect \/ CleanupTick
  BY <1>2, <1>6 DEF Inspect, CleanupTick
<1>7. CASE Close
  <2>1. /\ store'.records = [k \in CallIDs |-> NoRecord]
        /\ store'.expiredCallIDs = [c \in CallIDs |-> NoTime]
        /\ store'.totalBytes = 0
    BY <1>1, <1>7 DEF Close, EmptyMaps, Store
  <2>2. Live(store') = {} /\ Tombstones(store') = {}
    BY <2>1 DEF Live, Tombstones
  <2>. QED
    BY <2>1, <2>2, SumEmpty, FS_EmptySet, ConfigAssumption DEF Within, maxExpiredIDs
<1>8. CASE Tick \/ UNCHANGED storeVars
  BY <1>8 DEF Tick, storeVars
<1>. QED
  BY <1>3, <1>4, <1>5, <1>6, <1>7, <1>8 DEF Next

\* The store never retains more records, bytes or tombstones than it was configured for,
\* and totalBytes is exactly the size of what it retains, for any limits and any number
\* of turns (continuation.go: SaveContext's capacity checks, removeLocked, expireLocked).
THEOREM BoundedAlways == Spec => []Bounded
<1>1. Init => Within(store)
  <2>. SUFFICES ASSUME Init
                PROVE  Within(store)
    OBVIOUS
  <2>1. /\ store.records = [k \in CallIDs |-> NoRecord]
        /\ store.expiredCallIDs = [c \in CallIDs |-> NoTime]
        /\ store.totalBytes = 0
    BY DEF Init, NewContinuationStore
  <2>2. Live(store) = {} /\ Tombstones(store) = {}
    BY <2>1 DEF Live, Tombstones
  <2>. QED
    BY <2>1, <2>2, SumEmpty, FS_EmptySet, ConfigAssumption DEF Within, maxExpiredIDs
<1>2. IInv /\ Within(store) /\ [Next]_storeVars => Within(store)'
  BY NextWithin DEF Within, Live, Tombstones, Weight
<1>3. IInv /\ Within(store) => Bounded
  BY LiveFinite, BytesAreSum DEF IInv, TypeOK, Within, Bounded
<1>. QED
  BY <1>1, <1>2, <1>3, IInvAlways, PTL DEF Spec

-----------------------------------------------------------------------------
(* The handlers.                                                           *)


\* Where a handler is before it has called Do, in the event loop, and past it.
Early == {"idle", "decode", "timeout", "begin", "do"}

Loop == {"next", "check", "save", "handle", "commit"}

\* What holds of a handler wherever it is.  The watcher publishes its reason before it
\* closes the body, and has grounds for it.
CoreOK(h) ==
    /\ h.terminal # "interrupted"
    /\ h.body = "open" => h.watcher # "off"
    /\ h.watcher = "noted" => h.reason # ""
    /\ h.reason = "canceled" => h.ctxErr
    /\ h.reason = "stream_interrupted" => h.writeFailure

\* Nothing was sent before the session started, and nothing ended the stream while the
\* loop still runs.  Only a body read times out, and its answer is the last.
ReplyOK(h) ==
    /\ h.pc \in Early \cup {"start"} =>
          h.reply = "none" /\ h.terminal = "none" /\ ~h.writeFailure
    /\ h.pc \in Loop => h.reply = "stream" /\ h.terminal = "none" /\ ~h.writeFailure
    /\ h.pc = "timeout" => h.timedOut
    /\ h.timedOut => h.pc \in {"timeout", "defers", "fallback"}

\* The body belongs to a stream that is being read, and is closed under it only by the
\* watcher.
BodyOK(h) ==
    /\ h.pc \in Early => h.body = "none" /\ h.watcher = "off"
    /\ h.pc \in Loop \cup {"start"} =>
          h.watcher # "off" /\ (h.body = "closed" => h.reason # "")
    /\ h.pc \in {"idle", "fallback"} => h.body # "open" /\ h.watcher \in {"off", "done"}

\* The event at hand.
EventOK(h) ==
    /\ h.pc = "check" /\ h.event = "Interrupted" => h.reason # "" \/ h.ctxErr
    /\ h.pc \in {"save", "handle", "commit"} => h.event # "Interrupted"
    /\ h.pc \in Loop \ {"next"} => h.event # "none"
    /\ h.pc \in Loop \ {"next"} /\ h.event = "ResponseStarted" => h.started
    /\ h.pc = "commit" => h.event = "ResponseStarted"
    /\ h.pc = "save" => h.turn # NoTurn

\* One complete answer, or none because shutdown overtook a body timeout.
AnswerOK(h, down) ==
    \/ h.reply = "json" /\ h.terminal = "none"
    \/ h.reply = "stream" /\ (h.terminal # "none" \/ h.writeFailure)
    \/ h.reply = "none" /\ h.timedOut /\ down

\* The invariant of one handler, its lease and the shutdown mark.
RequestOK(h, lease, down) ==
    /\ h \in Handler
    /\ CoreOK(h) /\ ReplyOK(h) /\ BodyOK(h) /\ EventOK(h)
    /\ h.pc \in {"defers", "fallback"} /\ ~Abandoned(h) => AnswerOK(h, down)
    /\ h.pc \in {"idle", "decode", "timeout", "begin", "fallback"} => lease = NoRecord

-----------------------------------------------------------------------------
(* The statements of the handler, as functions on handlers.                *)

\* What neither a write nor the loop's own bookkeeping touches.
SameStream(g, h) ==
    /\ g.ctxErr = h.ctxErr /\ g.timedOut = h.timedOut /\ g.reply = h.reply
    /\ g.watcher = h.watcher /\ g.reason = h.reason /\ g.body = h.body

\* What moving on does to the fields.
LEMMA GotoFields ==
    ASSUME NEW h \in Handler, NEW pc \in PCs, NEW g, g = Goto(h, pc)
    PROVE  /\ g \in Handler /\ SameStream(g, h)
           /\ g.pc = pc
           /\ g.terminal = h.terminal /\ g.writeFailure = h.writeFailure
           /\ g.event = h.event /\ g.turn = h.turn /\ g.started = h.started
BY DEF Goto, Handler, SameStream

\* What returning does to the fields.
LEMMA ReturnFields ==
    ASSUME NEW h \in Handler, NEW g, g = Return(h)
    PROVE  /\ g \in Handler /\ SameStream(g, h)
           /\ g.pc = "defers"
           /\ g.terminal = h.terminal /\ g.writeFailure = h.writeFailure
<1>1. /\ "defers" \in PCs /\ 0 \in 0..MaxDeltas /\ << >> \in ResultSets \cup {<< >>}
      /\ "none" \in EventKinds \cup {"none", "Interrupted"} /\ NoTurn \in Turns \cup {NoTurn}
  BY HandlerAssumption DEF PCs
<1>2. g \in Handler
  BY <1>1 DEF Return, Handler
<1>3. g.pc = "defers" /\ g.reply = h.reply /\ g.terminal = h.terminal
  BY DEF Return, Handler
<1>4. g.watcher = h.watcher /\ g.reason = h.reason /\ g.body = h.body
  BY DEF Return, Handler
<1>5. g.ctxErr = h.ctxErr /\ g.timedOut = h.timedOut
  BY DEF Return, Handler
<1>6. g.writeFailure = h.writeFailure
  BY DEF Return, Handler
<1>. QED
  BY <1>2, <1>3, <1>4, <1>5, <1>6 DEF SameStream

\* An early return is in order if the client is gone or was answered.
LEMMA ReturnOK ==
    ASSUME NEW h \in Handler, CoreOK(h), NEW lease, NEW down,
           Abandoned(h) \/ AnswerOK(h, down),
           NEW g, g = Return(h)
    PROVE  RequestOK(g, lease, down) /\ g.pc = "defers"
<1>1. /\ g \in Handler /\ SameStream(g, h)
      /\ g.pc = "defers"
      /\ g.terminal = h.terminal /\ g.writeFailure = h.writeFailure
  BY ReturnFields
<1>2. CoreOK(g)
  BY <1>1 DEF CoreOK, SameStream
<1>3. ReplyOK(g) /\ BodyOK(g) /\ EventOK(g)
  BY <1>1 DEF ReplyOK, BodyOK, EventOK, Early, Loop
<1>4. ~Abandoned(g) => AnswerOK(g, down)
  BY <1>1 DEF AnswerOK, SameStream, Abandoned
<1>. QED
  BY <1>1, <1>2, <1>3, <1>4 DEF RequestOK

\* What WriteHeader does to the fields.
LEMMA Replied ==
    ASSUME NEW h \in Handler, NEW reply \in {"json", "stream"},
           NEW g, g = [h EXCEPT !.reply = reply]
    PROVE  /\ g \in Handler
           /\ g.reply = reply
           /\ g.pc = h.pc /\ g.terminal = h.terminal /\ g.writeFailure = h.writeFailure
           /\ g.watcher = h.watcher /\ g.reason = h.reason /\ g.body = h.body
           /\ g.ctxErr = h.ctxErr /\ g.timedOut = h.timedOut
<1>1. g \in Handler /\ g.reply = reply /\ g.pc = h.pc /\ g.terminal = h.terminal
  BY DEF Handler
<1>2. g.watcher = h.watcher /\ g.reason = h.reason /\ g.body = h.body
  BY DEF Handler
<1>3. g.ctxErr = h.ctxErr /\ g.timedOut = h.timedOut
  BY DEF Handler
<1>4. g.writeFailure = h.writeFailure
  BY DEF Handler
<1>. QED
  BY <1>1, <1>2, <1>3, <1>4

\* Answering with a JSON body, and returning.
LEMMA ReplyJSONOK ==
    ASSUME NEW h \in Handler, CoreOK(h), h.terminal = "none", NEW lease, NEW down,
           NEW allow \in BOOLEAN, allow \/ ~h.timedOut,
           NEW g, g = Return(writeJSON(h, allow))
    PROVE  RequestOK(g, lease, down) /\ g.pc = "defers"
<1>1. CASE h.ctxErr /\ ~allow
  <2>1. g = Return(h)
    BY <1>1 DEF writeJSON
  <2>. QED
    BY <1>1, <2>1, ReturnOK DEF Abandoned
<1>2. CASE ~(h.ctxErr /\ ~allow)
  <2>. DEFINE w == [h EXCEPT !.reply = "json"]
  <2>1. g = Return(w)
    BY <1>2 DEF writeJSON
  <2>2. /\ w \in Handler /\ w.reply = "json" /\ w.terminal = h.terminal
        /\ w.watcher = h.watcher /\ w.reason = h.reason /\ w.body = h.body
        /\ w.ctxErr = h.ctxErr /\ w.timedOut = h.timedOut /\ w.writeFailure = h.writeFailure
    BY Replied
  <2>. HIDE DEF w
  <2>3. CoreOK(w) /\ AnswerOK(w, down)
    BY <2>2 DEF CoreOK, AnswerOK
  <2>. QED
    BY <2>1, <2>2, <2>3, ReturnOK
<1>. QED
  BY <1>1, <1>2

\* What a failed write does to the fields.
LEMMA WriteFailed ==
    ASSUME NEW h \in Handler, NEW g, g = [h EXCEPT !.writeFailure = TRUE]
    PROVE  /\ g \in Handler /\ SameStream(g, h)
           /\ g.pc = h.pc /\ g.terminal = h.terminal /\ g.writeFailure = TRUE
<1>1. g \in Handler /\ g.pc = h.pc /\ g.terminal = h.terminal /\ g.writeFailure = TRUE
  BY DEF Handler
<1>2. g.reply = h.reply /\ g.watcher = h.watcher /\ g.reason = h.reason /\ g.body = h.body
  BY DEF Handler
<1>3. g.ctxErr = h.ctxErr /\ g.timedOut = h.timedOut
  BY DEF Handler
<1>. QED
  BY <1>1, <1>2, <1>3 DEF SameStream

\* What an emitted terminal event does to the fields.
LEMMA Emitted ==
    ASSUME NEW h \in Handler, NEW t \in Terminals, NEW g, g = [h EXCEPT !.terminal = t]
    PROVE  /\ g \in Handler /\ SameStream(g, h)
           /\ g.pc = h.pc /\ g.terminal = t /\ g.writeFailure = h.writeFailure
<1>1. g \in Handler /\ g.pc = h.pc /\ g.terminal = t
  BY DEF Handler
<1>2. g.reply = h.reply /\ g.watcher = h.watcher /\ g.reason = h.reason /\ g.body = h.body
  BY DEF Handler
<1>3. g.ctxErr = h.ctxErr /\ g.timedOut = h.timedOut
  BY DEF Handler
<1>4. g.writeFailure = h.writeFailure
  BY DEF Handler
<1>. QED
  BY <1>1, <1>2, <1>3, <1>4 DEF SameStream

\* Writing a terminal event other than "interrupted" and returning, whether or not the
\* write succeeds: the stream is ended, or its writes have failed for good.
LEMMA EndStreamOK ==
    ASSUME NEW h \in Handler, CoreOK(h), h.reply = "stream", NEW lease, NEW down,
           NEW t \in Terminals \ {"none", "interrupted"},
           NEW w \in Writes(h, [h EXCEPT !.terminal = t]), NEW g, g = Return(w)
    PROVE  /\ w \in Handler /\ w.pc = h.pc
           /\ w.writeFailure \/ w.terminal # "none"
           /\ RequestOK(g, lease, down)
           /\ g.writeFailure \/ g.terminal # "none"
<1>. DEFINE f == [h EXCEPT !.writeFailure = TRUE]
            e == [h EXCEPT !.terminal = t]
<1>1. w = f \/ w = e
  BY DEF Writes
<1>2. /\ f \in Handler /\ SameStream(f, h)
      /\ f.pc = h.pc /\ f.terminal = h.terminal /\ f.writeFailure = TRUE
  BY WriteFailed
<1>3. /\ e \in Handler /\ SameStream(e, h)
      /\ e.pc = h.pc /\ e.terminal = t /\ e.writeFailure = h.writeFailure
  BY Emitted
<1>. HIDE DEF f, e
<1>4. w \in Handler /\ CoreOK(w) /\ AnswerOK(w, down)
  BY <1>1, <1>2, <1>3 DEF SameStream, CoreOK, AnswerOK
<1>5. RequestOK(g, lease, down)
  BY <1>4, ReturnOK
<1>6. g.terminal = w.terminal /\ g.writeFailure = w.writeFailure
  BY <1>4, ReturnFields
<1>7. w.pc = h.pc /\ (w.writeFailure \/ w.terminal # "none")
  BY <1>1, <1>2, <1>3
<1>. QED
  BY <1>4, <1>5, <1>6, <1>7

\* session.Fail in the event loop.
LEMMA FailOK ==
    ASSUME NEW h \in Handler, CoreOK(h), ReplyOK(h), h.pc \in Loop, NEW lease, NEW down,
           NEW t \in Terminals \ {"none", "interrupted"}, NEW g \in Fail(h, t)
    PROVE  RequestOK(g, lease, down) /\ (g.writeFailure \/ g.terminal # "none")
<1>1. h.reply = "stream" /\ h.terminal = "none" /\ ~h.writeFailure
  BY DEF ReplyOK
<1>2. PICK w \in Writes(h, [h EXCEPT !.terminal = t]) : g = Return(w)
  BY <1>1 DEF Fail
<1>. QED
  BY <1>1, <1>2, EndStreamOK

\* The idle handler is in order, and so is one that has just been admitted.
LEMMA ArriveOK ==
    ASSUME NEW down, NEW results \in ResultSets \cup {<< >>},
           NEW g, g = [Idle EXCEPT !.pc = "decode", !.results = results]
    PROVE  RequestOK(Idle, NoRecord, down) /\ RequestOK(g, NoRecord, down)
<1>1. Idle \in Handler
  BY HandlerAssumption DEF Idle, Handler, PCs, Terminals, EventKinds
<1>2. g \in Handler
  BY <1>1 DEF Idle, Handler, PCs
<1>3. RequestOK(Idle, NoRecord, down)
  BY <1>1 DEF Idle, RequestOK, CoreOK, ReplyOK, BodyOK, EventOK, Early, Loop
<1>4. /\ g.pc = "decode" /\ g.reply = "none" /\ g.terminal = "none" /\ g.writeFailure = FALSE
      /\ g.body = "none" /\ g.watcher = "off" /\ g.reason = "" /\ g.timedOut = FALSE
  BY DEF Idle
<1>5. RequestOK(g, NoRecord, down)
  BY <1>2, <1>4 DEF RequestOK, CoreOK, ReplyOK, BodyOK, EventOK, Early, Loop
<1>. QED
  BY <1>3, <1>5

\* Moving on from one statement to the next before Do.
LEMMA EarlyGotoOK ==
    ASSUME NEW h, NEW lease, NEW down, RequestOK(h, lease, down),
           h.pc \in Early \ {"timeout"},
           NEW new, NEW g, (g = Goto(h, "begin") /\ new = NoRecord) \/ g = Goto(h, "do")
    PROVE  RequestOK(g, new, down)
<1>1. h \in Handler /\ "begin" \in PCs /\ "do" \in PCs
  BY DEF RequestOK, PCs
<1>2. PICK pc \in {"begin", "do"} : g = Goto(h, pc) /\ (pc = "begin" => new = NoRecord)
  OBVIOUS
<1>3. /\ g \in Handler /\ SameStream(g, h)
      /\ g.pc = pc
      /\ g.terminal = h.terminal /\ g.writeFailure = h.writeFailure
  BY <1>1, <1>2, GotoFields
<1>4. CoreOK(g) /\ ReplyOK(g) /\ BodyOK(g) /\ EventOK(g)
  BY <1>2, <1>3 DEF SameStream, RequestOK, CoreOK, ReplyOK, BodyOK, EventOK, Early, Loop
<1>. QED
  BY <1>2, <1>3, <1>4 DEF RequestOK

\* A body read has met its deadline, and the context is canceled for it.
LEMMA TimedOutOK ==
    ASSUME NEW h, NEW lease, NEW down, RequestOK(h, lease, down), h.pc = "decode",
           NEW g, g = [h EXCEPT !.pc = "timeout", !.ctxErr = TRUE, !.timedOut = TRUE]
    PROVE  RequestOK(g, lease, down)
<1>1. h \in Handler /\ "timeout" \in PCs
  BY DEF RequestOK, PCs
<1>2. g \in Handler /\ g.pc = "timeout" /\ g.reply = h.reply /\ g.terminal = h.terminal
  BY <1>1 DEF Handler
<1>3. g.watcher = h.watcher /\ g.reason = h.reason /\ g.body = h.body
  BY <1>1 DEF Handler
<1>4. g.ctxErr = TRUE /\ g.timedOut = TRUE
  BY <1>1 DEF Handler
<1>5. g.writeFailure = h.writeFailure
  BY <1>1 DEF Handler
<1>6. CoreOK(g) /\ ReplyOK(g) /\ BodyOK(g) /\ EventOK(g)
  BY <1>2, <1>3, <1>4, <1>5
  DEF RequestOK, CoreOK, ReplyOK, BodyOK, EventOK, Early, Loop
<1>. QED
  BY <1>2, <1>6 DEF RequestOK

\* What Begin's handler forgets and records does not matter to the invariant.
LEMMA BegunOK ==
    ASSUME NEW h, NEW lease, NEW down, RequestOK(h, lease, down), h.pc = "begin",
           NEW g, g = [h EXCEPT !.results = << >>] \/ g = [h EXCEPT !.accepted = FALSE]
    PROVE  RequestOK(g, lease, down) /\ g.pc = "begin"
<1>1. h \in Handler
  BY DEF RequestOK
<1>2. /\ g \in Handler /\ SameStream(g, h)
      /\ g.pc = h.pc /\ g.terminal = h.terminal /\ g.writeFailure = h.writeFailure
  <2>1. CASE g = [h EXCEPT !.results = << >>]
    <3>1. g \in Handler /\ g.pc = h.pc /\ g.reply = h.reply /\ g.terminal = h.terminal
      BY <1>1, <2>1 DEF Handler
    <3>2. g.watcher = h.watcher /\ g.reason = h.reason /\ g.body = h.body
      BY <1>1, <2>1 DEF Handler
    <3>3. g.ctxErr = h.ctxErr /\ g.timedOut = h.timedOut
      BY <1>1, <2>1 DEF Handler
    <3>4. g.writeFailure = h.writeFailure
      BY <1>1, <2>1 DEF Handler
    <3>. QED
      BY <3>1, <3>2, <3>3, <3>4 DEF SameStream
  <2>2. CASE g = [h EXCEPT !.accepted = FALSE]
    <3>1. g \in Handler /\ g.pc = h.pc /\ g.reply = h.reply /\ g.terminal = h.terminal
      BY <1>1, <2>2 DEF Handler
    <3>2. g.watcher = h.watcher /\ g.reason = h.reason /\ g.body = h.body
      BY <1>1, <2>2 DEF Handler
    <3>3. g.ctxErr = h.ctxErr /\ g.timedOut = h.timedOut
      BY <1>1, <2>2 DEF Handler
    <3>4. g.writeFailure = h.writeFailure
      BY <1>1, <2>2 DEF Handler
    <3>. QED
      BY <3>1, <3>2, <3>3, <3>4 DEF SameStream
  <2>. QED
    BY <2>1, <2>2
<1>3. CoreOK(g) /\ ReplyOK(g) /\ BodyOK(g) /\ EventOK(g)
  BY <1>2 DEF SameStream, RequestOK, CoreOK, ReplyOK, BodyOK, EventOK, Early, Loop
<1>. QED
  BY <1>2, <1>3 DEF RequestOK

\* The response that Do and validateUpstreamResponse hand over differs in its body only.
LEMMA Responded ==
    ASSUME NEW h \in Handler, NEW g \in UNION {validateUpstreamResponse(u) : u \in upstreamDo(h)}
    PROVE  /\ g \in Handler
           /\ g.pc = h.pc /\ g.terminal = h.terminal /\ g.writeFailure = h.writeFailure
           /\ g.ctxErr = h.ctxErr /\ g.timedOut = h.timedOut /\ g.reply = h.reply /\ g.watcher = h.watcher
           /\ g.reason = h.reason
<1>1. PICK u \in upstreamDo(h) : g \in validateUpstreamResponse(u)
  OBVIOUS
<1>2. /\ u \in Handler
      /\ u.pc = h.pc /\ u.terminal = h.terminal /\ u.writeFailure = h.writeFailure
      /\ u.ctxErr = h.ctxErr /\ u.timedOut = h.timedOut /\ u.reply = h.reply /\ u.watcher = h.watcher
      /\ u.reason = h.reason
  <2>1. CASE u = h
    BY <2>1
  <2>2. CASE u = [h EXCEPT !.body = "open"]
    BY <2>2 DEF Handler
  <2>. QED
    BY <2>1, <2>2 DEF upstreamDo
<1>3. /\ g \in Handler
      /\ g.pc = u.pc /\ g.terminal = u.terminal /\ g.writeFailure = u.writeFailure
      /\ g.ctxErr = u.ctxErr /\ g.timedOut = u.timedOut /\ g.reply = u.reply /\ g.watcher = u.watcher
      /\ g.reason = u.reason
  <2>1. CASE g = u
    BY <1>2, <2>1
  <2>2. CASE g = [u EXCEPT !.body = "closed"]
    BY <1>2, <2>2, ZenonT(60) DEF Handler
  <2>. QED
    BY <1>1, <2>1, <2>2 DEF validateUpstreamResponse
<1>. QED
  BY <1>2, <1>3

\* After Do: an error answer, or a watched stream.
LEMMA DoOK ==
    ASSUME NEW h, NEW lease, NEW down, RequestOK(h, lease, down), h.pc = "do",
           NEW u \in UNION {validateUpstreamResponse(v) : v \in upstreamDo(h)},
           NEW g,
           g = IF u.body # "open" THEN JSONError(u)
               ELSE IF u.ctxErr THEN Return([u EXCEPT !.watcher = "watching"])
               ELSE Goto([u EXCEPT !.watcher = "watching"], "start")
    PROVE  RequestOK(g, lease, down)
<1>1. h \in Handler
  BY DEF RequestOK
<1>2. /\ u \in Handler
      /\ u.pc = h.pc /\ u.terminal = h.terminal /\ u.writeFailure = h.writeFailure
      /\ u.ctxErr = h.ctxErr /\ u.timedOut = h.timedOut /\ u.reply = h.reply /\ u.watcher = h.watcher
      /\ u.reason = h.reason
  BY <1>1, Responded
<1>3. /\ u.reply = "none" /\ u.terminal = "none" /\ ~u.writeFailure /\ u.watcher = "off"
      /\ ~u.timedOut
      /\ u.reason # "canceled" \/ u.ctxErr
      /\ u.reason # "stream_interrupted"
  BY <1>2 DEF RequestOK, CoreOK, ReplyOK, BodyOK, Early
<1>4. CASE u.body # "open"
  <2>1. CoreOK(u)
    BY <1>3, <1>4 DEF CoreOK
  <2>2. g = Return(writeJSON(u, FALSE))
    BY <1>4 DEF JSONError
  <2>. QED
    BY <1>2, <1>3, <2>1, <2>2, ReplyJSONOK
<1>5. CASE u.body = "open"
  <2>. DEFINE w == [u EXCEPT !.watcher = "watching"]
  <2>1. /\ w \in Handler
        /\ w.watcher = "watching" /\ w.body = u.body /\ w.reason = u.reason
        /\ w.reply = u.reply /\ w.terminal = u.terminal
    BY <1>2 DEF Handler
  <2>2. w.ctxErr = u.ctxErr /\ w.timedOut = u.timedOut
    BY <1>2 DEF Handler
  <2>3. w.writeFailure = u.writeFailure
    BY <1>2 DEF Handler
  <2>4. g = IF u.ctxErr THEN Return(w) ELSE Goto(w, "start")
    BY <1>5
  <2>. HIDE DEF w
  <2>5. CoreOK(w)
    BY <1>3, <2>1, <2>2, <2>3 DEF CoreOK
  <2>6. CASE u.ctxErr
    BY <1>3, <2>1, <2>2, <2>4, <2>5, <2>6, ReturnOK DEF Abandoned
  <2>7. CASE ~u.ctxErr
    <3>1. "start" \in PCs /\ g = Goto(w, "start")
      BY <2>4, <2>7 DEF PCs
    <3>2. /\ g \in Handler /\ SameStream(g, w)
          /\ g.pc = "start"
          /\ g.terminal = w.terminal /\ g.writeFailure = w.writeFailure
      BY <2>1, <3>1, GotoFields
    <3>3. CoreOK(g) /\ ReplyOK(g) /\ BodyOK(g) /\ EventOK(g)
      BY <1>3, <1>5, <2>1, <2>2, <2>3, <2>5, <3>2
      DEF SameStream, CoreOK, ReplyOK, BodyOK, EventOK, Early, Loop
    <3>. QED
      BY <3>2, <3>3 DEF RequestOK
  <2>. QED
    BY <2>6, <2>7
<1>. QED
  BY <1>4, <1>5

Headed(h) == IF h.ctxErr THEN h ELSE [h EXCEPT !.reply = "stream"]

Entered(w) == IF w.writeFailure THEN Return(w) ELSE Goto(w, "next")

\* session.Start: the loop is entered only with a stream that can be written.
LEMMA StartOK ==
    ASSUME NEW h, NEW lease, NEW down, RequestOK(h, lease, down), h.pc = "start",
           NEW headed, headed = Headed(h), NEW w \in Writes(headed, headed),
           NEW g, g = Entered(w)
    PROVE  RequestOK(g, lease, down)
<1>1. /\ h \in Handler /\ CoreOK(h) /\ ~h.writeFailure /\ h.terminal = "none"
      /\ ~h.timedOut
  BY DEF RequestOK, ReplyOK
<1>2. /\ headed \in Handler
      /\ headed.pc = h.pc /\ headed.terminal = h.terminal
      /\ headed.writeFailure = h.writeFailure
      /\ headed.watcher = h.watcher /\ headed.reason = h.reason /\ headed.body = h.body
      /\ headed.ctxErr = h.ctxErr /\ headed.timedOut = h.timedOut
      /\ h.ctxErr \/ headed.reply = "stream"
  <2>1. CASE h.ctxErr
    BY <1>1, <2>1 DEF Headed
  <2>2. CASE ~h.ctxErr
    <3>1. headed = [h EXCEPT !.reply = "stream"]
      BY <2>2 DEF Headed
    <3>. QED
      BY <1>1, <3>1, Replied
  <2>. QED
    BY <2>1, <2>2
<1>3. CoreOK(headed)
  BY <1>1, <1>2 DEF CoreOK
<1>4. CASE w = [headed EXCEPT !.writeFailure = TRUE]
  <2>1. /\ w \in Handler /\ SameStream(w, headed)
        /\ w.terminal = headed.terminal /\ w.writeFailure = TRUE
    BY <1>2, <1>4, WriteFailed
  <2>2. CoreOK(w) /\ (Abandoned(w) \/ AnswerOK(w, down))
    BY <1>1, <1>2, <1>3, <2>1 DEF CoreOK, AnswerOK, SameStream, Abandoned
  <2>3. g = Return(w)
    BY <2>1 DEF Entered
  <2>. QED
    BY <2>1, <2>2, <2>3, ReturnOK
<1>5. CASE w = headed /\ ~h.ctxErr
  <2>1. headed \in Handler /\ "next" \in PCs /\ g = Goto(headed, "next")
    <3>1. ~w.writeFailure
      BY <1>1, <1>2, <1>5
    <3>. QED
      BY <1>2, <1>5, <3>1 DEF PCs, Entered
  <2>2. /\ g \in Handler /\ SameStream(g, headed)
        /\ g.pc = "next"
        /\ g.terminal = headed.terminal /\ g.writeFailure = headed.writeFailure
    BY <2>1, GotoFields
  <2>3. CoreOK(g) /\ ReplyOK(g) /\ BodyOK(g)
    BY <1>1, <1>2, <1>3, <1>5, <2>2, ZenonT(60)
    DEF SameStream, RequestOK, CoreOK, ReplyOK, BodyOK, Early, Loop
  <2>. QED
    BY <2>2, <2>3 DEF RequestOK, EventOK, Loop
<1>. QED
  BY <1>2, <1>4, <1>5 DEF Writes

-----------------------------------------------------------------------------
(* The event loop.                                                         *)

Taken(h, kind, turn, b, n) ==
    [h EXCEPT !.event = kind, !.turn = turn, !.started = b, !.deltas = n]

\* What taking up an event does to the fields.
LEMMA EventTaken ==
    ASSUME NEW h \in Handler, NEW kind \in EventKinds, NEW turn \in Turns \cup {NoTurn},
           NEW b \in BOOLEAN, NEW n \in 0..MaxDeltas,
           NEW g, g = Taken(h, kind, turn, b, n)
    PROVE  /\ g \in Handler /\ SameStream(g, h)
           /\ g.terminal = h.terminal /\ g.writeFailure = h.writeFailure
           /\ g.event = kind /\ g.turn = turn /\ g.started = b
<1>1. kind \in EventKinds \cup {"none", "Interrupted"}
  OBVIOUS
<1>2. g \in Handler
  BY <1>1 DEF Handler, Taken
<1>3. g.event = kind /\ g.turn = turn /\ g.reply = h.reply /\ g.terminal = h.terminal
  BY DEF Handler, Taken
<1>4. g.watcher = h.watcher /\ g.reason = h.reason /\ g.body = h.body
  BY DEF Handler, Taken
<1>5. g.ctxErr = h.ctxErr /\ g.timedOut = h.timedOut
  BY DEF Handler, Taken
<1>6. g.writeFailure = h.writeFailure
  BY DEF Handler, Taken
<1>7. g.started = b
  BY DEF Handler, Taken
<1>. QED
  BY <1>2, <1>3, <1>4, <1>5, <1>6, <1>7 DEF SameStream

\* An event was returned by Next: the abort check comes next.
LEMMA CheckNext ==
    ASSUME NEW h, NEW lease, NEW down, RequestOK(h, lease, down), h.pc = "next",
           NEW r \in Handler, SameStream(r, h),
           r.terminal = h.terminal, r.writeFailure = h.writeFailure,
           r.event # "none", r.event = "ResponseStarted" => r.started,
           r.event = "Interrupted" => h.reason # "" \/ h.ctxErr,
           NEW g, g = Goto(r, "check")
    PROVE  RequestOK(g, lease, down)
<1>1. "check" \in PCs
  BY DEF PCs
<1>2. /\ g \in Handler /\ SameStream(g, r)
      /\ g.pc = "check"
      /\ g.terminal = r.terminal /\ g.writeFailure = r.writeFailure
      /\ g.event = r.event /\ g.turn = r.turn /\ g.started = r.started
  BY <1>1, GotoFields, ZenonT(60)
<1>3. CoreOK(g) /\ ReplyOK(g) /\ BodyOK(g)
  BY <1>2 DEF SameStream, RequestOK, CoreOK, ReplyOK, BodyOK, Early, Loop
<1>4. EventOK(g)
  BY <1>2 DEF SameStream, EventOK
<1>. QED
  BY <1>2, <1>3, <1>4 DEF RequestOK

\* The same for a read that was broken off: the watcher or the context did it.
LEMMA InterruptedOK ==
    ASSUME NEW h, NEW lease, NEW down, RequestOK(h, lease, down), h.pc = "next",
           h.body = "closed" \/ h.ctxErr,
           NEW g, g = Goto([h EXCEPT !.event = "Interrupted"], "check")
    PROVE  RequestOK(g, lease, down)
<1>. DEFINE r == [h EXCEPT !.event = "Interrupted"]
<1>1. h \in Handler /\ (h.reason # "" \/ h.ctxErr)
  BY DEF RequestOK, BodyOK, Loop
<1>2. r \in Handler /\ r.event = "Interrupted" /\ r.reply = h.reply /\ r.terminal = h.terminal
  BY <1>1 DEF Handler
<1>3. r.watcher = h.watcher /\ r.reason = h.reason /\ r.body = h.body
  BY <1>1 DEF Handler
<1>4. r.ctxErr = h.ctxErr /\ r.timedOut = h.timedOut
  BY <1>1 DEF Handler
<1>5. r.writeFailure = h.writeFailure
  BY <1>1 DEF Handler
<1>6. g = Goto(r, "check")
  OBVIOUS
<1>. HIDE DEF r
<1>7. SameStream(r, h)
  BY <1>2, <1>3, <1>4 DEF SameStream
<1>. QED
  BY <1>1, <1>2, <1>5, <1>6, <1>7, CheckNext

Unaborted(h) == h.reason = "" /\ ~h.ctxErr

\* After the abort check: an event that goes on to be handled was not broken off by us.
LEMMA CheckPassedOK ==
    ASSUME NEW h, NEW lease, NEW down, RequestOK(h, lease, down), h.pc = "check",
           Unaborted(h),
           NEW pc \in {"save", "handle"}, pc = "save" => h.turn # NoTurn,
           NEW g, g = Goto(h, pc)
    PROVE  RequestOK(g, lease, down)
<1>1. h \in Handler /\ pc \in PCs
  BY DEF RequestOK, PCs
<1>2. /\ g \in Handler /\ SameStream(g, h)
      /\ g.pc = pc
      /\ g.terminal = h.terminal /\ g.writeFailure = h.writeFailure
      /\ g.event = h.event /\ g.turn = h.turn /\ g.started = h.started
  BY <1>1, GotoFields
<1>3. CoreOK(g) /\ ReplyOK(g) /\ BodyOK(g)
  BY <1>2 DEF SameStream, RequestOK, CoreOK, ReplyOK, BodyOK, Early, Loop
<1>4. EventOK(g)
  BY <1>2 DEF RequestOK, EventOK, Loop, Unaborted
<1>. QED
  BY <1>2, <1>3, <1>4 DEF RequestOK

\* The turn was saved, or the event accepts the lease: the same event goes on.
LEMMA SameEventOK ==
    ASSUME NEW h, NEW lease, NEW down, RequestOK(h, lease, down),
           NEW pc,
           \/ h.pc = "save" /\ pc = "handle"
           \/ h.pc = "handle" /\ pc = "commit" /\ h.event = "ResponseStarted",
           NEW g, g = Goto(h, pc)
    PROVE  RequestOK(g, lease, down)
<1>1. h \in Handler /\ pc \in PCs
  BY DEF RequestOK, PCs
<1>2. /\ g \in Handler /\ SameStream(g, h)
      /\ g.pc = pc
      /\ g.terminal = h.terminal /\ g.writeFailure = h.writeFailure
      /\ g.event = h.event /\ g.turn = h.turn /\ g.started = h.started
  BY <1>1, GotoFields
<1>3. CoreOK(g) /\ ReplyOK(g) /\ BodyOK(g)
  BY <1>2 DEF SameStream, RequestOK, CoreOK, ReplyOK, BodyOK, Early, Loop
<1>4. EventOK(g)
  BY <1>2 DEF RequestOK, EventOK, Loop
<1>. QED
  BY <1>2, <1>3, <1>4 DEF RequestOK

\* The event is done with and the loop goes round.
LEMMA RoundOK ==
    ASSUME NEW h, NEW lease, NEW down, RequestOK(h, lease, down),
           h.pc \in {"handle", "commit"},
           NEW r, r = [h EXCEPT !.event = "none"] \/ r = [h EXCEPT !.accepted = TRUE, !.event = "none"],
           NEW g, g = Goto(r, "next")
    PROVE  RequestOK(g, lease, down)
<1>1. h \in Handler /\ "next" \in PCs
  BY DEF RequestOK, PCs
<1>2. /\ r \in Handler /\ SameStream(r, h)
      /\ r.terminal = h.terminal /\ r.writeFailure = h.writeFailure
  <2>1. CASE r = [h EXCEPT !.event = "none"]
    <3>1. r \in Handler /\ r.reply = h.reply /\ r.terminal = h.terminal
      BY <1>1, <2>1 DEF Handler
    <3>2. r.watcher = h.watcher /\ r.reason = h.reason /\ r.body = h.body
      BY <1>1, <2>1 DEF Handler
    <3>3. r.ctxErr = h.ctxErr /\ r.timedOut = h.timedOut
      BY <1>1, <2>1 DEF Handler
    <3>4. r.writeFailure = h.writeFailure
      BY <1>1, <2>1 DEF Handler
    <3>. QED
      BY <3>1, <3>2, <3>3, <3>4 DEF SameStream
  <2>2. CASE r = [h EXCEPT !.accepted = TRUE, !.event = "none"]
    <3>1. r \in Handler /\ r.reply = h.reply /\ r.terminal = h.terminal
      BY <1>1, <2>2 DEF Handler
    <3>2. r.watcher = h.watcher /\ r.reason = h.reason /\ r.body = h.body
      BY <1>1, <2>2 DEF Handler
    <3>3. r.ctxErr = h.ctxErr /\ r.timedOut = h.timedOut
      BY <1>1, <2>2 DEF Handler
    <3>4. r.writeFailure = h.writeFailure
      BY <1>1, <2>2 DEF Handler
    <3>. QED
      BY <3>1, <3>2, <3>3, <3>4 DEF SameStream
  <2>. QED
    BY <2>1, <2>2
<1>3. /\ g \in Handler /\ SameStream(g, r)
      /\ g.pc = "next"
      /\ g.terminal = r.terminal /\ g.writeFailure = r.writeFailure
  BY <1>1, <1>2, GotoFields
<1>4. CoreOK(g) /\ ReplyOK(g) /\ BodyOK(g)
  BY <1>2, <1>3, ZenonT(60) DEF SameStream, RequestOK, CoreOK, ReplyOK, BodyOK, Early, Loop
<1>. QED
  BY <1>3, <1>4 DEF RequestOK, EventOK, Loop

Dealt(w) ==
    IF w.writeFailure \/ w.terminal # "none" THEN Return(w)
    ELSE IF ~w.accepted /\ w.event = "ResponseStarted" THEN Goto(w, "commit")
    ELSE Goto([w EXCEPT !.event = "none"], "next")

\* session.Handle: the loop ends with the stream, and only with it.
LEMMA HandleOK ==
    ASSUME NEW h, NEW lease, NEW down, RequestOK(h, lease, down), h.pc = "handle",
           NEW w \in Handled(h), NEW g, g = Dealt(w)
    PROVE  RequestOK(g, lease, down)
<1>1. h \in Handler /\ CoreOK(h) /\ ReplyOK(h) /\ h.pc \in Loop
  BY DEF RequestOK, Loop
<1>2. h.reply = "stream" /\ h.terminal = "none" /\ ~h.writeFailure
  BY <1>1 DEF ReplyOK
<1>3. h.event \in EventKinds
  <2>1. h.event \in EventKinds \cup {"none", "Interrupted"}
    BY <1>1 DEF Handler
  <2>2. h.event # "none" /\ h.event # "Interrupted"
    BY DEF RequestOK, EventOK, Loop
  <2>. QED
    BY <2>1, <2>2
<1>4. CASE w = h
  <2>1. g = IF ~h.accepted /\ h.event = "ResponseStarted" THEN Goto(h, "commit")
            ELSE Goto([h EXCEPT !.event = "none"], "next")
    BY <1>2, <1>4 DEF Dealt
  <2>2. CASE g = Goto(h, "commit") /\ h.event = "ResponseStarted"
    BY <2>2, SameEventOK
  <2>3. CASE g = Goto([h EXCEPT !.event = "none"], "next")
    BY <2>3, RoundOK
  <2>. QED
    BY <2>1, <2>2, <2>3
<1>5. CASE w = [h EXCEPT !.writeFailure = TRUE]
  <2>1. /\ w \in Handler /\ SameStream(w, h)
        /\ w.terminal = h.terminal /\ w.writeFailure = TRUE
    BY <1>1, <1>5, WriteFailed
  <2>2. CoreOK(w) /\ AnswerOK(w, down)
    BY <1>1, <1>2, <2>1 DEF CoreOK, AnswerOK, SameStream
  <2>3. g = Return(w)
    BY <2>1 DEF Dealt
  <2>. QED
    BY <2>1, <2>2, <2>3, ReturnOK
<1>6. ASSUME NEW t \in {"completed", "incomplete", "failed"},
             w \in Writes(h, [h EXCEPT !.terminal = t])
      PROVE  RequestOK(g, lease, down)
  <2>1. t \in Terminals \ {"none", "interrupted"}
    BY DEF Terminals
  <2>2. w.writeFailure \/ w.terminal # "none"
    BY <1>1, <1>2, <1>6, <2>1, EndStreamOK
  <2>3. g = Return(w)
    BY <2>2 DEF Dealt
  <2>. QED
    BY <1>1, <1>2, <1>6, <2>1, <2>3, EndStreamOK
<1>7. CASE w \in Fail(h, "failed")
  <2>1. "failed" \in Terminals \ {"none", "interrupted"}
    BY DEF Terminals
  <2>2. RequestOK(w, lease, down) /\ (w.writeFailure \/ w.terminal # "none") /\ w.pc = "defers"
    <3>1. RequestOK(w, lease, down) /\ (w.writeFailure \/ w.terminal # "none")
      BY <1>1, <1>7, <2>1, FailOK
    <3>2. PICK v \in Writes(h, [h EXCEPT !.terminal = "failed"]) : w = Return(v)
      BY <1>2, <1>7 DEF Fail
    <3>3. v \in Handler
      BY <1>1, <1>2, <2>1, <3>2, EndStreamOK
    <3>. QED
      BY <3>1, <3>2, <3>3, ReturnFields
  <2>3. g = Return(w)
    BY <2>2 DEF Dealt
  <2>4. w \in Handler /\ CoreOK(w) /\ (Abandoned(w) \/ AnswerOK(w, down))
    BY <2>2 DEF RequestOK
  <2>. QED
    BY <2>3, <2>4, ReturnOK
<1>8. \/ w = h \/ w = [h EXCEPT !.writeFailure = TRUE]
      \/ \E t \in {"completed", "incomplete", "failed"} : w \in Writes(h, [h EXCEPT !.terminal = t])
      \/ w \in Fail(h, "failed")
  <2>1. CASE h.event = "ResponseStarted"
    BY <2>1 DEF Handled
  <2>2. CASE h.event = "Delta"
    BY <2>2 DEF Handled, Writes
  <2>3. CASE h.event = "Completed"
    BY <2>3 DEF Handled
  <2>4. CASE h.event = "Incomplete"
    BY <2>4 DEF Handled
  <2>5. CASE h.event = "Failed"
    BY <2>5 DEF Handled
  <2>. QED
    BY <1>3, <2>1, <2>2, <2>3, <2>4, <2>5 DEF EventKinds
<1>. QED
  BY <1>4, <1>5, <1>6, <1>7, <1>8

-----------------------------------------------------------------------------
(* The deferred calls, the watcher and the client.                         *)

\* The deferred calls release what the request held.
LEMMA DeferredOK ==
    ASSUME NEW h, NEW lease, NEW down, RequestOK(h, lease, down), h.pc = "defers",
           h.watcher \in {"off", "done"},
           NEW body, body = IF h.body = "open" THEN "closed" ELSE h.body,
           NEW g, g = [h EXCEPT !.pc = "fallback", !.body = body]
    PROVE  RequestOK(g, NoRecord, down)
<1>1. h \in Handler /\ body \in {"none", "closed"} /\ "fallback" \in PCs
  BY DEF RequestOK, Handler, PCs
<1>2. g \in Handler /\ g.pc = "fallback" /\ g.body = body
  BY <1>1, ZenonT(60) DEF Handler
<1>3. g.reply = h.reply /\ g.terminal = h.terminal /\ g.watcher = h.watcher /\ g.reason = h.reason
  BY <1>1 DEF Handler
<1>4. g.ctxErr = h.ctxErr /\ g.timedOut = h.timedOut
  BY <1>1 DEF Handler
<1>5. g.writeFailure = h.writeFailure
  BY <1>1 DEF Handler
<1>6. CoreOK(h) /\ (~Abandoned(h) => AnswerOK(h, down))
  BY DEF RequestOK
<1>7. CoreOK(g) /\ (~Abandoned(g) => AnswerOK(g, down))
  BY <1>1, <1>2, <1>3, <1>4, <1>5, <1>6 DEF CoreOK, AnswerOK, Abandoned
<1>8. ReplyOK(g) /\ BodyOK(g) /\ EventOK(g)
  BY <1>1, <1>2, <1>3 DEF ReplyOK, BodyOK, EventOK, Early, Loop
<1>. QED
  BY <1>2, <1>7, <1>8 DEF RequestOK

\* What the watcher and the client leave alone.
SameHandler(g, h) ==
    /\ g.pc = h.pc /\ g.reply = h.reply /\ g.terminal = h.terminal
    /\ g.event = h.event /\ g.turn = h.turn
    /\ g.started = h.started /\ g.writeFailure = h.writeFailure /\ g.timedOut = h.timedOut

\* The watcher notes why it is about to abort the stream.
LEMMA NotedOK ==
    ASSUME NEW h, NEW lease, NEW down, RequestOK(h, lease, down), h.watcher = "watching",
           NEW reason \in {"canceled", "timeout", "stream_interrupted"},
           reason = "canceled" => h.ctxErr,
           reason = "stream_interrupted" => h.writeFailure,
           NEW g, g = [h EXCEPT !.watcher = "noted", !.reason = reason]
    PROVE  RequestOK(g, lease, down)
<1>1. h \in Handler
  BY DEF RequestOK
<1>2. g \in Handler /\ g.watcher = "noted" /\ g.reason = reason /\ g.body = h.body
  BY <1>1 DEF Handler
<1>3. g.ctxErr = h.ctxErr
  BY <1>1 DEF Handler
<1>4. SameHandler(g, h)
  <2>1. g.pc = h.pc /\ g.reply = h.reply /\ g.terminal = h.terminal
    BY <1>1 DEF Handler
  <2>2. g.event = h.event /\ g.turn = h.turn
    BY <1>1 DEF Handler
  <2>3. g.started = h.started
    BY <1>1 DEF Handler
  <2>4. g.writeFailure = h.writeFailure
    BY <1>1 DEF Handler
  <2>5. g.timedOut = h.timedOut
    BY <1>1 DEF Handler
  <2>. QED
    BY <2>1, <2>2, <2>3, <2>4, <2>5 DEF SameHandler
<1>5. CoreOK(g)
  BY <1>2, <1>3, <1>4 DEF RequestOK, CoreOK, SameHandler
<1>6. ReplyOK(g) /\ BodyOK(g)
  BY <1>2, <1>4 DEF RequestOK, ReplyOK, BodyOK, SameHandler, Early, Loop
<1>7. EventOK(g)
  BY <1>2, <1>3, <1>4 DEF RequestOK, EventOK, SameHandler, Loop
<1>. QED
  BY <1>2, <1>3, <1>4, <1>5, <1>6, <1>7 DEF RequestOK, AnswerOK, SameHandler, Abandoned

\* The watcher aborts the stream, its reason published.
LEMMA AbortedOK ==
    ASSUME NEW h, NEW lease, NEW down, RequestOK(h, lease, down), h.watcher = "noted",
           NEW g, g = [h EXCEPT !.watcher = "done", !.body = "closed"]
    PROVE  RequestOK(g, lease, down)
<1>1. h \in Handler
  BY DEF RequestOK
<1>2. g \in Handler /\ g.watcher = "done" /\ g.body = "closed" /\ g.reason = h.reason
  BY <1>1 DEF Handler
<1>3. g.ctxErr = h.ctxErr
  BY <1>1 DEF Handler
<1>4. SameHandler(g, h)
  <2>1. g.pc = h.pc /\ g.reply = h.reply /\ g.terminal = h.terminal
    BY <1>1 DEF Handler
  <2>2. g.event = h.event /\ g.turn = h.turn
    BY <1>1 DEF Handler
  <2>3. g.started = h.started
    BY <1>1 DEF Handler
  <2>4. g.writeFailure = h.writeFailure
    BY <1>1 DEF Handler
  <2>5. g.timedOut = h.timedOut
    BY <1>1 DEF Handler
  <2>. QED
    BY <2>1, <2>2, <2>3, <2>4, <2>5 DEF SameHandler
<1>5. CoreOK(g)
  BY <1>2, <1>3, <1>4 DEF RequestOK, CoreOK, SameHandler
<1>6. ReplyOK(g) /\ BodyOK(g)
  BY <1>2, <1>4 DEF RequestOK, CoreOK, ReplyOK, BodyOK, SameHandler, Early, Loop
<1>7. EventOK(g)
  BY <1>2, <1>3, <1>4 DEF RequestOK, EventOK, SameHandler, Loop
<1>. QED
  BY <1>2, <1>3, <1>4, <1>5, <1>6, <1>7 DEF RequestOK, AnswerOK, SameHandler, Abandoned

\* The watcher is stopped.
LEMMA StoppedOK ==
    ASSUME NEW h, NEW lease, NEW down, RequestOK(h, lease, down), h.watcher = "watching",
           NEW g, g = [h EXCEPT !.watcher = "done"]
    PROVE  RequestOK(g, lease, down)
<1>1. h \in Handler
  BY DEF RequestOK
<1>2. g \in Handler /\ g.watcher = "done" /\ g.body = h.body /\ g.reason = h.reason
  BY <1>1 DEF Handler
<1>3. g.ctxErr = h.ctxErr
  BY <1>1 DEF Handler
<1>4. SameHandler(g, h)
  <2>1. g.pc = h.pc /\ g.reply = h.reply /\ g.terminal = h.terminal
    BY <1>1 DEF Handler
  <2>2. g.event = h.event /\ g.turn = h.turn
    BY <1>1 DEF Handler
  <2>3. g.started = h.started
    BY <1>1 DEF Handler
  <2>4. g.writeFailure = h.writeFailure
    BY <1>1 DEF Handler
  <2>5. g.timedOut = h.timedOut
    BY <1>1 DEF Handler
  <2>. QED
    BY <2>1, <2>2, <2>3, <2>4, <2>5 DEF SameHandler
<1>5. CoreOK(g)
  BY <1>2, <1>3, <1>4 DEF RequestOK, CoreOK, SameHandler
<1>6. ReplyOK(g) /\ BodyOK(g)
  BY <1>2, <1>4 DEF RequestOK, CoreOK, ReplyOK, BodyOK, SameHandler, Early, Loop
<1>7. EventOK(g)
  BY <1>2, <1>3, <1>4 DEF RequestOK, EventOK, SameHandler, Loop
<1>. QED
  BY <1>2, <1>3, <1>4, <1>5, <1>6, <1>7 DEF RequestOK, AnswerOK, SameHandler, Abandoned

\* The client leaves.
LEMMA CanceledOK ==
    ASSUME NEW h, NEW lease, NEW down, RequestOK(h, lease, down),
           NEW g, g = [h EXCEPT !.ctxErr = TRUE]
    PROVE  RequestOK(g, lease, down)
<1>1. h \in Handler
  BY DEF RequestOK
<1>2. g \in Handler /\ g.watcher = h.watcher /\ g.body = h.body /\ g.reason = h.reason
  BY <1>1 DEF Handler
<1>3. g.ctxErr = TRUE
  BY <1>1 DEF Handler
<1>4. SameHandler(g, h)
  <2>1. g.pc = h.pc /\ g.reply = h.reply /\ g.terminal = h.terminal
    BY <1>1 DEF Handler
  <2>2. g.event = h.event /\ g.turn = h.turn
    BY <1>1 DEF Handler
  <2>3. g.started = h.started
    BY <1>1 DEF Handler
  <2>4. g.writeFailure = h.writeFailure
    BY <1>1 DEF Handler
  <2>5. g.timedOut = h.timedOut
    BY <1>1 DEF Handler
  <2>. QED
    BY <2>1, <2>2, <2>3, <2>4, <2>5 DEF SameHandler
<1>5. CoreOK(g)
  BY <1>2, <1>3, <1>4 DEF RequestOK, CoreOK, SameHandler
<1>6. ReplyOK(g) /\ BodyOK(g)
  BY <1>2, <1>4 DEF RequestOK, ReplyOK, BodyOK, SameHandler, Early, Loop
<1>7. EventOK(g)
  BY <1>2, <1>3, <1>4 DEF RequestOK, EventOK, SameHandler, Loop
<1>. QED
  BY <1>2, <1>3, <1>4, <1>5, <1>6, <1>7 DEF RequestOK, AnswerOK, SameHandler, Abandoned

-----------------------------------------------------------------------------
(* The actions.  A step is about one request; the others keep their        *)
(* handlers and their leases.                                              *)

HandlerInv ==
    /\ shuttingDown \in BOOLEAN
    /\ reqs \in [Requests -> Handler]
    /\ \A q \in Requests : RequestOK(reqs[q], leases[q], shuttingDown)

\* A step that gives request q the handler g and perhaps another lease.
LEMMA OneRequest ==
    ASSUME HandlerInv, NEW q \in Requests, NEW g, Set(q, g),
           RequestOK(g, leases'[q], shuttingDown), UNCHANGED shuttingDown,
           \A p \in Requests \ {q} : leases'[p] = leases[p]
    PROVE  HandlerInv'
<1>1. g \in Handler
  BY DEF RequestOK
<1>2. reqs' \in [Requests -> Handler] /\ reqs'[q] = g
  BY <1>1 DEF Set, HandlerInv
<1>3. \A p \in Requests \ {q} : reqs'[p] = reqs[p]
  BY DEF Set, HandlerInv
<1>4. \A p \in Requests : RequestOK(reqs'[p], leases'[p], shuttingDown')
  BY <1>2, <1>3 DEF HandlerInv
<1>. QED
  BY <1>2, <1>4 DEF HandlerInv

\* The steps before the stream is open.
LEMMA OpeningInv ==
    ASSUME HandlerInv, NEW q \in Requests,
           \/ \E results \in ResultSets \cup {<< >>} : Arrive(q, results)
           \/ DecodeRequest(q) \/ AnswerTimeout(q) \/ Do(q) \/ Start(q)
    PROVE  HandlerInv'
<1>. DEFINE h == reqs[q]
<1>1. RequestOK(h, leases[q], shuttingDown) /\ shuttingDown \in BOOLEAN
  BY DEF HandlerInv
<1>2. UNCHANGED <<leases, shuttingDown>>
  BY DEF Arrive, DecodeRequest, AnswerTimeout, Do, Start
<1>3. SUFFICES \E g : Set(q, g) /\ RequestOK(g, leases[q], shuttingDown)
  BY <1>2, OneRequest
<1>4. h \in Handler /\ CoreOK(h)
  BY <1>1 DEF RequestOK
<1>5. ASSUME NEW results \in ResultSets \cup {<< >>}, Arrive(q, results)
      PROVE  \E g : Set(q, g) /\ RequestOK(g, leases[q], shuttingDown)
  <2>1. Set(q, [Idle EXCEPT !.pc = "decode", !.results = results]) /\ leases[q] = NoRecord
    BY <1>1, <1>5 DEF Arrive, At, RequestOK
  <2>. QED
    BY <2>1, ArriveOK
<1>. HIDE DEF h
<1>6. CASE DecodeRequest(q)
  <2>1. h.pc = "decode"
    BY <1>6 DEF DecodeRequest, At, h
  <2>2. /\ h.pc \in Early \ {"timeout"} /\ leases[q] = NoRecord
        /\ h.terminal = "none" /\ ~h.timedOut
    BY <1>1, <2>1 DEF RequestOK, ReplyOK, Early
  <2>3. CASE h.ctxErr /\ Set(q, Return(h))
    BY <1>4, <2>2, <2>3, ReturnOK DEF Abandoned
  <2>4. CASE Set(q, JSONError(h))
    BY <1>4, <2>2, <2>4, ReplyJSONOK DEF JSONError
  <2>5. CASE Set(q, [h EXCEPT !.pc = "timeout", !.ctxErr = TRUE, !.timedOut = TRUE])
    BY <1>1, <2>1, <2>5, TimedOutOK
  <2>6. CASE Set(q, Goto(h, "begin"))
    BY <1>1, <2>2, <2>6, EarlyGotoOK
  <2>. QED
    BY <1>6, <2>3, <2>4, <2>5, <2>6 DEF DecodeRequest, h
<1>7. CASE AnswerTimeout(q)
  <2>1. h.pc = "timeout" /\ Set(q, writeJSONErrorAfterBodyTimeout(h))
    BY <1>7 DEF AnswerTimeout, At, h
  <2>2. h.timedOut /\ h.reply = "none" /\ h.terminal = "none"
    BY <1>1, <2>1 DEF RequestOK, ReplyOK, Early
  <2>3. CASE shuttingDown
    <3>1. AnswerOK(h, shuttingDown)
      BY <2>2, <2>3 DEF AnswerOK
    <3>. QED
      BY <1>4, <2>1, <2>3, <3>1, ReturnOK DEF writeJSONErrorAfterBodyTimeout
  <2>4. CASE ~shuttingDown
    BY <1>4, <2>1, <2>2, <2>4, ReplyJSONOK DEF writeJSONErrorAfterBodyTimeout
  <2>. QED
    BY <2>3, <2>4
<1>8. CASE Do(q)
  <2>1. h.pc = "do" /\ h.terminal = "none" /\ ~h.timedOut
    <3>1. h.pc = "do"
      BY <1>8 DEF Do, At, h
    <3>. QED
      BY <1>1, <3>1 DEF RequestOK, ReplyOK, Early
  <2>2. PICK v \in validateResponsesRequest(h) :
           IF v.pc # "do" THEN Set(q, v)
           ELSE \E u \in UNION {validateUpstreamResponse(x) : x \in upstreamDo(v)} :
                   Set(q, IF u.body # "open" THEN JSONError(u)
                          ELSE IF u.ctxErr THEN Return([u EXCEPT !.watcher = "watching"])
                          ELSE Goto([u EXCEPT !.watcher = "watching"], "start"))
    BY <1>8 DEF Do, h
  <2>3. CASE v = JSONError(h)
    <3>1. RequestOK(v, leases[q], shuttingDown) /\ v.pc = "defers"
      BY <1>4, <2>1, <2>3, ReplyJSONOK DEF JSONError
    <3>. QED
      BY <2>2, <3>1
  <2>4. CASE v = h
    <3>1. PICK u \in UNION {validateUpstreamResponse(x) : x \in upstreamDo(h)} :
                   Set(q, IF u.body # "open" THEN JSONError(u)
                          ELSE IF u.ctxErr THEN Return([u EXCEPT !.watcher = "watching"])
                          ELSE Goto([u EXCEPT !.watcher = "watching"], "start"))
      BY <2>1, <2>2, <2>4
    <3>. QED
      BY <1>1, <2>1, <3>1, DoOK
  <2>. QED
    BY <2>2, <2>3, <2>4 DEF validateResponsesRequest
<1>9. CASE Start(q)
  <2>1. h.pc = "start"
    BY <1>9 DEF Start, At, h
  <2>2. PICK w \in Writes(Headed(h), Headed(h)) : Set(q, Entered(w))
    BY <1>9 DEF Start, h, Headed, Entered
  <2>. QED
    BY <1>1, <2>1, <2>2, StartOK
<1>. QED
  BY <1>5, <1>6, <1>7, <1>8, <1>9

\* The steps of the event loop that leave the store alone.
LEMMA LoopInv ==
    ASSUME HandlerInv, NEW q \in Requests,
           \/ \E kind \in EventKinds, turn \in Turns \cup {NoTurn} : NextEvent(q, kind, turn)
           \/ NextInterrupted(q) \/ CheckAbort(q) \/ HandleEvent(q)
    PROVE  HandlerInv'
<1>. DEFINE h == reqs[q]
<1>1. RequestOK(h, leases[q], shuttingDown) /\ shuttingDown \in BOOLEAN
  BY DEF HandlerInv
<1>2. UNCHANGED <<leases, shuttingDown>>
  BY DEF NextEvent, NextInterrupted, CheckAbort, HandleEvent
<1>3. SUFFICES \E g : Set(q, g) /\ RequestOK(g, leases[q], shuttingDown)
  BY <1>2, OneRequest
<1>4. h \in Handler /\ CoreOK(h)
  BY <1>1 DEF RequestOK
<1>. HIDE DEF h
<1>5. ASSUME NEW kind \in EventKinds, NEW turn \in Turns \cup {NoTurn},
             NextEvent(q, kind, turn)
      PROVE  \E g : Set(q, g) /\ RequestOK(g, leases[q], shuttingDown)
  <2>. DEFINE b == h.started \/ kind = "ResponseStarted"
              n == IF kind = "Delta" THEN h.deltas + 1 ELSE h.deltas
              r == [h EXCEPT !.event = kind, !.turn = turn, !.started = b, !.deltas = n]
  <2>1. h.pc = "next" /\ (kind = "Delta" => h.deltas < MaxDeltas)
    BY <1>5 DEF NextEvent, At, h
  <2>2. Set(q, Goto(r, "check"))
    BY <1>5 DEF NextEvent, h
  <2>3. n \in 0..MaxDeltas
    <3>1. h.deltas \in 0..MaxDeltas
      BY <1>4 DEF Handler
    <3>. QED
      BY <2>1, <3>1, HandlerAssumption
  <2>4. b \in BOOLEAN /\ (kind = "ResponseStarted" => b)
    OBVIOUS
  <2>5. kind # "none" /\ kind # "Interrupted"
    BY DEF EventKinds
  <2>. HIDE DEF b, n
  <2>. HIDE DEF r
  <2>6. /\ r \in Handler /\ SameStream(r, h)
        /\ r.terminal = h.terminal /\ r.writeFailure = h.writeFailure
        /\ r.event = kind /\ r.turn = turn /\ r.started = b
    <3>1. r = Taken(h, kind, turn, b, n)
      BY DEF r, Taken
    <3>2. /\ h \in Handler /\ kind \in EventKinds /\ turn \in Turns \cup {NoTurn}
          /\ b \in BOOLEAN /\ n \in 0..MaxDeltas
      BY <1>4, <2>3, <2>4
    <3>. QED
      BY <3>1, <3>2, EventTaken
  <2>. QED
    BY <1>1, <2>1, <2>2, <2>4, <2>5, <2>6, CheckNext
<1>6. CASE NextInterrupted(q)
  <2>1. h.pc = "next" /\ (h.body = "closed" \/ h.ctxErr)
    BY <1>6 DEF NextInterrupted, At, h
  <2>2. Set(q, Goto([h EXCEPT !.event = "Interrupted"], "check"))
    BY <1>6 DEF NextInterrupted, h
  <2>. QED
    BY <1>1, <2>1, <2>2, InterruptedOK
<1>7. CASE CheckAbort(q)
  <2>1. h.pc = "check" /\ h.pc \in Loop
    BY <1>7 DEF CheckAbort, At, h, Loop
  <2>2. ReplyOK(h) /\ ~h.writeFailure /\ ~h.timedOut
    BY <1>1, <2>1 DEF RequestOK, ReplyOK
  <2>3. CASE \E w \in Fail(h, "timeout") : Set(q, w)
    <3>1. "timeout" \in Terminals \ {"none", "interrupted"}
      BY DEF Terminals
    <3>. QED
      BY <1>4, <2>1, <2>2, <2>3, <3>1, FailOK
  <2>4. CASE (h.reason \in {"canceled", "stream_interrupted"} \/ h.ctxErr) /\ Set(q, Return(h))
    <3>1. h.ctxErr
      BY <1>4, <2>2, <2>4 DEF CoreOK
    <3>. QED
      BY <1>4, <2>2, <2>4, <3>1, ReturnOK DEF Abandoned
  <2>5. CASE /\ h.reason = "" /\ ~h.ctxErr
             /\ Set(q, Goto(h, IF h.turn # NoTurn THEN "save" ELSE "handle"))
    <3>1. Unaborted(h)
      BY <2>5 DEF Unaborted
    <3>2. CASE h.turn # NoTurn
      BY <1>1, <2>1, <2>5, <3>1, <3>2, CheckPassedOK
    <3>3. CASE h.turn = NoTurn
      BY <1>1, <2>1, <2>5, <3>1, <3>3, CheckPassedOK
    <3>. QED
      BY <3>2, <3>3
  <2>. QED
    BY <1>7, <2>3, <2>4, <2>5 DEF CheckAbort, h
<1>8. CASE HandleEvent(q)
  <2>1. h.pc = "handle"
    BY <1>8 DEF HandleEvent, At, h
  <2>2. PICK w \in Handled(h) : Set(q, Dealt(w))
    BY <1>8 DEF HandleEvent, h, Dealt
  <2>. QED
    BY <1>1, <2>1, <2>2, HandleOK
<1>. QED
  BY <1>5, <1>6, <1>7, <1>8

\* Begin and finishContext change the lease of their own request only.
LEMMA OwnLease ==
    ASSUME IInv, NEW q \in Requests,
           \/ \E results : Begin(q, results)
           \/ Finish(q, TRUE) \/ Finish(q, FALSE)
    PROVE  /\ \A p \in Requests \ {q} : leases'[p] = leases[p]
           /\ Finish(q, TRUE) \/ Finish(q, FALSE) => leases'[q] = NoRecord
<1>1. leases \in [Requests -> RecIds \cup {NoRecord}]
  BY DEF IInv, TypeOK
<1>2. UNCHANGED leases \/ \E r \in RecIds \cup {NoRecord} : leases' = [leases EXCEPT ![q] = r]
  BY DEF Begin, Finish
<1>3. Finish(q, TRUE) \/ Finish(q, FALSE) => leases' = [leases EXCEPT ![q] = NoRecord]
  BY DEF Finish
<1>. QED
  BY <1>1, <1>2, <1>3

\* Begin, in the handler.
LEMMA BeginLeaseInv ==
    ASSUME IInv, HandlerInv, NEW q \in Requests, BeginLease(q)
    PROVE  HandlerInv'
<1>. DEFINE h == reqs[q]
            e == [h EXCEPT !.results = << >>]
            f == [e EXCEPT !.accepted = FALSE]
<1>1. RequestOK(h, leases[q], shuttingDown) /\ h.pc = "begin" /\ UNCHANGED shuttingDown
  BY DEF HandlerInv, BeginLease, At
<1>2. RequestOK(e, leases[q], shuttingDown) /\ e.pc = "begin"
  BY <1>1, BegunOK
<1>3. RequestOK(f, leases[q], shuttingDown) /\ f.pc = "begin"
  BY <1>2, BegunOK
<1>4. \/ UNCHANGED leases /\ Set(q, Goto(e, "do"))
      \/ /\ \E results : Begin(q, results)
         /\ Set(q, IF leases'[q] # NoRecord THEN Goto(f, "do") ELSE JSONError(e))
      \/ UNCHANGED leases /\ Set(q, JSONError(e))
  BY DEF BeginLease
<1>. HIDE DEF f, e, h
<1>5. /\ e \in Handler /\ CoreOK(e) /\ e.terminal = "none" /\ ~e.timedOut
      /\ e.pc \in Early \ {"timeout"} /\ f.pc \in Early \ {"timeout"}
  BY <1>2, <1>3 DEF RequestOK, ReplyOK, Early
<1>6. \A p \in Requests \ {q} : leases'[p] = leases[p]
  BY <1>4, OwnLease
<1>7. CASE Set(q, Goto(e, "do"))
  <2>1. RequestOK(Goto(e, "do"), leases'[q], shuttingDown)
    BY <1>2, <1>5, EarlyGotoOK
  <2>. QED
    BY <1>1, <1>6, <1>7, <2>1, OneRequest
<1>8. CASE Set(q, Goto(f, "do"))
  <2>1. RequestOK(Goto(f, "do"), leases'[q], shuttingDown)
    BY <1>3, <1>5, EarlyGotoOK
  <2>. QED
    BY <1>1, <1>6, <1>8, <2>1, OneRequest
<1>9. CASE Set(q, JSONError(e))
  <2>1. RequestOK(JSONError(e), leases'[q], shuttingDown)
    BY <1>5, ReplyJSONOK DEF JSONError
  <2>. QED
    BY <1>1, <1>6, <1>9, <2>1, OneRequest
<1>. QED
  BY <1>4, <1>7, <1>8, <1>9

\* SaveContext, in the loop.
LEMMA SaveTurnInv ==
    ASSUME HandlerInv, NEW q \in Requests, SaveTurn(q)
    PROVE  HandlerInv'
<1>. DEFINE h == reqs[q]
<1>1. RequestOK(h, leases[q], shuttingDown) /\ h.pc = "save"
  BY DEF HandlerInv, SaveTurn, At
<1>2. UNCHANGED <<leases, shuttingDown>>
  BY DEF SaveTurn, Saved, SaveRefused
<1>3. \/ Set(q, Goto(h, "handle"))
      \/ \E w \in Fail(h, "continuation") : Set(q, w)
      \/ h.ctxErr /\ Set(q, Return(h))
  BY DEF SaveTurn
<1>. HIDE DEF h
<1>4. /\ h \in Handler /\ CoreOK(h) /\ ReplyOK(h) /\ h.pc \in Loop /\ ~h.timedOut
      /\ "continuation" \in Terminals \ {"none", "interrupted"}
  BY <1>1 DEF RequestOK, ReplyOK, Loop, Terminals
<1>5. \E g : Set(q, g) /\ RequestOK(g, leases[q], shuttingDown)
  <2>1. CASE Set(q, Goto(h, "handle"))
    BY <1>1, <2>1, SameEventOK
  <2>2. CASE \E w \in Fail(h, "continuation") : Set(q, w)
    BY <1>4, <2>2, FailOK
  <2>3. CASE h.ctxErr /\ Set(q, Return(h))
    BY <1>4, <2>3, ReturnOK DEF Abandoned
  <2>. QED
    BY <1>3, <2>1, <2>2, <2>3
<1>. QED
  BY <1>2, <1>5, OneRequest

\* CommitContext, in the loop.
LEMMA CommitLeaseInv ==
    ASSUME IInv, HandlerInv, NEW q \in Requests, CommitLease(q)
    PROVE  HandlerInv'
<1>. DEFINE h == reqs[q]
<1>1. RequestOK(h, leases[q], shuttingDown) /\ h.pc = "commit" /\ UNCHANGED shuttingDown
  BY DEF HandlerInv, CommitLease, At
<1>2. UNCHANGED leases \/ Finish(q, TRUE)
  BY DEF CommitLease, CommitContext
<1>3. \/ Set(q, Goto([h EXCEPT !.accepted = TRUE, !.event = "none"], "next"))
      \/ \E w \in Fail(h, "continuation") : Set(q, w)
      \/ h.ctxErr /\ Set(q, Return(h))
  BY DEF CommitLease
<1>. HIDE DEF h
<1>4. /\ h \in Handler /\ CoreOK(h) /\ ReplyOK(h) /\ h.pc \in Loop /\ ~h.timedOut
      /\ "continuation" \in Terminals \ {"none", "interrupted"}
  BY <1>1 DEF RequestOK, ReplyOK, Loop, Terminals
<1>5. RequestOK(h, leases'[q], shuttingDown)
  BY <1>1 DEF RequestOK
<1>6. \A p \in Requests \ {q} : leases'[p] = leases[p]
  BY <1>2, OwnLease
<1>7. \E g : Set(q, g) /\ RequestOK(g, leases'[q], shuttingDown)
  <2>1. CASE Set(q, Goto([h EXCEPT !.accepted = TRUE, !.event = "none"], "next"))
    BY <1>1, <1>5, <2>1, RoundOK
  <2>2. CASE \E w \in Fail(h, "continuation") : Set(q, w)
    BY <1>4, <2>2, FailOK
  <2>3. CASE h.ctxErr /\ Set(q, Return(h))
    BY <1>4, <2>3, ReturnOK DEF Abandoned
  <2>. QED
    BY <1>3, <2>1, <2>2, <2>3
<1>. QED
  BY <1>1, <1>6, <1>7, OneRequest

\* The deferred calls, and the end of the request.
LEMMA LeavingInv ==
    ASSUME IInv, HandlerInv, NEW q \in Requests, Deferred(q) \/ EndRequest(q)
    PROVE  HandlerInv'
<1>. DEFINE h == reqs[q]
<1>1. RequestOK(h, leases[q], shuttingDown) /\ UNCHANGED shuttingDown
  BY DEF HandlerInv, Deferred, EndRequest
<1>2. CASE Deferred(q)
  <2>1. h.pc = "defers" /\ h.watcher \in {"off", "done"}
    BY <1>2 DEF Deferred, At
  <2>2. leases'[q] = NoRecord /\ \A p \in Requests \ {q} : leases'[p] = leases[p]
    <3>1. CASE leases[q] # NoRecord
      BY <1>2, <3>1, OwnLease DEF Deferred, Abort
    <3>2. CASE leases[q] = NoRecord
      BY <1>2, <3>2 DEF Deferred
    <3>. QED
      BY <3>1, <3>2
  <2>3. PICK body : /\ body = IF h.body = "open" THEN "closed" ELSE h.body
                    /\ Set(q, [h EXCEPT !.pc = "fallback", !.body = body])
    BY <1>2 DEF Deferred
  <2>. HIDE DEF h
  <2>4. RequestOK([h EXCEPT !.pc = "fallback", !.body = body], NoRecord, shuttingDown)
    BY <1>1, <2>1, <2>3, DeferredOK
  <2>. QED
    BY <1>1, <2>2, <2>3, <2>4, OneRequest
<1>3. CASE EndRequest(q)
  <2>1. leases[q] = NoRecord /\ Set(q, Idle) /\ UNCHANGED leases
    BY <1>1, <1>3 DEF EndRequest, At, RequestOK
  <2>2. RequestOK(Idle, NoRecord, shuttingDown)
    BY ArriveOK
  <2>. QED
    BY <1>1, <2>1, <2>2, OneRequest
<1>. QED
  BY <1>2, <1>3

\* The watcher and the client.
LEMMA WatcherInv ==
    ASSUME HandlerInv, NEW q \in Requests,
           \/ \E reason \in {"canceled", "timeout", "stream_interrupted"} : WatcherNote(q, reason)
           \/ WatcherAbort(q) \/ WatcherStopped(q) \/ CancelRequest(q)
    PROVE  HandlerInv'
<1>. DEFINE h == reqs[q]
<1>1. RequestOK(h, leases[q], shuttingDown)
  BY DEF HandlerInv
<1>2. UNCHANGED <<leases, shuttingDown>>
  BY DEF WatcherNote, WatcherAbort, WatcherStopped, CancelRequest
<1>3. SUFFICES \E g : Set(q, g) /\ RequestOK(g, leases[q], shuttingDown)
  BY <1>2, OneRequest
<1>. HIDE DEF h
<1>4. ASSUME NEW reason \in {"canceled", "timeout", "stream_interrupted"},
             WatcherNote(q, reason)
      PROVE  \E g : Set(q, g) /\ RequestOK(g, leases[q], shuttingDown)
  <2>1. /\ h.watcher = "watching"
        /\ reason = "canceled" => h.ctxErr
        /\ reason = "stream_interrupted" => h.writeFailure
        /\ Set(q, [h EXCEPT !.watcher = "noted", !.reason = reason])
    BY <1>4 DEF WatcherNote, h
  <2>. QED
    BY <1>1, <2>1, NotedOK
<1>5. CASE WatcherAbort(q)
  <2>1. h.watcher = "noted" /\ Set(q, [h EXCEPT !.watcher = "done", !.body = "closed"])
    BY <1>5 DEF WatcherAbort, h
  <2>. QED
    BY <1>1, <2>1, AbortedOK
<1>6. CASE WatcherStopped(q)
  <2>1. h.watcher = "watching" /\ Set(q, [h EXCEPT !.watcher = "done"])
    BY <1>6 DEF WatcherStopped, h
  <2>. QED
    BY <1>1, <2>1, StoppedOK
<1>7. CASE CancelRequest(q)
  <2>1. Set(q, [h EXCEPT !.ctxErr = TRUE])
    BY <1>7 DEF CancelRequest, h
  <2>. QED
    BY <1>1, <2>1, CanceledOK
<1>. QED
  BY <1>4, <1>5, <1>6, <1>7

\* The steps that are about no request in particular.
LEMMA ServerInv ==
    ASSUME HandlerInv, markShuttingDown \/ CloseContinuations \/ StoreTick \/ ClockStep
    PROVE  HandlerInv'
<1>1. UNCHANGED <<leases, reqs>> /\ (shuttingDown' = shuttingDown \/ shuttingDown' = TRUE)
  BY DEF markShuttingDown, CloseContinuations, StoreTick, ClockStep, Close, CleanupTick, Tick
<1>2. \A h, lease : RequestOK(h, lease, shuttingDown) => RequestOK(h, lease, TRUE)
  <2>1. \A h : AnswerOK(h, shuttingDown) => AnswerOK(h, TRUE)
    BY DEF AnswerOK
  <2>. QED
    BY <2>1 DEF RequestOK
<1>. QED
  BY <1>1, <1>2 DEF HandlerInv

-----------------------------------------------------------------------------
(* The store as the handlers use it.  Whatever the handlers do, the store  *)
(* takes a step of its own specification, so what is proved of the store   *)
(* holds of the composition.                                               *)

\* A handler saves a turn of the decoder and presents results of a request: the
\* arguments the store is specified for.
LEMMA HandlerStoreStep ==
    ASSUME HandlerInv, NEW q \in Requests, HandlerStep(q)
    PROVE  Next \/ UNCHANGED storeVars
<1>. DEFINE h == reqs[q]
<1>1. h \in Handler /\ RequestOK(h, leases[q], shuttingDown)
  BY DEF HandlerInv
<1>2. CASE BeginLease(q)
  <2>1. \/ UNCHANGED storeVars
        \/ h.results # << >> /\ Begin(q, h.results)
    BY <1>2 DEF BeginLease, storeVars
  <2>. HIDE DEF h
  <2>2. h.results # << >> => h.results \in ResultSets
    BY <1>1 DEF Handler
  <2>. QED
    BY <2>1, <2>2 DEF Next
<1>3. CASE SaveTurn(q)
  <2>1. h.pc = "save"
    BY <1>3 DEF SaveTurn, At
  <2>2. UNCHANGED storeVars \/ Saved(h.turn) \/ SaveRefused(h.turn, FALSE)
    BY <1>3 DEF SaveTurn, storeVars
  <2>. HIDE DEF h
  <2>3. h.turn \in Turns
    BY <1>1, <2>1 DEF RequestOK, EventOK, Handler
  <2>4. UNCHANGED storeVars \/ SaveContext(h.turn, FALSE)
    BY <2>2 DEF SaveContext
  <2>. QED
    BY <2>3, <2>4 DEF Next
<1>4. CASE CommitLease(q) \/ Deferred(q)
  BY <1>4 DEF CommitLease, Deferred, Next, storeVars
<1>5. CASE \/ DecodeRequest(q) \/ AnswerTimeout(q) \/ Do(q) \/ Start(q)
           \/ NextInterrupted(q) \/ CheckAbort(q) \/ HandleEvent(q) \/ EndRequest(q)
  BY <1>5 DEF DecodeRequest, AnswerTimeout, Do, Start, NextInterrupted, CheckAbort, HandleEvent, EndRequest,
              storeVars
<1>. QED
  BY <1>2, <1>3, <1>4, <1>5 DEF HandlerStep

\* A step of the composition, seen from the store.
LEMMA StoreStep == HandlerInv /\ [HandlerNext]_handlerVars => [Next]_storeVars
<1>. SUFFICES ASSUME HandlerInv, [HandlerNext]_handlerVars
              PROVE  Next \/ UNCHANGED storeVars
  OBVIOUS
<1>1. ASSUME NEW q \in Requests, HandlerStep(q)
      PROVE  Next \/ UNCHANGED storeVars
  BY <1>1, HandlerStoreStep
<1>2. ASSUME NEW q \in Requests,
             \/ \E results \in ResultSets \cup {<< >>} : Arrive(q, results)
             \/ \E kind \in EventKinds, turn \in Turns \cup {NoTurn} : NextEvent(q, kind, turn)
             \/ \E reason \in {"canceled", "timeout", "stream_interrupted"} : WatcherNote(q, reason)
             \/ WatcherAbort(q) \/ WatcherStopped(q) \/ CancelRequest(q)
      PROVE  UNCHANGED storeVars
  BY <1>2 DEF Arrive, NextEvent, WatcherNote, WatcherAbort, WatcherStopped, CancelRequest,
              storeVars
<1>3. CASE markShuttingDown
  BY <1>3 DEF markShuttingDown, storeVars
<1>4. CASE CloseContinuations \/ StoreTick \/ ClockStep
  BY <1>4 DEF CloseContinuations, StoreTick, ClockStep, Next
<1>5. CASE UNCHANGED handlerVars
  BY <1>5 DEF handlerVars, storeVars
<1>. QED
  BY <1>1, <1>2, <1>3, <1>4, <1>5 DEF HandlerNext

\* One step of the composition keeps the handlers in order.
LEMMA HandlerNextInv == IInv /\ HandlerInv /\ [HandlerNext]_handlerVars => HandlerInv'
<1>. SUFFICES ASSUME IInv, HandlerInv, [HandlerNext]_handlerVars
              PROVE  HandlerInv'
  OBVIOUS
<1>1. ASSUME NEW q \in Requests, HandlerStep(q)
      PROVE  HandlerInv'
  BY <1>1, OpeningInv, LoopInv, BeginLeaseInv, SaveTurnInv, CommitLeaseInv, LeavingInv
  DEF HandlerStep
<1>2. ASSUME NEW q \in Requests,
             \/ \E results \in ResultSets \cup {<< >>} : Arrive(q, results)
             \/ \E kind \in EventKinds, turn \in Turns \cup {NoTurn} : NextEvent(q, kind, turn)
      PROVE  HandlerInv'
  BY <1>2, OpeningInv, LoopInv
<1>3. ASSUME NEW q \in Requests,
             \/ \E reason \in {"canceled", "timeout", "stream_interrupted"} : WatcherNote(q, reason)
             \/ WatcherAbort(q) \/ WatcherStopped(q) \/ CancelRequest(q)
      PROVE  HandlerInv'
  BY <1>3, WatcherInv
<1>4. CASE markShuttingDown \/ CloseContinuations \/ StoreTick \/ ClockStep
  BY <1>4, ServerInv
<1>5. CASE UNCHANGED handlerVars
  BY <1>5 DEF handlerVars, HandlerInv
<1>. QED
  BY <1>1, <1>2, <1>3, <1>4, <1>5 DEF HandlerNext

\* A server that has just started.
LEMMA HandlerInitInv == HandlerInit => IInv /\ HandlerInv
<1>. SUFFICES ASSUME HandlerInit
              PROVE  IInv /\ HandlerInv
  OBVIOUS
<1>1. IInv
  BY InitIInv DEF HandlerInit
<1>2. RequestOK(Idle, NoRecord, FALSE)
  <2>1. << >> \in ResultSets \cup {<< >>}
    OBVIOUS
  <2>. QED
    BY <2>1, ArriveOK
<1>3. Idle \in Handler
  BY <1>2 DEF RequestOK
<1>4. \A q \in Requests : reqs[q] = Idle /\ leases[q] = NoRecord
  BY DEF HandlerInit, Init
<1>. QED
  BY <1>1, <1>2, <1>3, <1>4 DEF HandlerInit, HandlerInv

\* In every reachable state the store and every handler are in order.
THEOREM HandlerInvAlways == HandlerSpec => [](IInv /\ HandlerInv)
<1>1. IInv /\ HandlerInv /\ [HandlerNext]_handlerVars => IInv'
  BY StoreStep, NextIInv
<1>. QED
  BY <1>1, HandlerInitInv, HandlerNextInv, PTL DEF HandlerSpec

\* The handlers use the continuation store as it is specified to be used (responses.go
\* calls Begin, SaveContext, CommitContext and Abort), so every theorem about Spec is a
\* theorem about the server: its index, its bounds and the custody of its turns.
THEOREM HandlersUseStore == HandlerSpec => Spec
<1>1. HandlerInit => Init
  BY DEF HandlerInit
<1>2. HandlerInv /\ [HandlerNext]_handlerVars => [Next]_storeVars
  BY StoreStep
<1>. QED
  BY <1>1, <1>2, HandlerInvAlways, PTL DEF HandlerSpec, Spec

\* Every handler state is well formed, and no upstream body is open unwatched.
THEOREM HandlerTypeCorrect == HandlerSpec => []HandlerTypeOK
<1>1. IInv /\ HandlerInv => HandlerTypeOK
  BY DEF IInv, HandlerInv, HandlerTypeOK, RequestOK, CoreOK
<1>. QED
  BY <1>1, HandlerInvAlways, PTL

\* The terminal event of a stream that the gateway itself aborted never blames the
\* provider, however watcher, client and handler interleave (streamWatcher.interrupt,
\* handleResponses' check after every event).
THEOREM AbortsAttributed == HandlerSpec => []AbortAttributed
<1>1. HandlerInv => AbortAttributed
  BY DEF HandlerInv, AbortAttributed, RequestOK, CoreOK
<1>. QED
  BY <1>1, HandlerInvAlways, PTL

\* Whichever early return handleResponses takes, lease, watcher and body are released
\* before the request is unregistered.
THEOREM RequestsRelease == HandlerSpec => []Released
<1>1. HandlerInv => Released
  BY DEF HandlerInv, Released, RequestOK, BodyOK
<1>. QED
  BY <1>1, HandlerInvAlways, PTL

\* A client that is still there has one complete answer when handleResponses returns,
\* also when its body came too late and the context was canceled for that.
THEOREM RequestsAnswered == HandlerSpec => []Answered
<1>1. HandlerInv => Answered
  BY DEF HandlerInv, Answered, RequestOK, AnswerOK, Abandoned
<1>. QED
  BY <1>1, HandlerInvAlways, PTL

-----------------------------------------------------------------------------
(* Only a commit consumes a turn, and the handler commits only once the    *)
(* provider has started.                                                   *)

\* From store s to store t no reserved turn outside R becomes consumed.
NoneConsumed(s, t, R) ==
    \A r \in Live(s) \ R : s.heap[r].status = "consuming" => t.heap[r].status # "consumed"

\* A cleanup pass expires turns and consumes none.
LEMMA CleanupConsumes ==
    ASSUME IInv, NEW c \in Cleanups(store, clock)
    PROVE  /\ StoreOK(c) /\ NoneConsumed(store, c, {})
           /\ \A r \in Live(store) : r \in RecIds
<1>1. StoreOK(store) /\ clock \in Nat
  BY DEF IInv, TypeOK
<1>2. /\ StoreOK(c)
      /\ \A r \in RecIds :
            c.heap[r] = IF r \in Due(store, clock)
                        THEN [store.heap[r] EXCEPT !.status = "expired"]
                        ELSE store.heap[r]
  BY <1>1, CleanupsOK
<1>3. \A r \in Live(store) : r \in RecIds
  BY <1>1, LiveAtKey DEF StoreOK
<1>4. \A r \in RecIds : store.heap[r] \in Record
  BY <1>1 DEF StoreOK, Store
<1>5. \A r \in RecIds : [store.heap[r] EXCEPT !.status = "expired"].status = "expired"
  BY <1>4 DEF Record
<1>. QED
  BY <1>2, <1>3, <1>5 DEF NoneConsumed

\* Neither does saving a turn, or being refused.
LEMMA SaveConsumes ==
    ASSUME IInv, NEW t \in Turns, SaveContext(t, FALSE)
    PROVE  NoneConsumed(store, store', {})
<1>1. PICK c \in Cleanups(store, clock) :
         \/ Insertable(c, t) /\ \E r \in Unreferenced : store' = Insert(c, r, t, clock)
         \/ store' = c
  BY DEF SaveContext, Saved, SaveRefused
<1>2. CASE store' = c
  BY <1>2, CleanupConsumes
<1>3. CASE Insertable(c, t) /\ \E r \in Unreferenced : store' = Insert(c, r, t, clock)
  <2>1. PICK r \in Unreferenced : store' = Insert(c, r, t, clock)
    BY <1>3
  <2>2. /\ r \in RecIds /\ r \notin Live(store) /\ r \notin Live(c) /\ StoreOK(c)
        /\ clock \in Nat
    <3>1. StoreOK(store) /\ clock \in Nat
      BY DEF IInv, TypeOK
    <3>2. StoreOK(c) /\ Live(c) \subseteq Live(store)
      BY <3>1, CleanupsOK
    <3>. QED
      BY <3>1, <3>2 DEF Unreferenced
  <2>3. \A u \in RecIds \ {r} : store'.heap[u] = c.heap[u]
    BY <1>3, <2>1, <2>2, InsertOK
  <2>. QED
    BY <2>2, <2>3, CleanupConsumes DEF NoneConsumed
<1>. QED
  BY <1>1, <1>2, <1>3

\* Neither does a reservation.
LEMMA BeginConsumes ==
    ASSUME IInv, NEW q \in Requests, NEW results \in ResultSets, Begin(q, results)
    PROVE  NoneConsumed(store, store', {})
<1>1. PICK c \in Cleanups(store, clock) :
         \/ \E r \in RecIds : Reservable(c, results, r) /\ store' = Reserve(c, r, clock)
         \/ store' = c
  BY DEF Begin
<1>2. CASE store' = c
  BY <1>2, CleanupConsumes
<1>3. CASE \E r \in RecIds : Reservable(c, results, r) /\ store' = Reserve(c, r, clock)
  <2>1. PICK r \in RecIds : Reservable(c, results, r) /\ store' = Reserve(c, r, clock)
    BY <1>3
  <2>2. StoreOK(c) /\ r \in Live(c) /\ clock \in Nat
    BY <2>1, CleanupConsumes, ReservableLive DEF IInv, TypeOK
  <2>3. /\ store'.heap[r].status = "consuming"
        /\ \A u \in RecIds \ {r} : store'.heap[u] = c.heap[u]
    BY <2>1, <2>2, ReserveOK
  <2>. QED
    BY <2>3, CleanupConsumes DEF NoneConsumed
<1>. QED
  BY <1>1, <1>2, <1>3

\* finishContext touches the record of its lease only, and an abort does not consume it.
LEMMA FinishConsumes ==
    ASSUME IInv, NEW q \in Requests, NEW commit \in BOOLEAN, Finish(q, commit)
    PROVE  NoneConsumed(store, store', IF commit THEN {leases[q]} ELSE {})
<1>. DEFINE r == leases[q]
<1>1. StoreOK(store) /\ clock \in Nat /\ r \in RecIds /\ LeaseCustody
  BY DEF IInv, TypeOK, Finish
<1>2. CASE store.closed \/ store.heap[r].status # "consuming"
  BY <1>2 DEF Finish, NoneConsumed
<1>3. CASE ~store.closed /\ store.heap[r].status = "consuming"
  <2>1. r \in Live(store)
    BY <1>1, <1>3 DEF LeaseCustody, Finish
  <2>2. \A u \in Live(store) : u \in RecIds
    BY <1>1, LiveAtKey DEF StoreOK
  <2>3. ASSUME NEW new \in EntombChoices(store, {r}),
               store' = ExpireAll(store, {r}, new, clock)
        PROVE  NoneConsumed(store, store', {})
    <3>. DEFINE R == {r}
    <3>1. R \in SUBSET Live(store) /\ store \in Store /\ RecordsIndexed(store) /\ TombstonesApart(store)
      BY <1>1, <2>1 DEF StoreOK
    <3>2. new \in EntombChoices(store, R) /\ store' = ExpireAll(store, R, new, clock)
      BY <2>3
    <3>. HIDE DEF R
    <3>3. \A u \in RecIds :
             store'.heap[u] = IF u \in R THEN [store.heap[u] EXCEPT !.status = "expired"]
                                         ELSE store.heap[u]
      BY <1>1, <3>1, <3>2, ExpireAllOK
    <3>4. \A u \in RecIds : store.heap[u] \in Record
      BY <3>1 DEF Store
    <3>5. \A u \in RecIds : [store.heap[u] EXCEPT !.status = "expired"].status = "expired"
      BY <3>4 DEF Record
    <3>. QED
      BY <2>2, <3>3, <3>5 DEF NoneConsumed
  <2>4. ASSUME NEW st \in {"pending", "consumed"}, NEW x \in Nat,
               store' = Restatus(store, r, st, x)
        PROVE  NoneConsumed(store, store', IF st = "consumed" THEN {r} ELSE {})
    <3>1. /\ store'.heap[r].status = st
          /\ \A u \in RecIds \ {r} : store'.heap[u] = store.heap[u]
      BY <1>1, <2>1, <2>4, RestatusOK
    <3>. QED
      BY <2>2, <3>1 DEF NoneConsumed
  <2>5. store.heap[r].expiresAt \in Nat /\ store.heap[r].originalExpiry \in Nat
    BY <1>1 DEF StoreOK, Store, Record
  <2>6. \/ \E new \in EntombChoices(store, {r}) : store' = ExpireAll(store, {r}, new, clock)
        \/ commit /\ store' = Restatus(store, r, "consumed", clock + ConsumedGracePeriod)
        \/ ~commit /\ store' = Restatus(store, r, "pending", store.heap[r].originalExpiry)
    <3>1. \/ \E new \in EntombChoices(store, {r}) : store' = ExpireAll(store, {r}, new, clock)
          \/ store' \in Settle(store, r, commit, clock)
      BY <1>3 DEF Finish
    <3>. HIDE DEF r
    <3>. QED
      BY <3>1 DEF Settle
  <2>7. CASE \E new \in EntombChoices(store, {r}) : store' = ExpireAll(store, {r}, new, clock)
    BY <2>3, <2>7 DEF NoneConsumed
  <2>8. CASE commit /\ store' = Restatus(store, r, "consumed", clock + ConsumedGracePeriod)
    <3>1. clock + ConsumedGracePeriod \in Nat
      BY <1>1, ConfigAssumption
    <3>2. NoneConsumed(store, store', IF "consumed" = "consumed" THEN {r} ELSE {})
      BY <2>4, <2>8, <3>1
    <3>. QED
      BY <2>8, <3>2
  <2>9. CASE ~commit /\ store' = Restatus(store, r, "pending", store.heap[r].originalExpiry)
    <3>1. NoneConsumed(store, store', IF "pending" = "consumed" THEN {r} ELSE {})
      BY <2>4, <2>5, <2>9
    <3>. QED
      BY <2>9, <3>1
  <2>. QED
    BY <2>6, <2>7, <2>8, <2>9
<1>. QED
  BY <1>2, <1>3

\* Only the handler's commit step commits: every other step leaves all leases alone, or
\* takes one, or aborts one.
LEMMA OnlyCommitCommits ==
    ASSUME IInv, HandlerInv, [HandlerNext]_handlerVars, NEW r \in Live(store),
           store.heap[r].status = "consuming", store'.heap[r].status = "consumed"
    PROVE  \E p \in Requests : CommitLease(p) /\ ~reqs[p].ctxErr /\ leases[p] = r
<1>1. ~NoneConsumed(store, store', {})
  BY DEF NoneConsumed
<1>2. ASSUME NEW p \in Requests, SaveTurn(p)
      PROVE  FALSE
  <2>1. UNCHANGED store \/ Saved(reqs[p].turn) \/ SaveRefused(reqs[p].turn, FALSE)
    BY <1>2 DEF SaveTurn
  <2>2. reqs[p].turn \in Turns
    BY <1>2 DEF SaveTurn, At, HandlerInv, RequestOK, EventOK, Handler
  <2>3. UNCHANGED store \/ SaveContext(reqs[p].turn, FALSE)
    BY <2>1 DEF SaveContext
  <2>. QED
    BY <1>1, <2>2, <2>3, SaveConsumes
<1>3. ASSUME NEW p \in Requests, BeginLease(p)
      PROVE  FALSE
  <2>. DEFINE h == reqs[p]
  <2>1. UNCHANGED store \/ (h.results # << >> /\ Begin(p, h.results))
    BY <1>3 DEF BeginLease
  <2>2. h \in Handler
    BY DEF HandlerInv
  <2>. HIDE DEF h
  <2>3. h.results # << >> => h.results \in ResultSets
    BY <2>2 DEF Handler
  <2>. QED
    BY <1>1, <2>1, <2>3, BeginConsumes
<1>4. ASSUME NEW p \in Requests, Deferred(p)
      PROVE  FALSE
  <2>1. UNCHANGED store \/ Finish(p, FALSE)
    BY <1>4 DEF Deferred, Abort
  <2>. QED
    BY <1>1, <2>1, FinishConsumes
<1>5. ASSUME NEW p \in Requests, CommitLease(p)
      PROVE  ~reqs[p].ctxErr /\ leases[p] = r
  <2>1. UNCHANGED store \/ (~reqs[p].ctxErr /\ Finish(p, TRUE))
    BY <1>5 DEF CommitLease, CommitContext
  <2>2. ~reqs[p].ctxErr /\ Finish(p, TRUE)
    BY <1>1, <2>1
  <2>3. NoneConsumed(store, store', {leases[p]})
    BY <2>2, FinishConsumes
  <2>. QED
    BY <2>2, <2>3 DEF NoneConsumed
<1>6. ASSUME NEW p \in Requests,
             \/ \E results \in ResultSets \cup {<< >>} : Arrive(p, results)
             \/ \E kind \in EventKinds, turn \in Turns \cup {NoTurn} : NextEvent(p, kind, turn)
             \/ DecodeRequest(p) \/ AnswerTimeout(p) \/ Do(p) \/ Start(p)
             \/ NextInterrupted(p) \/ CheckAbort(p) \/ HandleEvent(p) \/ EndRequest(p)
             \/ \E reason \in {"canceled", "timeout", "stream_interrupted"} : WatcherNote(p, reason)
             \/ WatcherAbort(p) \/ WatcherStopped(p) \/ CancelRequest(p)
      PROVE  FALSE
  <2>1. UNCHANGED store
    BY <1>6 DEF Arrive, NextEvent, DecodeRequest, AnswerTimeout, Do, Start, NextInterrupted, CheckAbort,
                HandleEvent, EndRequest, WatcherNote, WatcherAbort, WatcherStopped, CancelRequest
  <2>. QED
    BY <2>1
<1>7. CASE markShuttingDown \/ ClockStep \/ UNCHANGED handlerVars
  <2>1. UNCHANGED store
    BY <1>7 DEF markShuttingDown, ClockStep, Tick, handlerVars
  <2>. QED
    BY <2>1
<1>8. CASE StoreTick
  BY <1>1, <1>8, CleanupConsumes DEF StoreTick, CleanupTick
<1>9. CASE CloseContinuations
  <2>1. store \in Store
    BY DEF IInv, StoreOK
  <2>2. store'.heap = store.heap
    BY <1>9, <2>1 DEF CloseContinuations, Close, EmptyMaps, Store
  <2>. QED
    BY <2>2
<1>. QED
  BY <1>2, <1>3, <1>4, <1>5, <1>6, <1>7, <1>8, <1>9 DEF HandlerNext, HandlerStep

\* A turn is spent only on a request whose provider has begun to answer and whose client
\* is still there; every failure before that leaves it to be retried (responses.go
\* commits the lease at the first ResponseStarted event).
THEOREM TurnsConsumedAfterStart == HandlerSpec => ConsumedAfterStart
<1>. DEFINE A == \A q \in Requests :
                   LET r == leases[q]
                   IN r # NoRecord /\ r \in Live(store)
                      /\ store.heap[r].status = "consuming" /\ store'.heap[r].status = "consumed"
                      => reqs[q].started /\ reqs[q].reply = "stream" /\ ~reqs[q].ctxErr
<1>1. IInv /\ HandlerInv /\ [HandlerNext]_handlerVars => A
  <2>. SUFFICES ASSUME IInv, HandlerInv, [HandlerNext]_handlerVars, NEW q \in Requests,
                       leases[q] # NoRecord, leases[q] \in Live(store),
                       store.heap[leases[q]].status = "consuming",
                       store'.heap[leases[q]].status = "consumed"
                PROVE  reqs[q].started /\ reqs[q].reply = "stream" /\ ~reqs[q].ctxErr
    OBVIOUS
  <2>1. PICK p \in Requests : CommitLease(p) /\ ~reqs[p].ctxErr /\ leases[p] = leases[q]
    BY OnlyCommitCommits
  <2>2. ~store.closed
    BY <2>1 DEF CommitLease, CommitContext, Finish
  <2>3. p = q
    BY <2>1, <2>2 DEF IInv, LeaseCustody
  <2>4. RequestOK(reqs[q], leases[q], shuttingDown) /\ reqs[q].pc = "commit"
    BY <2>1, <2>3 DEF HandlerInv, CommitLease, At
  <2>5. reqs[q].started /\ reqs[q].reply = "stream"
    BY <2>4 DEF RequestOK, EventOK, ReplyOK, Loop
  <2>. QED
    BY <2>1, <2>3, <2>5
<1>. QED
  BY <1>1, HandlerInvAlways, PTL DEF HandlerSpec, ConsumedAfterStart
=============================================================================
