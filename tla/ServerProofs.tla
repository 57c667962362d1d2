----------------------------- MODULE ServerProofs -----------------------------
(***************************************************************************)
(* Proofs about the two servers: the gateway's lifecycle of requests       *)
(* (ServerLifecycle) and the capture server (CaptureServer).  Each part    *)
(* states first what makes its invariant inductive.                        *)
(***************************************************************************)
EXTENDS CaptureServer, ServerLifecycle, FiniteFacts

-----------------------------------------------------------------------------
(***************************************************************************)
(* Proofs about ServerLifecycle, for any number of request goroutines and  *)
(* any limit on active requests.                                           *)
(*                                                                         *)
(* The argument for shutdown: once shuttingDown is set nobody is admitted, *)
(* so the set of active requests only shrinks and its channel stays the    *)
(* same; a cancellation that covers all of them covers them for good, and  *)
(* the channel that waitActiveRequests captured is the one the last of     *)
(* them closes.                                                            *)
(***************************************************************************)

\* Nobody waits for, or has closed, a channel that is not made yet.
ChannelsMade ==
    /\ \A c \in closedChannels : c =< channels
    /\ waitingOn =< channels

\* From markShuttingDown on, and whenever the store is closed, admission is stopped.
AdmissionStopped ==
    /\ main \notin {"serving", "mark", "close.mark"} => shuttingDown
    /\ storeClosed => shuttingDown

\* Shutdown waits for the current channel, and gets past the wait without an error only
\* when the last request has left.
WaitsForLast ==
    /\ main = "wait" => waitingOn = channels
    /\ main \in {"join", "closeStore"} /\ ~shutdownErr => active = {}
    /\ main = "recancel" => shutdownErr

AccountingInv == LifecycleTypeOK /\ DoneSignal /\ ChannelsMade

ShutdownInv == AdmissionStopped /\ WaitsForLast /\ ShutdownCancelsAll /\ StoreOutlivesHandlers

LifecycleInv == AccountingInv /\ ShutdownInv

-----------------------------------------------------------------------------

\* An idle server satisfies the invariant.
LEMMA InitLifecycleInv == LifecycleInit => LifecycleInv
<1>. SUFFICES ASSUME LifecycleInit
              PROVE  LifecycleInv
  OBVIOUS
<1>. USE LifecycleAssumption
<1>1. LifecycleTypeOK
  <2>1. Idle \in Request /\ Idle.done = 0
    BY DEF Request, Idle
  <2>2. reqs \in [Requests -> Request] /\ \A q \in Requests : reqs[q].done = 0
    BY <2>1 DEF LifecycleInit
  <2>3. main \in MainPCs /\ watch \in {"off", "watching", "told", "exited"}
    BY DEF LifecycleInit, MainPCs
  <2>4. {shuttingDown, ready, storeClosed, listening, graceOver, shutdownErr} \subseteq BOOLEAN
    BY DEF LifecycleInit
  <2>. QED
    BY <2>2, <2>3, <2>4 DEF LifecycleInit, LifecycleTypeOK
<1>2. DoneSignal
  <2>1. active = {q \in Requests : reqs[q].pc \in {"handling", "returned"}}
    BY DEF LifecycleInit, Idle
  <2>2. Cardinality(active) =< MaxActiveRequests
    BY FS_EmptySet DEF LifecycleInit
  <2>. QED
    BY <2>1, <2>2 DEF DoneSignal, LifecycleInit
<1>3. ChannelsMade /\ ShutdownInv
  BY DEF LifecycleInit, ChannelsMade, ShutdownInv, AdmissionStopped, WaitsForLast,
         ShutdownCancelsAll, StoreOutlivesHandlers
<1>. QED
  BY <1>1, <1>2, <1>3 DEF LifecycleInv, AccountingInv

-----------------------------------------------------------------------------
(* Requests.                                                               *)

\* What a request step may do once admission is stopped: requests leave, and one that
\* stays keeps its cancellation.
OnlyLeaving ==
    /\ active' \subseteq active
    /\ channels' = channels
    /\ \A r \in active' : r \in canceled => r \in canceled'

\* Request steps that admit nobody during shutdown keep the shutdown invariant.
LEMMA LeavingShutdownInv ==
    ASSUME ShutdownInv, LifecycleTypeOK, UNCHANGED mainVars, shuttingDown => OnlyLeaving
    PROVE  ShutdownInv'
<1>. USE DEF ShutdownInv, mainVars
<1>1. CASE shuttingDown
  BY <1>1 DEF OnlyLeaving, AdmissionStopped, WaitsForLast, ShutdownCancelsAll, StoreOutlivesHandlers
<1>2. CASE ~shuttingDown
  BY <1>2 DEF AdmissionStopped, WaitsForLast, ShutdownCancelsAll, StoreOutlivesHandlers
<1>. QED
  BY <1>1, <1>2

\* A request that is not admitted, or goes on inside its handler, leaves the accounting
\* alone (ServeHTTP).
LEMMA UntrackedAccounting ==
    ASSUME AccountingInv, NEW q \in Requests, NEW r \in Request,
           Set(q, r), r.done =< channels,
           reqs[q].pc \in {"idle", "arrived"} <=> r.pc \in {"idle", "arrived"},
           q \in active => r.done = reqs[q].done,
           canceled' \subseteq Requests,
           UNCHANGED <<active, channels, closedChannels, mainVars>>
    PROVE  AccountingInv'
<1>. USE LifecycleAssumption DEF AccountingInv
<1>1. reqs' \in [Requests -> Request] /\ reqs'[q] = r
      /\ \A p \in Requests \ {q} : reqs'[p] = reqs[p]
  BY DEF Set, LifecycleTypeOK
<1>2. LifecycleTypeOK'
  BY <1>1 DEF LifecycleTypeOK, mainVars
<1>3. r.pc \in {"idle", "arrived", "handling", "returned"}
      /\ reqs[q].pc \in {"idle", "arrived", "handling", "returned"}
  BY DEF LifecycleTypeOK, Request
<1>4. active' = {p \in Requests : reqs'[p].pc \in {"handling", "returned"}}
  BY <1>1, <1>3 DEF DoneSignal
<1>5. DoneSignal'
  BY <1>1, <1>4 DEF DoneSignal
<1>. QED
  BY <1>2, <1>5 DEF ChannelsMade, mainVars

\* Steps of a request other than admission and the last one keep the invariant
\* (ServeHTTP).
LEMMA PassingLifecycleInv ==
    ASSUME LifecycleInv, NEW q \in Requests,
           \/ \E direct \in BOOLEAN : Arrive(q, direct)
           \/ ServeUntracked(q) \/ HandlerReturns(q) \/ ClientGone(q)
    PROVE  LifecycleInv'
<1>. USE LifecycleAssumption DEF LifecycleInv
<1>0. /\ reqs \in [Requests -> Request] /\ reqs[q] \in Request /\ channels \in Nat
      /\ canceled \subseteq Requests /\ reqs[q].done =< channels
      /\ q \in active <=> reqs[q].pc \in {"handling", "returned"}
      /\ Idle \in Request /\ Idle.pc = "idle" /\ Idle.done = 0
  BY DEF AccountingInv, LifecycleTypeOK, DoneSignal, Idle, Request
<1>1. ASSUME NEW direct \in BOOLEAN, Arrive(q, direct)
      PROVE  LifecycleInv'
  <2>. DEFINE r == [pc |-> "arrived", done |-> 0, direct |-> direct]
  <2>1. r \in Request /\ r.pc = "arrived" /\ r.done = 0
    BY DEF Request
  <2>2. /\ reqs[q].pc = "idle" /\ Set(q, r)
        /\ UNCHANGED <<active, canceled, channels, closedChannels, mainVars>>
    BY <1>1, Zenon DEF Arrive
  <2>. HIDE DEF r
  <2>3. AccountingInv'
    BY <1>0, <2>1, <2>2, UntrackedAccounting
  <2>4. ShutdownInv'
    BY <2>2, LeavingShutdownInv DEF OnlyLeaving, AccountingInv
  <2>. QED
    BY <2>3, <2>4
<1>2. CASE ServeUntracked(q)
  <2>1. /\ reqs[q].pc = "arrived" /\ Set(q, Idle) /\ canceled' = canceled \ {q}
        /\ UNCHANGED <<active, channels, closedChannels, mainVars>>
    BY <1>2, Zenon DEF ServeUntracked, Leave
  <2>2. AccountingInv'
    BY <1>0, <2>1, UntrackedAccounting
  <2>3. ShutdownInv'
    BY <1>0, <2>1, LeavingShutdownInv DEF OnlyLeaving, AccountingInv
  <2>. QED
    BY <2>2, <2>3
<1>3. CASE HandlerReturns(q)
  <2>. DEFINE r == [reqs[q] EXCEPT !.pc = "returned"]
  <2>1. r \in Request /\ r.pc = "returned" /\ r.done = reqs[q].done
    BY <1>0 DEF Request
  <2>2. /\ reqs[q].pc = "handling" /\ Set(q, r)
        /\ UNCHANGED <<active, canceled, channels, closedChannels, mainVars>>
    BY <1>3, Zenon DEF HandlerReturns
  <2>. HIDE DEF r
  <2>3. AccountingInv'
    BY <1>0, <2>1, <2>2, UntrackedAccounting
  <2>4. ShutdownInv'
    BY <2>2, LeavingShutdownInv DEF OnlyLeaving, AccountingInv
  <2>. QED
    BY <2>3, <2>4
<1>4. CASE ClientGone(q)
  <2>1. canceled' = canceled \cup {q} /\ UNCHANGED <<reqs, active, channels, closedChannels, mainVars>>
    BY <1>4 DEF ClientGone
  <2>2. AccountingInv'
    BY <1>0, <2>1 DEF AccountingInv, LifecycleTypeOK, DoneSignal, ChannelsMade, mainVars
  <2>3. ShutdownInv'
    BY <2>1, LeavingShutdownInv DEF OnlyLeaving, AccountingInv
  <2>. QED
    BY <2>2, <2>3
<1>. QED
  BY <1>1, <1>2, <1>3, <1>4

\* Admission and refusal keep the invariant (trackRequest).
LEMMA TrackLifecycleInv ==
    ASSUME LifecycleInv, NEW q \in Requests, trackRequest(q)
    PROVE  LifecycleInv'
<1>. USE LifecycleAssumption DEF LifecycleInv
<1>0. /\ reqs \in [Requests -> Request] /\ reqs[q] \in Request /\ channels \in Nat
      /\ canceled \subseteq Requests /\ reqs[q].done =< channels
      /\ active \subseteq Requests
      /\ q \in active <=> reqs[q].pc \in {"handling", "returned"}
      /\ Idle \in Request /\ Idle.pc = "idle" /\ Idle.done = 0
  BY DEF AccountingInv, LifecycleTypeOK, DoneSignal, Idle, Request
<1>1. CASE /\ Leave(q) /\ reqs[q].pc = "arrived"
           /\ UNCHANGED <<active, channels, closedChannels, mainVars>>
  <2>1. /\ reqs[q].pc = "arrived" /\ Set(q, Idle) /\ canceled' = canceled \ {q}
        /\ UNCHANGED <<active, channels, closedChannels, mainVars>>
    BY <1>1, Zenon DEF Leave
  <2>2. AccountingInv'
    BY <1>0, <2>1, UntrackedAccounting
  <2>3. ShutdownInv'
    BY <1>0, <2>1, LeavingShutdownInv DEF OnlyLeaving, AccountingInv
  <2>. QED
    BY <2>2, <2>3
<1>2. ASSUME reqs[q].pc = "arrived", ~shuttingDown, ~(Cardinality(active) >= MaxActiveRequests),
             active = {} => channels < MaxChannels,
             channels' = IF active = {} THEN channels + 1 ELSE channels,
             Set(q, [reqs[q] EXCEPT !.pc = "handling", !.done = channels']),
             active' = active \cup {q}, UNCHANGED <<canceled, closedChannels, mainVars>>
      PROVE  LifecycleInv'
  <2>. DEFINE r == [reqs[q] EXCEPT !.pc = "handling", !.done = channels']
  <2>1. /\ channels' \in 0..MaxChannels /\ channels =< channels'
        /\ active # {} => channels' = channels
        /\ active = {} => channels' = channels + 1
    BY <1>0, <1>2 DEF AccountingInv, LifecycleTypeOK
  <2>2. r \in Request /\ r.pc = "handling" /\ r.done = channels'
    BY <1>0, <2>1 DEF Request
  <2>3. reqs' \in [Requests -> Request] /\ reqs'[q] = r
        /\ \A p \in Requests \ {q} : reqs'[p] = reqs[p]
    <3>1. reqs' = [reqs EXCEPT ![q] = r]
      BY <1>2, Zenon DEF Set
    <3>. HIDE DEF r
    <3>. QED
      BY <1>0, <2>2, <3>1
  <2>. HIDE DEF r
  <2>4. LifecycleTypeOK'
    <3>1. \A p \in Requests : reqs'[p].done =< channels'
      <4>1. \A p \in Requests : reqs[p].done \in Nat /\ reqs[p].done =< channels
        BY DEF AccountingInv, LifecycleTypeOK, Request
      <4>. QED
        BY <1>0, <2>1, <2>2, <2>3, <4>1
    <3>. QED
      BY <1>0, <1>2, <2>1, <2>3, <3>1 DEF AccountingInv, LifecycleTypeOK, mainVars
  <2>5. Cardinality(active') =< MaxActiveRequests
    <3>1. IsFiniteSet(active)
      BY <1>0, FS_Subset
    <3>2. Cardinality(active) \in Nat
      BY <3>1, FS_CardinalityType
    <3>3. Cardinality(active \cup {q}) = Cardinality(active) + 1
      BY <1>0, <1>2, <3>1, FS_AddElement
    <3>. QED
      BY <1>2, <3>2, <3>3
  <2>6. active' = {p \in Requests : reqs'[p].pc \in {"handling", "returned"}}
    BY <1>2, <2>2, <2>3 DEF AccountingInv, DoneSignal
  <2>7. channels' \notin closedChannels'
    BY <1>0, <1>2, <2>1 DEF AccountingInv, DoneSignal, ChannelsMade, LifecycleTypeOK
  <2>8. \A p \in active' : reqs'[p].done = channels'
    BY <1>0, <1>2, <2>1, <2>2, <2>3 DEF AccountingInv, DoneSignal
  <2>9. DoneSignal'
    BY <1>2, <2>5, <2>6, <2>7, <2>8 DEF DoneSignal
  <2>10. ChannelsMade'
    BY <1>0, <1>2, <2>1 DEF AccountingInv, ChannelsMade, LifecycleTypeOK, mainVars
  <2>11. ShutdownInv'
    BY <1>2, LeavingShutdownInv DEF AccountingInv
  <2>. QED
    BY <2>4, <2>9, <2>10, <2>11 DEF AccountingInv
<1>. QED
  BY <1>1, <1>2 DEF trackRequest

\* The last step of a request keeps the invariant: the last one out closes the channel
\* (unregister).
LEMMA UnregisterLifecycleInv ==
    ASSUME LifecycleInv, NEW q \in Requests, unregister(q)
    PROVE  LifecycleInv'
<1>. USE LifecycleAssumption DEF LifecycleInv
<1>0. /\ reqs \in [Requests -> Request] /\ channels \in 0..MaxChannels
      /\ canceled \subseteq Requests /\ active \subseteq Requests
      /\ Idle \in Request /\ Idle.pc = "idle" /\ Idle.done = 0
  BY DEF AccountingInv, LifecycleTypeOK, Idle, Request
<1>1. /\ reqs[q].pc = "returned" /\ active' = active \ {q} /\ canceled' = canceled \ {q}
      /\ closedChannels' = IF active = {q} THEN closedChannels \cup {reqs[q].done} ELSE closedChannels
      /\ reqs' = [reqs EXCEPT ![q] = Idle] /\ UNCHANGED <<channels, mainVars>>
  BY Zenon DEF unregister, Leave, Set
<1>2. q \in active /\ reqs[q].done = channels
  BY <1>1 DEF AccountingInv, DoneSignal
<1>3. /\ reqs' \in [Requests -> Request] /\ reqs'[q] = Idle
      /\ \A p \in Requests \ {q} : reqs'[p] = reqs[p]
  BY <1>0, <1>1
<1>4. LifecycleTypeOK'
  <2>1. \A p \in Requests : reqs'[p].done =< channels'
    BY <1>0, <1>1, <1>3 DEF AccountingInv, LifecycleTypeOK
  <2>2. closedChannels' \subseteq 0..MaxChannels
    BY <1>0, <1>1, <1>2 DEF AccountingInv, LifecycleTypeOK
  <2>. QED
    BY <1>0, <1>1, <1>3, <2>1, <2>2 DEF AccountingInv, LifecycleTypeOK, mainVars
<1>5. Cardinality(active') =< MaxActiveRequests
  <2>1. IsFiniteSet(active)
    BY <1>0, FS_Subset
  <2>2. Cardinality(active) \in Nat /\ Cardinality(active \ {q}) = Cardinality(active) - 1
    BY <1>2, <2>1, FS_RemoveElement, FS_CardinalityType
  <2>. QED
    BY <1>1, <2>2 DEF AccountingInv, DoneSignal
<1>6. active' = {p \in Requests : reqs'[p].pc \in {"handling", "returned"}}
  BY <1>0, <1>1, <1>3 DEF AccountingInv, DoneSignal
<1>7. channels' \in closedChannels' <=> active' = {}
  BY <1>1, <1>2 DEF AccountingInv, DoneSignal
<1>8. \A p \in active' : reqs'[p].done = channels'
  BY <1>0, <1>1, <1>3 DEF AccountingInv, DoneSignal
<1>9. DoneSignal'
  BY <1>5, <1>6, <1>7, <1>8 DEF DoneSignal
<1>10. ChannelsMade'
  BY <1>0, <1>1, <1>2 DEF AccountingInv, ChannelsMade, mainVars
<1>11. ShutdownInv'
  BY <1>1, LeavingShutdownInv DEF OnlyLeaving, AccountingInv
<1>. QED
  BY <1>4, <1>9, <1>10, <1>11 DEF AccountingInv

-----------------------------------------------------------------------------
(* The main goroutine, the watch goroutine and the grace period.           *)

\* The accounting depends on the requests and on the channel that is waited for.
LEMMA MainAccounting ==
    ASSUME AccountingInv, UNCHANGED <<reqs, active, channels, closedChannels>>,
           canceled' \subseteq Requests, waitingOn' = waitingOn \/ waitingOn' = channels,
           {shuttingDown, ready, storeClosed, listening, graceOver, shutdownErr}' \subseteq BOOLEAN,
           main' \in MainPCs, watch' \in {"off", "watching", "told", "exited"}
    PROVE  AccountingInv'
<1>. USE LifecycleAssumption DEF AccountingInv
<1>1. LifecycleTypeOK'
  BY DEF LifecycleTypeOK
<1>2. ChannelsMade'
  BY DEF ChannelsMade, LifecycleTypeOK
<1>. QED
  BY <1>1, <1>2 DEF DoneSignal

\* Every step of the main goroutine keeps the accounting.
LEMMA MainStepAccounting ==
    ASSUME AccountingInv, Signal \/ ServeFails \/ MainStep \/ watchExits \/ GraceEnds
    PROVE  AccountingInv'
<1>. USE DEF Main, requestVars, Signal, ServeFails, MainStep, watchExits, GraceEnds,
             markShuttingDown, cancelActiveRequests, httpShutdownBegins, httpShutdownReturns,
             waitActiveRequests, waitReturns, tellWatch, joinWatch, closeContinuations, httpClose
<1>0. /\ canceled \subseteq Requests /\ active \subseteq Requests
      /\ shuttingDown \in BOOLEAN /\ ready \in BOOLEAN /\ storeClosed \in BOOLEAN
      /\ listening \in BOOLEAN /\ graceOver \in BOOLEAN /\ shutdownErr \in BOOLEAN
      /\ main \in MainPCs /\ watch \in {"off", "watching", "told", "exited"}
  BY DEF AccountingInv, LifecycleTypeOK
<1>1. UNCHANGED <<reqs, active, channels, closedChannels>>
  OBVIOUS
<1>2. canceled' \subseteq Requests
  BY <1>0
<1>3. waitingOn' = waitingOn \/ waitingOn' = channels
  OBVIOUS
<1>4. shuttingDown' \in BOOLEAN /\ ready' \in BOOLEAN /\ storeClosed' \in BOOLEAN
  BY <1>0
<1>5. listening' \in BOOLEAN /\ graceOver' \in BOOLEAN /\ shutdownErr' \in BOOLEAN
  BY <1>0
<1>6. main' \in MainPCs /\ watch' \in {"off", "watching", "told", "exited"}
  BY <1>0 DEF MainPCs
<1>. QED
  BY <1>1, <1>2, <1>3, <1>4, <1>5, <1>6, MainAccounting

\* Every step of the main goroutine keeps the shutdown invariant.
LEMMA MainStepShutdownInv ==
    ASSUME LifecycleInv, Signal \/ ServeFails \/ MainStep \/ watchExits \/ GraceEnds
    PROVE  ShutdownInv'
<1>. USE DEF Main, requestVars, LifecycleInv, ShutdownInv, AdmissionStopped, WaitsForLast,
             ShutdownCancelsAll, StoreOutlivesHandlers
<1>1. CASE Signal \/ ServeFails
  BY <1>1 DEF Signal, ServeFails
<1>2. CASE markShuttingDown
  BY <1>2 DEF markShuttingDown
<1>3. CASE cancelActiveRequests
  BY <1>3 DEF cancelActiveRequests
<1>4. CASE httpShutdownBegins \/ httpShutdownReturns
  BY <1>4 DEF httpShutdownBegins, httpShutdownReturns
<1>5. CASE waitActiveRequests
  BY <1>5 DEF waitActiveRequests
<1>6. CASE waitReturns
  BY <1>6 DEF waitReturns, AccountingInv, DoneSignal
<1>7. CASE tellWatch \/ joinWatch
  BY <1>7 DEF tellWatch, joinWatch
<1>8. CASE closeContinuations
  BY <1>8 DEF closeContinuations
<1>9. CASE httpClose
  BY <1>9 DEF httpClose
<1>10. CASE watchExits \/ GraceEnds
  BY <1>10 DEF watchExits, GraceEnds
<1>. QED
  BY <1>1, <1>2, <1>3, <1>4, <1>5, <1>6, <1>7, <1>8, <1>9, <1>10 DEF MainStep

\* Every step keeps the invariant.
LEMMA NextLifecycleInv == LifecycleInv /\ [LifecycleNext]_lifecycleVars => LifecycleInv'
<1>. SUFFICES ASSUME LifecycleInv, [LifecycleNext]_lifecycleVars
              PROVE  LifecycleInv'
  OBVIOUS
<1>1. CASE UNCHANGED lifecycleVars
  BY <1>1
  DEF lifecycleVars, LifecycleInv, AccountingInv, LifecycleTypeOK, DoneSignal, ChannelsMade,
      ShutdownInv, AdmissionStopped, WaitsForLast, ShutdownCancelsAll, StoreOutlivesHandlers
<1>2. ASSUME NEW q \in Requests,
             \/ \E direct \in BOOLEAN : Arrive(q, direct)
             \/ ServeUntracked(q) \/ trackRequest(q) \/ HandlerReturns(q) \/ unregister(q)
             \/ ClientGone(q)
      PROVE  LifecycleInv'
  BY <1>2, PassingLifecycleInv, TrackLifecycleInv, UnregisterLifecycleInv
<1>3. CASE Signal \/ ServeFails \/ MainStep \/ watchExits \/ GraceEnds
  BY <1>3, MainStepAccounting, MainStepShutdownInv DEF LifecycleInv
<1>. QED
  BY <1>1, <1>2, <1>3 DEF LifecycleNext

-----------------------------------------------------------------------------

\* The inductive invariant holds throughout.
THEOREM LifecycleInvAlways == LifecycleSpec => []LifecycleInv
  BY InitLifecycleInv, NextLifecycleInv, PTL DEF LifecycleSpec

\* Type correctness of the server lifecycle.
THEOREM LifecycleTypeCorrect == LifecycleSpec => []LifecycleTypeOK
<1>1. LifecycleInv => LifecycleTypeOK
  BY DEF LifecycleInv, AccountingInv
<1>. QED
  BY <1>1, LifecycleInvAlways, PTL

\* activeRequestsDone is open exactly while requests are active and is the channel that
\* each of them captured, so that it is closed once and by the last.
THEOREM DoneSignalAlways == LifecycleSpec => []DoneSignal
<1>1. LifecycleInv => DoneSignal
  BY DEF LifecycleInv, AccountingInv
<1>. QED
  BY <1>1, LifecycleInvAlways, PTL

\* After the cancellation of Shutdown or Close no active request has a live context.
THEOREM ShutdownReachesAll == LifecycleSpec => []ShutdownCancelsAll
<1>1. LifecycleInv => ShutdownCancelsAll
  BY DEF LifecycleInv, ShutdownInv
<1>. QED
  BY <1>1, LifecycleInvAlways, PTL

\* The continuation store is closed after the last handler of a clean shutdown, and
\* never under a handler whose context is alive.
THEOREM StoreClosedLast == LifecycleSpec => []StoreOutlivesHandlers
<1>1. LifecycleInv => StoreOutlivesHandlers
  BY DEF LifecycleInv, ShutdownInv
<1>. QED
  BY <1>1, LifecycleInvAlways, PTL

-----------------------------------------------------------------------------
(***************************************************************************)
(* Proofs about CaptureServer, for any number of processes, connections,   *)
(* restarts and earlier fixtures.                                          *)
(*                                                                         *)
(* That numbers are unique is not inductive: a request that gives a number *)
(* up removes its lock file, so it must be known to hold that lock and not *)
(* another's; and the process counter only grows because s.mu is held from *)
(* the scan to the allocation.                                             *)
(***************************************************************************)

\* The requests inside nextSequence that have a candidate, and all inside it.
Choosing == {"lock", "stat", "skip", "undo"}

InSection == Choosing \cup {"scan"}

\* highestFixtureSequence looks at finitely many names.
DirectoryFinite == IsFiniteSet(locks) /\ IsFiniteSet(DOMAIN fixtures)

\* nextSequence runs under s.mu.
MutexHeld == \A h \in Handlers : caps[h].pc \in InSection => servers[h[1]].mu = h

\* A candidate is past every number the process has given out, and only a process with
\* a directory reserves one.
CandidateAhead ==
    \A h \in Handlers : caps[h].pc \in Choosing =>
       servers[h[1]].dir /\ servers[h[1]].sequence < caps[h].sequence

\* A process that is down serves nobody.
DownIsIdle ==
    \A h \in Handlers : servers[h[1]].state = "down" => caps[h].pc = "idle"

CaptureInv ==
    /\ CaptureTypeOK /\ DirectoryFinite /\ MutexHeld /\ CandidateAhead /\ DownIsIdle
    /\ NumbersUnique /\ FixtureFree

-----------------------------------------------------------------------------

\* An empty process table over the earlier fixtures satisfies the invariant.
LEMMA InitCaptureInv == CaptureInit => CaptureInv
<1>. SUFFICES ASSUME CaptureInit
              PROVE  CaptureInv
  OBVIOUS
<1>1. CaptureTypeOK
  BY CaptureAssumption DEF CaptureInit, CaptureTypeOK, Server, Cap, Steps, Down, IdleCap
<1>2. DirectoryFinite
  BY CaptureAssumption, FS_EmptySet DEF CaptureInit, DirectoryFinite
<1>3. \A h \in Handlers : caps[h].pc = "idle"
  BY DEF CaptureInit, IdleCap
<1>. QED
  BY <1>1, <1>2, <1>3
  DEF CaptureInv, MutexHeld, CandidateAhead, DownIsIdle, NumbersUnique, FixtureFree, Holds,
      InSection, Choosing

\* Starting, closing and killing a process keep the invariant (Listen, Close).
LEMMA ProcessCaptureInv ==
    ASSUME CaptureInv, NEW s \in Servers,
           (\E dir \in BOOLEAN : Listen(s, dir)) \/ Close(s) \/ Exit(s)
    PROVE  CaptureInv'
<1>. USE CaptureAssumption DEF CaptureInv
<1>1. ASSUME NEW dir \in BOOLEAN, Listen(s, dir)
      PROVE  CaptureInv'
  <2>. DEFINE started == [Down EXCEPT !.state = "up", !.dir = dir]
  <2>2. started \in Server
    BY DEF Down, Server
  <2>3. servers' = [servers EXCEPT ![s] = started] /\ servers \in [Servers -> Server]
    BY <1>1, Zenon DEF Listen, CaptureTypeOK
  <2>4. /\ servers[s].state = "down" /\ starts < MaxStarts /\ starts' = starts + 1
        /\ UNCHANGED <<fixtures, locks, caps, captures>>
    BY <1>1, Zenon DEF Listen
  <2>. HIDE DEF started
  <2>5. servers' \in [Servers -> Server]
    BY <2>2, <2>3
  <2>6. CaptureTypeOK' /\ DirectoryFinite'
    BY <2>4, <2>5 DEF CaptureTypeOK, DirectoryFinite
  <2>7. \A h \in Handlers : caps[h].pc # "idle" => servers'[h[1]] = servers[h[1]]
    BY <2>3, <2>4 DEF DownIsIdle
  <2>. QED
    BY <2>4, <2>6, <2>7
    DEF MutexHeld, CandidateAhead, DownIsIdle, NumbersUnique, FixtureFree, Holds, InSection,
        Choosing
<1>2. CASE Close(s)
  <2>1. CaptureTypeOK' /\ DirectoryFinite'
    BY <1>2 DEF Close, CaptureTypeOK, Server, DirectoryFinite
  <2>2. \A t \in Servers : /\ servers'[t].dir = servers[t].dir
                           /\ servers'[t].mu = servers[t].mu
                           /\ servers'[t].sequence = servers[t].sequence
                           /\ servers'[t].state = "down" => servers[t].state = "down"
    BY <1>2 DEF Close, CaptureTypeOK, Server
  <2>. QED
    BY <1>2, <2>1, <2>2
    DEF Close, MutexHeld, CandidateAhead, DownIsIdle, NumbersUnique, FixtureFree, Holds
<1>3. CASE Exit(s)
  <2>1. CaptureTypeOK' /\ DirectoryFinite'
    BY <1>3 DEF Exit, CaptureTypeOK, Server, Cap, Steps, Down, IdleCap, DirectoryFinite
  <2>2. \A h \in Handlers : IF h[1] = s THEN caps'[h].pc = "idle"
                            ELSE caps'[h] = caps[h] /\ servers'[h[1]] = servers[h[1]]
    BY <1>3 DEF Exit, CaptureTypeOK, IdleCap
  <2>. QED
    BY <1>3, <2>1, <2>2
    DEF Exit, MutexHeld, CandidateAhead, DownIsIdle, NumbersUnique, FixtureFree, Holds,
        InSection, Choosing
<1>. QED
  BY <1>1, <1>2, <1>3


-----------------------------------------------------------------------------

\* A step of request h leaves the other requests and the other processes alone, and its
\* process but for s.mu and the counter, which only the holder of s.mu changes.
OthersKept(h) ==
    /\ \A g \in Handlers \ {h} : caps'[g] = caps[g]
    /\ \A t \in Servers : /\ servers'[t].dir = servers[t].dir
                          /\ servers'[t].state = servers[t].state
                          /\ servers[t].sequence =< servers'[t].sequence
    /\ \A t \in Servers \ {h[1]} : /\ servers'[t].mu = servers[t].mu
                                   /\ servers'[t].sequence = servers[t].sequence
    /\ \/ servers[h[1]].mu = h \/ servers[h[1]].mu = Nobody
       \/ servers'[h[1]].mu = servers[h[1]].mu /\ servers'[h[1]].sequence = servers[h[1]].sequence

\* It takes away no lock file and adds no fixture but those of the number it holds.
FilesKept(h) ==
    /\ \A n \in locks : n \in locks' \/ (Holds(h) /\ n = caps[h].sequence)
    /\ \A n \in DOMAIN fixtures' : n \in DOMAIN fixtures \/ (Holds(h) /\ n = caps[h].sequence)

\* The invariant for h itself, and that a number it takes was free.
OwnKept(h) ==
    /\ caps'[h].pc \in InSection => servers'[h[1]].mu = h
    /\ caps'[h].pc \in Choosing =>
          servers'[h[1]].dir /\ servers'[h[1]].sequence < caps'[h].sequence
    /\ servers[h[1]].state = "down" => caps'[h].pc = "idle"
    /\ Holds(h)' => /\ caps'[h].sequence \in locks'
                    /\ \/ Holds(h) /\ caps'[h].sequence = caps[h].sequence
                       \/ caps'[h].sequence \notin locks
    /\ caps'[h].pc \in {"stream", "persist", "finish", "release"} =>
          caps'[h].sequence =< servers'[h[1]].sequence
    /\ servers'[h[1]].dir /\ caps'[h].pc \in {"stream", "persist"} =>
          caps'[h].sequence \notin DOMAIN fixtures'

\* A step of one request that keeps its own part keeps the whole invariant.
LEMMA RequestCaptureInv ==
    ASSUME CaptureInv, NEW h \in Handlers, CaptureTypeOK', DirectoryFinite',
           OthersKept(h), FilesKept(h), OwnKept(h)
    PROVE  CaptureInv'
<1>. USE CaptureAssumption DEF CaptureInv
<1>1. \A g \in Handlers \ {h} : caps[g].pc \in InSection =>
         servers'[g[1]].mu = g /\ servers'[g[1]].sequence = servers[g[1]].sequence
  BY DEF OthersKept, MutexHeld
<1>2. MutexHeld'
  BY <1>1 DEF MutexHeld, OthersKept, OwnKept
<1>3. CandidateAhead'
  BY <1>1 DEF CandidateAhead, OthersKept, OwnKept, InSection
<1>4. DownIsIdle'
  BY DEF DownIsIdle, OthersKept, OwnKept
<1>5. \A g \in Handlers \ {h} : /\ Holds(g)' <=> Holds(g)
                                /\ caps'[g] = caps[g]
  BY DEF OthersKept, Holds
<1>6. \A g \in Handlers : Holds(g)' => caps'[g].sequence \in locks'
  BY <1>5 DEF NumbersUnique, FilesKept, OwnKept
<1>7. ASSUME NEW f \in Handlers, NEW g \in Handlers, Holds(f)', Holds(g)', f # g
      PROVE  caps'[f].sequence # caps'[g].sequence
  BY <1>5, <1>7 DEF NumbersUnique, OwnKept
<1>8. ASSUME NEW g \in Handlers, caps'[g].pc \in {"stream", "persist", "finish", "release"}
      PROVE  caps'[g].sequence =< servers'[g[1]].sequence
  <2>1. CASE g = h
    BY <1>8, <2>1 DEF OwnKept
  <2>2. CASE g # h
    <3>1. /\ caps[g].sequence =< servers[g[1]].sequence
          /\ servers[g[1]].sequence =< servers'[g[1]].sequence
          /\ caps'[g].sequence = caps[g].sequence
      BY <1>5, <1>8, <2>2 DEF NumbersUnique, OthersKept
    <3>2. caps[g].sequence \in Nat /\ servers[g[1]].sequence \in Nat
          /\ servers'[g[1]].sequence \in Nat
      BY DEF CaptureTypeOK, Cap, Server
    <3>. QED
      BY <3>1, <3>2
  <2>. QED
    BY <2>1, <2>2
<1>9. FixtureFree'
  <2>1. ASSUME NEW g \in Handlers, servers'[g[1]].dir, caps'[g].pc \in {"stream", "persist"}
        PROVE  caps'[g].sequence \notin DOMAIN fixtures'
    <3>1. CASE g = h
      BY <2>1, <3>1 DEF OwnKept
    <3>2. CASE g # h
      <4>1. caps'[g] = caps[g] /\ servers[g[1]].dir /\ Holds(g)
        BY <1>5, <2>1, <3>2 DEF OthersKept, Holds
      <4>2. caps[g].sequence \notin DOMAIN fixtures
        BY <2>1, <4>1 DEF FixtureFree
      <4>3. ~(Holds(h) /\ caps[g].sequence = caps[h].sequence)
        BY <3>2, <4>1 DEF NumbersUnique
      <4>. QED
        BY <4>1, <4>2, <4>3 DEF FilesKept
    <3>. QED
      BY <3>1, <3>2
  <2>. QED
    BY <2>1 DEF FixtureFree
<1>. QED
  BY <1>2, <1>3, <1>4, <1>6, <1>7, <1>8, <1>9 DEF NumbersUnique

-----------------------------------------------------------------------------

\* Arrival and s.mu.Lock keep the invariant (ServeHTTP, nextSequence).
LEMMA EnterCaptureInv ==
    ASSUME CaptureInv, NEW h \in Handlers, BeginCapture(h) \/ LockMutex(h)
    PROVE  CaptureInv'
<1>. USE CaptureAssumption DEF CaptureInv
<1>0. /\ h[1] \in Servers /\ servers[h[1]] \in Server /\ caps[h] \in Cap
      /\ servers[h[1]].sequence =< servers[h[1]].sequence
  BY DEF CaptureTypeOK, Server
<1>1. CASE BeginCapture(h)
  <2>1. CaptureTypeOK' /\ DirectoryFinite'
    BY <1>1 DEF BeginCapture, Goto, CaptureTypeOK, Cap, Steps, DirectoryFinite
  <2>2. /\ caps'[h].pc = "mutex" /\ \A g \in Handlers \ {h} : caps'[g] = caps[g]
        /\ UNCHANGED <<fixtures, locks, servers>> /\ servers[h[1]].state = "up"
    BY <1>1 DEF BeginCapture, Goto, CaptureTypeOK, Cap
  <2>3. OthersKept(h) /\ FilesKept(h) /\ OwnKept(h)
    BY <1>0, <2>2 DEF OthersKept, FilesKept, OwnKept, Holds, InSection, Choosing, CaptureTypeOK, Server
  <2>. QED
    BY <2>1, <2>3, RequestCaptureInv
<1>2. CASE LockMutex(h)
  <2>1. CaptureTypeOK' /\ DirectoryFinite'
    <3>1. servers' \in [Servers -> Server]
      BY <1>2 DEF LockMutex, CaptureTypeOK, Server
    <3>2. caps' \in [Handlers -> Cap]
      BY <1>2 DEF LockMutex, Goto, CaptureTypeOK, Cap, Steps
    <3>. QED
      BY <1>2, <3>1, <3>2 DEF LockMutex, CaptureTypeOK, DirectoryFinite
  <2>2. caps'[h].pc = "scan" /\ \A g \in Handlers \ {h} : caps'[g] = caps[g]
    BY <1>2 DEF LockMutex, Goto, CaptureTypeOK, Cap
  <2>3. \A t \in Servers : /\ servers'[t].dir = servers[t].dir
                           /\ servers'[t].sequence = servers[t].sequence
                           /\ servers'[t].state = servers[t].state
                           /\ servers'[t].mu = IF t = h[1] THEN h ELSE servers[t].mu
    BY <1>2 DEF LockMutex, CaptureTypeOK, Server
  <2>4. /\ caps[h].pc = "mutex" /\ servers[h[1]].mu = Nobody /\ UNCHANGED <<fixtures, locks>>
        /\ \A t \in Servers : servers[t].sequence \in Nat
    BY <1>2 DEF LockMutex, CaptureTypeOK, Server
  <2>5. OthersKept(h) /\ FilesKept(h) /\ OwnKept(h)
    BY <1>0, <2>2, <2>3, <2>4
    DEF OthersKept, FilesKept, OwnKept, Holds, InSection, Choosing, DownIsIdle
  <2>. QED
    BY <2>1, <2>5, RequestCaptureInv
<1>. QED
  BY <1>1, <1>2

\* A request that gives up inside nextSequence, with or without its lock file removed,
\* keeps the invariant.
LEMMA FailCaptureInv ==
    ASSUME CaptureInv, NEW h \in Handlers, caps[h].pc \in InSection, Fail(h),
           \/ UNCHANGED locks
           \/ locks' = locks \ {caps[h].sequence} /\ Holds(h),
           UNCHANGED <<fixtures, captures, starts>>
    PROVE  CaptureInv'
<1>. USE CaptureAssumption DEF CaptureInv
<1>1. CaptureTypeOK'
  <2>1. servers' \in [Servers -> Server]
    BY SMTT(60) DEF Fail, Unlock, CaptureTypeOK, Server
  <2>2. caps' \in [Handlers -> Cap]
    BY DEF Fail, CaptureTypeOK, Cap, Steps, IdleCap
  <2>. QED
    BY <2>1, <2>2 DEF CaptureTypeOK
<1>2. DirectoryFinite'
  <2>1. IsFiniteSet(locks \ {caps[h].sequence})
    BY FS_RemoveElement DEF DirectoryFinite
  <2>. QED
    BY <2>1 DEF DirectoryFinite
<1>3. caps'[h].pc = "idle" /\ \A g \in Handlers \ {h} : caps'[g] = caps[g]
  BY DEF Fail, CaptureTypeOK, IdleCap
<1>4. \A t \in Servers : /\ servers'[t].dir = servers[t].dir
                         /\ servers'[t].sequence = servers[t].sequence
                         /\ servers'[t].state = servers[t].state
                         /\ t # h[1] => servers'[t].mu = servers[t].mu
  BY DEF Fail, Unlock, CaptureTypeOK, Server
<1>5. h[1] \in Servers /\ servers[h[1]].mu = h /\ \A t \in Servers : servers[t].sequence \in Nat
  BY DEF MutexHeld, CaptureTypeOK, Server
<1>6. OthersKept(h)
  BY <1>3, <1>4, <1>5 DEF OthersKept
<1>7. FilesKept(h) /\ OwnKept(h)
  BY <1>3 DEF FilesKept, OwnKept, Holds, InSection, Choosing
<1>. QED
  BY <1>1, <1>2, <1>6, <1>7, RequestCaptureInv

\* A request that moves on without touching its process (Goto and the like): what is
\* left to show is about the files and itself.
LEMMA MoveCaptureInv ==
    ASSUME CaptureInv, NEW h \in Handlers, NEW c \in Cap, caps' = [caps EXCEPT ![h] = c],
           UNCHANGED <<servers, captures, starts>>, DirectoryFinite',
           locks' \subseteq Nat \ {0}, DOMAIN fixtures' \subseteq Nat \ {0},
           \A n \in DOMAIN fixtures' : fixtures'[n] \in 0..EventCount,
           FilesKept(h), OwnKept(h)
    PROVE  CaptureInv'
<1>. USE CaptureAssumption DEF CaptureInv
<1>1. CaptureTypeOK'
  BY DEF CaptureTypeOK
<1>2. \A t \in Servers : servers[t].sequence \in Nat
  BY DEF CaptureTypeOK, Server
<1>3. OthersKept(h)
  BY <1>2 DEF OthersKept, CaptureTypeOK
<1>. QED
  BY <1>1, <1>3, RequestCaptureInv

\* nextSequence returns n: the counter of the process follows, and s.mu is free.
GivenNumber(h, n) ==
    /\ caps[h].pc \in InSection
    /\ servers[h[1]].sequence < n
    /\ servers[h[1]].dir => Holds(h) /\ n = caps[h].sequence /\ n \notin DOMAIN fixtures
    /\ caps' = [caps EXCEPT ![h].sequence = n, ![h].pc = "stream"]
    /\ Allocated(h[1], n)
    /\ UNCHANGED <<fixtures, locks, captures, starts>>

\* A request that is given a number keeps the invariant.
LEMMA AllocateCaptureInv ==
    ASSUME CaptureInv, NEW h \in Handlers, NEW n \in Nat, GivenNumber(h, n)
    PROVE  CaptureInv'
<1>. USE CaptureAssumption DEF CaptureInv
<1>0. /\ caps[h].pc \in InSection /\ servers[h[1]].sequence < n
      /\ servers[h[1]].dir => Holds(h) /\ n = caps[h].sequence /\ n \notin DOMAIN fixtures
      /\ UNCHANGED <<fixtures, locks, captures, starts>>
  BY DEF GivenNumber
<1>1. CaptureTypeOK' /\ DirectoryFinite'
  <2>1. servers' \in [Servers -> Server]
    BY DEF GivenNumber, Allocated, CaptureTypeOK, Server
  <2>2. caps' \in [Handlers -> Cap]
    <3>. DEFINE c == [caps[h] EXCEPT !.sequence = n, !.pc = "stream"]
    <3>1. caps \in [Handlers -> Cap]
      BY DEF CaptureTypeOK
    <3>2. c \in Cap
      BY <3>1, ZenonT(60) DEF Cap, Steps
    <3>3. caps' = [caps EXCEPT ![h] = c]
      BY <3>1 DEF GivenNumber
    <3>. HIDE DEF c
    <3>. QED
      BY <3>1, <3>2, <3>3
  <2>. QED
    BY <1>0, <2>1, <2>2 DEF CaptureTypeOK, DirectoryFinite
<1>2. /\ caps'[h].pc = "stream" /\ caps'[h].sequence = n
      /\ \A g \in Handlers \ {h} : caps'[g] = caps[g]
  BY DEF GivenNumber, CaptureTypeOK, Cap
<1>3. \A t \in Servers : /\ servers'[t].dir = servers[t].dir
                         /\ servers'[t].state = servers[t].state
                         /\ t # h[1] => servers'[t].mu = servers[t].mu
                         /\ servers'[t].sequence = IF t = h[1] THEN n ELSE servers[t].sequence
  BY DEF GivenNumber, Allocated, CaptureTypeOK, Server
<1>4. h[1] \in Servers /\ servers[h[1]].mu = h /\ \A t \in Servers : servers[t].sequence \in Nat
  BY <1>0 DEF MutexHeld, CaptureTypeOK, Server
<1>5. OthersKept(h)
  BY <1>0, <1>2, <1>3, <1>4 DEF OthersKept
<1>6. FilesKept(h)
  BY <1>0 DEF FilesKept
<1>7. OwnKept(h)
  <2>1. servers[h[1]].state # "down"
    BY <1>0 DEF DownIsIdle, InSection, Choosing
  <2>2. Holds(h)' => Holds(h) /\ n = caps[h].sequence
    BY <1>0, <1>3, <1>4 DEF Holds
  <2>. QED
    BY <1>0, <1>2, <1>3, <1>4, <2>1, <2>2 DEF OwnKept, InSection, Choosing, NumbersUnique
<1>. QED
  BY <1>1, <1>5, <1>6, <1>7, RequestCaptureInv

-----------------------------------------------------------------------------

\* The directory scan keeps the invariant: its candidate is past the process counter.
LEMMA ScanCaptureInv ==
    ASSUME CaptureInv, NEW h \in Handlers, Scan(h)
    PROVE  CaptureInv'
<1>. USE CaptureAssumption DEF CaptureInv
<1>. DEFINE s == h[1]
            next == servers[s].sequence + 1
            candidate == Max({next, highestFixtureSequence + 1})
<1>1. /\ s \in Servers /\ next \in Nat /\ caps[h].pc = "scan"
      /\ UNCHANGED <<fixtures, locks, captures, starts>>
      /\ servers[s].sequence \in Nat
  BY DEF Scan, CaptureTypeOK, Server
<1>2. CASE ~servers[s].dir /\ Allocated(s, next)
           /\ caps' = [caps EXCEPT ![h].sequence = next, ![h].pc = "stream"]
  <2>1. servers[s].sequence < next
    BY <1>1
  <2>. HIDE DEF next
  <2>2. GivenNumber(h, next)
    BY <1>1, <1>2, <2>1, Zenon DEF GivenNumber, InSection
  <2>. QED
    BY <1>1, <2>2, AllocateCaptureInv
<1>3. CASE servers[s].dir /\ UNCHANGED servers
           /\ caps' = [caps EXCEPT ![h].sequence = candidate, ![h].pc = "lock"]
  <2>1. highestFixtureSequence \in Nat
    <3>. DEFINE S == {0} \cup locks \cup DOMAIN fixtures
    <3>1. S \in SUBSET Int /\ S \in SUBSET Nat /\ S # {}
      BY DEF CaptureTypeOK
    <3>2. IsFiniteSet(S)
      BY FS_Singleton, FS_Union DEF DirectoryFinite
    <3>. HIDE DEF S
    <3>3. Max(S) \in S
      BY <3>1, <3>2, MaxOfFinite
    <3>. QED
      BY <3>1, <3>3 DEF highestFixtureSequence, S
  <2>2. candidate \in Nat /\ servers[s].sequence < candidate
    <3>. DEFINE S == {next, highestFixtureSequence + 1}
    <3>1. S \in SUBSET Nat /\ S \in SUBSET Int /\ S # {} /\ next \in S
      BY <1>1, <2>1
    <3>2. IsFiniteSet(S)
      <4>. DEFINE top == highestFixtureSequence + 1
      <4>. HIDE DEF next, top
      <4>1. IsFiniteSet({next} \cup {top})
        BY FS_Singleton, FS_Union
      <4>2. S = {next} \cup {top}
        BY DEF top
      <4>. QED
        BY <4>1, <4>2
    <3>. HIDE DEF S
    <3>3. Max(S) \in S /\ Max(S) >= next
      BY <3>1, <3>2, MaxOfFinite
    <3>4. candidate \in Nat /\ candidate >= next
      BY <3>1, <3>3 DEF S
    <3>. HIDE DEF candidate
    <3>. QED
      BY <1>1, <3>4
  <2>. DEFINE c == [caps[h] EXCEPT !.sequence = candidate, !.pc = "lock"]
  <2>. HIDE DEF candidate
  <2>3. caps[h] \in Cap /\ caps \in [Handlers -> Cap]
    BY DEF CaptureTypeOK
  <2>4. c \in Cap /\ c.pc = "lock" /\ c.sequence = candidate
    BY <2>2, <2>3 DEF Cap, Steps
  <2>5. caps' = [caps EXCEPT ![h] = c]
    BY <1>3, <2>3
  <2>6. servers[s].dir /\ UNCHANGED servers
    BY <1>3, Zenon
  <2>. HIDE DEF c
  <2>7. servers[s].mu = h /\ servers[s].state # "down"
    BY <1>1 DEF MutexHeld, DownIsIdle, InSection
  <2>8. caps'[h] = c
    BY <2>3, <2>5
  <2>9. FilesKept(h) /\ OwnKept(h)
    BY <1>1, <2>2, <2>4, <2>6, <2>7, <2>8 DEF FilesKept, OwnKept, Holds
  <2>. QED
    BY <1>1, <2>4, <2>5, <2>6, <2>9, MoveCaptureInv DEF DirectoryFinite, CaptureTypeOK
<1>4. CASE servers[s].dir /\ Fail(h)
  BY <1>1, <1>4, FailCaptureInv DEF InSection
<1>. QED
  BY <1>2, <1>3, <1>4 DEF Scan

\* What the steps of one request start from: its own record, its process, finite files.
LEMMA RequestFacts ==
    ASSUME CaptureInv, NEW h \in Handlers
    PROVE  /\ caps \in [Handlers -> Cap] /\ caps[h] \in Cap
           /\ caps[h].sequence \in Nat /\ caps[h].sequence + 1 \in Nat \ {0}
           /\ caps[h].written \in 0..EventCount
           /\ h[1] \in Servers /\ servers[h[1]].sequence \in Nat
           /\ caps[h].pc # "idle" => servers[h[1]].state # "down"
           /\ caps[h].pc \in InSection => servers[h[1]].mu = h
           /\ caps[h].pc \in Choosing =>
                 servers[h[1]].dir /\ servers[h[1]].sequence < caps[h].sequence
           /\ Holds(h) => caps[h].sequence \in locks
           /\ DirectoryFinite /\ locks \subseteq Nat \ {0} /\ DOMAIN fixtures \subseteq Nat \ {0}
           /\ \A n \in DOMAIN fixtures : fixtures[n] \in 0..EventCount
<1>. USE CaptureAssumption DEF CaptureInv
<1>1. caps \in [Handlers -> Cap] /\ caps[h] \in Cap /\ h[1] \in Servers /\ servers[h[1]] \in Server
  BY DEF CaptureTypeOK
<1>2. caps[h].sequence \in Nat /\ caps[h].written \in 0..EventCount /\ servers[h[1]].sequence \in Nat
  BY <1>1 DEF Cap, Server
<1>3. /\ caps[h].pc # "idle" => servers[h[1]].state # "down"
      /\ caps[h].pc \in InSection => servers[h[1]].mu = h
      /\ caps[h].pc \in Choosing =>
            servers[h[1]].dir /\ servers[h[1]].sequence < caps[h].sequence
      /\ Holds(h) => caps[h].sequence \in locks
  BY DEF DownIsIdle, MutexHeld, CandidateAhead, NumbersUnique
<1>. QED
  BY <1>1, <1>2, <1>3 DEF CaptureTypeOK

\* O_EXCL: a lock file that is created was nobody's (reserveFixtureSequence).
LEMMA CreateLockCaptureInv ==
    ASSUME CaptureInv, NEW h \in Handlers, CreateLock(h)
    PROVE  CaptureInv'
<1>. DEFINE n == caps[h].sequence
<1>0. caps[h].pc = "lock" /\ UNCHANGED <<fixtures, captures, starts>>
  BY Zenon DEF CreateLock
<1>1. CASE n \notin locks /\ locks' = locks \cup {n} /\ Goto(h, "stat") /\ UNCHANGED servers
  <2>. DEFINE c == [caps[h] EXCEPT !.pc = "stat"]
  <2>1. c \in Cap /\ c.pc = "stat" /\ c.sequence = n
    BY RequestFacts DEF Cap, Steps
  <2>2. caps' = [caps EXCEPT ![h] = c] /\ UNCHANGED servers
    BY <1>1, RequestFacts DEF Goto
  <2>3. n \notin locks /\ locks' = locks \cup {n}
    BY <1>1
  <2>. HIDE DEF c
  <2>4. caps'[h] = c
    BY <2>2, RequestFacts
  <2>5. DirectoryFinite'
    BY <1>0, <2>3, RequestFacts, FS_AddElement DEF DirectoryFinite
  <2>6. n \in Nat \ {0} /\ locks' \subseteq Nat \ {0}
    BY <1>0, <2>3, RequestFacts DEF Choosing
  <2>7. FilesKept(h)
    BY <1>0, <2>3 DEF FilesKept
  <2>8. OwnKept(h)
    BY <1>0, <2>1, <2>2, <2>3, <2>4, RequestFacts DEF OwnKept, Holds, InSection, Choosing
  <2>. QED
    BY <1>0, <2>1, <2>2, <2>5, <2>6, <2>7, <2>8, RequestFacts, MoveCaptureInv
<1>2. CASE caps' = [caps EXCEPT ![h].sequence = n + 1] /\ UNCHANGED <<locks, servers>>
  <2>. DEFINE c == [caps[h] EXCEPT !.sequence = n + 1]
  <2>1. c \in Cap /\ c.pc = "lock" /\ c.sequence = n + 1
    BY <1>0, RequestFacts DEF Cap
  <2>2. caps' = [caps EXCEPT ![h] = c] /\ UNCHANGED <<locks, servers>>
    BY <1>2, RequestFacts
  <2>. HIDE DEF c
  <2>3. caps'[h] = c
    BY <2>2, RequestFacts
  <2>4. FilesKept(h)
    BY <1>0, <2>2 DEF FilesKept
  <2>5. OwnKept(h)
    BY <1>0, <2>1, <2>2, <2>3, RequestFacts DEF OwnKept, Holds, InSection, Choosing
  <2>6. DirectoryFinite' /\ locks' \subseteq Nat \ {0}
    BY <1>0, <2>2, RequestFacts DEF DirectoryFinite
  <2>. QED
    BY <1>0, <2>1, <2>2, <2>4, <2>5, <2>6, RequestFacts, MoveCaptureInv
<1>3. CASE Fail(h) /\ UNCHANGED locks
  BY <1>0, <1>3, FailCaptureInv DEF InSection, Choosing
<1>. QED
  BY <1>1, <1>2, <1>3 DEF CreateLock

\* A request that only moves on in its code, past which its promises stay the same.
LEMMA GotoCaptureInv ==
    ASSUME CaptureInv, NEW h \in Handlers, NEW pc \in Steps, Goto(h, pc),
           UNCHANGED <<fixtures, locks, servers, captures, starts>>,
           \/ caps[h].pc = "stat" /\ pc \in {"skip", "undo"}
           \/ caps[h].pc = "stream" /\ pc = "persist"
           \/ caps[h].pc = "persist" /\ pc = "finish"
    PROVE  CaptureInv'
<1>. DEFINE c == [caps[h] EXCEPT !.pc = pc]
<1>1. c \in Cap /\ c.pc = pc /\ c.sequence = caps[h].sequence
  BY RequestFacts DEF Cap
<1>2. caps' = [caps EXCEPT ![h] = c]
  BY RequestFacts DEF Goto
<1>. HIDE DEF c
<1>3. caps'[h] = c
  BY <1>2, RequestFacts
<1>4. FilesKept(h)
  BY DEF FilesKept
<1>5. OwnKept(h)
  BY <1>1, <1>3, RequestFacts
  DEF OwnKept, Holds, InSection, Choosing, CaptureInv, NumbersUnique, FixtureFree
<1>6. DirectoryFinite'
  BY RequestFacts DEF DirectoryFinite
<1>. QED
  BY <1>1, <1>2, <1>4, <1>5, <1>6, RequestFacts, MoveCaptureInv

\* The fixture is looked for under the lock, so that a number given out is free of both
\* (reserveFixtureSequence).
LEMMA StatCaptureInv ==
    ASSUME CaptureInv, NEW h \in Handlers, StatFixture(h)
    PROVE  CaptureInv'
<1>. DEFINE n == caps[h].sequence
<1>0. caps[h].pc = "stat" /\ UNCHANGED <<fixtures, locks, captures, starts>>
  BY Zenon DEF StatFixture
<1>1. CASE (Goto(h, "skip") \/ Goto(h, "undo")) /\ UNCHANGED servers
  BY <1>0, <1>1, GotoCaptureInv DEF Steps
<1>2. CASE n \notin DOMAIN fixtures /\ Goto(h, "stream") /\ Allocated(h[1], n)
  <2>1. /\ caps[h].pc \in InSection /\ servers[h[1]].sequence < n /\ n \in Nat /\ Holds(h)
        /\ n \notin DOMAIN fixtures
    BY <1>0, <1>2, RequestFacts DEF InSection, Choosing, Holds
  <2>2. caps' = [caps EXCEPT ![h].sequence = n, ![h].pc = "stream"]
    <3>1. [caps[h] EXCEPT !.pc = "stream"] = [caps[h] EXCEPT !.sequence = n, !.pc = "stream"]
      BY RequestFacts DEF Cap
    <3>. QED
      BY <1>2, <3>1, RequestFacts DEF Goto
  <2>3. GivenNumber(h, n)
    BY <1>0, <1>2, <2>1, <2>2, Zenon DEF GivenNumber
  <2>. QED
    BY <2>1, <2>3, AllocateCaptureInv
<1>. QED
  BY <1>1, <1>2 DEF StatFixture

\* A number that is taken is given up with its lock (reserveFixtureSequence).
LEMMA SkipCaptureInv ==
    ASSUME CaptureInv, NEW h \in Handlers, SkipNumber(h)
    PROVE  CaptureInv'
<1>. DEFINE n == caps[h].sequence
<1>0. caps[h].pc = "skip" /\ UNCHANGED <<fixtures, captures, starts>>
  BY Zenon DEF SkipNumber
<1>1. CASE locks' = locks \ {n} /\ UNCHANGED servers
           /\ caps' = [caps EXCEPT ![h].sequence = n + 1, ![h].pc = "lock"]
  <2>. DEFINE c == [caps[h] EXCEPT !.sequence = n + 1, !.pc = "lock"]
  <2>1. c \in Cap /\ c.pc = "lock" /\ c.sequence = n + 1
    BY RequestFacts DEF Cap, Steps
  <2>2. caps' = [caps EXCEPT ![h] = c]
    BY <1>1, RequestFacts
  <2>3. locks' = locks \ {n} /\ UNCHANGED servers
    BY <1>1, Zenon
  <2>. HIDE DEF c
  <2>4. caps'[h] = c
    BY <2>2, RequestFacts
  <2>5. DirectoryFinite' /\ locks' \subseteq Nat \ {0}
    BY <1>0, <2>3, RequestFacts, FS_RemoveElement DEF DirectoryFinite
  <2>6. FilesKept(h)
    BY <1>0, <2>3, RequestFacts DEF FilesKept, Holds, Choosing
  <2>7. OwnKept(h)
    BY <1>0, <2>1, <2>3, <2>4, RequestFacts DEF OwnKept, Holds, InSection, Choosing
  <2>. QED
    BY <1>0, <2>1, <2>2, <2>3, <2>5, <2>6, <2>7, RequestFacts, MoveCaptureInv
<1>2. CASE Fail(h) /\ UNCHANGED locks
  BY <1>0, <1>2, FailCaptureInv DEF InSection, Choosing
<1>. QED
  BY <1>1, <1>2 DEF SkipNumber

\* The lock that an error gives back is the request's own (reserveFixtureSequence).
LEMMA UndoCaptureInv ==
    ASSUME CaptureInv, NEW h \in Handlers, UndoLock(h)
    PROVE  CaptureInv'
<1>1. /\ caps[h].pc = "undo" /\ Fail(h) /\ UNCHANGED <<fixtures, captures, starts>>
      /\ UNCHANGED locks \/ locks' = locks \ {caps[h].sequence}
  BY Zenon DEF UndoLock
<1>2. Holds(h) /\ caps[h].pc \in InSection
  BY <1>1, RequestFacts DEF Holds, InSection, Choosing
<1>. QED
  BY <1>1, <1>2, FailCaptureInv

\* Streaming keeps the invariant (writeResponseStream).
LEMMA WriteCaptureInv ==
    ASSUME CaptureInv, NEW h \in Handlers, WriteEvent(h)
    PROVE  CaptureInv'
<1>0. caps[h].pc = "stream" /\ UNCHANGED <<fixtures, locks, servers, captures, starts>>
  BY Zenon DEF WriteEvent
<1>1. CASE caps[h].written < EventCount /\ caps' = [caps EXCEPT ![h].written = @ + 1]
  <2>. DEFINE c == [caps[h] EXCEPT !.written = @ + 1]
  <2>1. caps[h].written + 1 \in 0..EventCount
    BY <1>1, RequestFacts, CaptureAssumption
  <2>2. c \in Cap /\ c.pc = "stream" /\ c.sequence = caps[h].sequence
    BY <1>0, <2>1, RequestFacts DEF Cap
  <2>3. caps' = [caps EXCEPT ![h] = c]
    BY <1>1, RequestFacts
  <2>. HIDE DEF c
  <2>4. caps'[h] = c
    BY <2>3, RequestFacts
  <2>5. FilesKept(h) /\ OwnKept(h) /\ DirectoryFinite'
    BY <1>0, <2>2, <2>4, RequestFacts
    DEF FilesKept, OwnKept, Holds, InSection, Choosing, CaptureInv, NumbersUnique, FixtureFree,
        DirectoryFinite
  <2>. QED
    BY <1>0, <2>2, <2>3, <2>5, RequestFacts, MoveCaptureInv
<1>2. CASE Goto(h, "persist")
  BY <1>0, <1>2, GotoCaptureInv DEF Steps
<1>. QED
  BY <1>1, <1>2 DEF WriteEvent

\* A fixture is created under a number that its request holds (writeFixture).
LEMMA PersistCaptureInv ==
    ASSUME CaptureInv, NEW h \in Handlers, PersistFixture(h)
    PROVE  CaptureInv'
<1>. DEFINE n == caps[h].sequence
            added == [m \in DOMAIN fixtures \cup {n} |->
                         IF m = n THEN caps[h].written ELSE fixtures[m]]
<1>0. caps[h].pc = "persist" /\ UNCHANGED <<locks, servers, captures, starts>>
  BY Zenon DEF PersistFixture
<1>1. CASE servers[h[1]].dir /\ fixtures' = added
           /\ caps' = [caps EXCEPT ![h].linked = TRUE, ![h].pc = "finish"]
  <2>. DEFINE c == [caps[h] EXCEPT !.linked = TRUE, !.pc = "finish"]
  <2>1. c \in Cap /\ c.pc = "finish" /\ c.sequence = n
    BY RequestFacts DEF Cap, Steps
  <2>2. caps' = [caps EXCEPT ![h] = c]
    BY <1>1, RequestFacts
  <2>3. fixtures' = added /\ servers[h[1]].dir
    BY <1>1, Zenon
  <2>. HIDE DEF c
  <2>4. caps'[h] = c
    BY <2>2, RequestFacts
  <2>5. Holds(h) /\ n \in Nat \ {0}
    BY <1>0, <2>3, RequestFacts DEF Holds
  <2>6. /\ DOMAIN fixtures' = DOMAIN fixtures \cup {n}
        /\ \A m \in DOMAIN fixtures' : \/ fixtures'[m] = caps[h].written
                                       \/ m \in DOMAIN fixtures /\ fixtures'[m] = fixtures[m]
    BY <2>3
  <2>7. DirectoryFinite'
    <3>1. IsFiniteSet(DOMAIN fixtures \cup {n})
      BY RequestFacts, FS_AddElement DEF DirectoryFinite
    <3>. QED
      BY <1>0, <2>6, <3>1, RequestFacts DEF DirectoryFinite
  <2>8. FilesKept(h)
    BY <1>0, <2>5, <2>6 DEF FilesKept
  <2>9. OwnKept(h)
    BY <1>0, <2>1, <2>4, <2>5, RequestFacts DEF OwnKept, Holds, InSection, Choosing, CaptureInv, NumbersUnique
  <2>10. \A m \in DOMAIN fixtures' : fixtures'[m] \in 0..EventCount
    BY <2>6, RequestFacts
  <2>. QED
    BY <1>0, <2>1, <2>2, <2>5, <2>6, <2>7, <2>8, <2>9, <2>10, RequestFacts, MoveCaptureInv
<1>2. CASE Goto(h, "finish") /\ UNCHANGED fixtures
  BY <1>0, <1>2, GotoCaptureInv DEF Steps
<1>. QED
  BY <1>1, <1>2 DEF PersistFixture

\* The end of a capture keeps the invariant (ServeHTTP, releaseSequence).
LEMMA EndCaptureInv ==
    ASSUME CaptureInv, NEW h \in Handlers, FinishCapture(h) \/ ReleaseSequence(h)
    PROVE  CaptureInv'
<1>1. CASE FinishCapture(h)
  <2>. USE CaptureAssumption
  <2>1. caps[h].pc = "finish" /\ UNCHANGED <<fixtures, locks, captures, starts>>
    BY <1>1, Zenon DEF FinishCapture
  <2>2. servers' \in [Servers -> Server]
    <3>. DEFINE b == servers[h[1]].closing \/ h[1] \in OneShot
    <3>1. b \in BOOLEAN
      OBVIOUS
    <3>2. servers' = [servers EXCEPT ![h[1]].closing = b]
      BY <1>1, Zenon DEF FinishCapture
    <3>. HIDE DEF b
    <3>. QED
      BY <3>1, <3>2, ZenonT(60) DEF CaptureInv, CaptureTypeOK, Server
  <2>3. caps' \in [Handlers -> Cap]
    BY <1>1 DEF FinishCapture, Goto, CaptureInv, CaptureTypeOK, Cap, Steps
  <2>4. CaptureTypeOK' /\ DirectoryFinite'
    BY <2>1, <2>2, <2>3 DEF CaptureInv, CaptureTypeOK, DirectoryFinite
  <2>5. /\ caps'[h].pc = "release" /\ caps'[h].sequence = caps[h].sequence
        /\ \A g \in Handlers \ {h} : caps'[g] = caps[g]
    BY <1>1 DEF FinishCapture, Goto, CaptureInv, CaptureTypeOK, Cap
  <2>6. \A t \in Servers : /\ servers'[t].dir = servers[t].dir
                           /\ servers'[t].state = servers[t].state
                           /\ servers'[t].mu = servers[t].mu
                           /\ servers'[t].sequence = servers[t].sequence
                           /\ servers[t].sequence \in Nat
    BY <1>1 DEF FinishCapture, CaptureInv, CaptureTypeOK, Server
  <2>7. OthersKept(h)
    BY <2>5, <2>6 DEF OthersKept
  <2>8. FilesKept(h)
    BY <2>1 DEF FilesKept
  <2>9. OwnKept(h)
    BY <2>1, <2>5, <2>6, RequestFacts
    DEF OwnKept, Holds, InSection, Choosing, CaptureInv, NumbersUnique
  <2>. QED
    BY <2>4, <2>7, <2>8, <2>9, RequestCaptureInv
<1>2. CASE ReleaseSequence(h)
  <2>1. /\ caps[h].pc = "release" /\ caps' = [caps EXCEPT ![h] = IdleCap]
        /\ UNCHANGED <<fixtures, servers, captures, starts>>
        /\ \/ UNCHANGED locks
           \/ servers[h[1]].dir /\ locks' = locks \ {caps[h].sequence}
    BY <1>2 DEF ReleaseSequence
  <2>2. IdleCap \in Cap /\ IdleCap.pc = "idle"
    BY CaptureAssumption DEF IdleCap, Cap, Steps
  <2>3. caps'[h].pc = "idle"
    BY <2>1, <2>2, RequestFacts
  <2>4. DirectoryFinite' /\ locks' \subseteq Nat \ {0}
    BY <2>1, RequestFacts, FS_RemoveElement DEF DirectoryFinite
  <2>5. FilesKept(h)
    BY <2>1 DEF FilesKept, Holds
  <2>6. OwnKept(h)
    BY <2>3 DEF OwnKept, Holds, InSection, Choosing
  <2>. QED
    BY <2>1, <2>2, <2>4, <2>5, <2>6, RequestFacts, MoveCaptureInv
<1>. QED
  BY <1>1, <1>2

\* Every step keeps the invariant.
LEMMA NextCaptureInv == CaptureInv /\ [CaptureNext]_captureVars => CaptureInv'
<1>. SUFFICES ASSUME CaptureInv, [CaptureNext]_captureVars
              PROVE  CaptureInv'
  OBVIOUS
<1>1. CASE UNCHANGED captureVars
  BY <1>1
  DEF captureVars, CaptureInv, CaptureTypeOK, DirectoryFinite, MutexHeld, CandidateAhead,
      DownIsIdle, NumbersUnique, FixtureFree, Holds
<1>2. ASSUME NEW s \in Servers, (\E dir \in BOOLEAN : Listen(s, dir)) \/ Close(s) \/ Exit(s)
      PROVE  CaptureInv'
  BY <1>2, ProcessCaptureInv
<1>3. ASSUME NEW h \in Handlers, BeginCapture(h) \/ HandlerStep(h)
      PROVE  CaptureInv'
  BY <1>3, EnterCaptureInv, ScanCaptureInv, CreateLockCaptureInv, StatCaptureInv,
     SkipCaptureInv, UndoCaptureInv, WriteCaptureInv, PersistCaptureInv, EndCaptureInv
  DEF HandlerStep
<1>. QED
  BY <1>1, <1>2, <1>3 DEF CaptureNext

-----------------------------------------------------------------------------

\* The inductive invariant holds throughout.
THEOREM CaptureInvAlways == CaptureSpec => []CaptureInv
  BY InitCaptureInv, NextCaptureInv, PTL DEF CaptureSpec

\* The type invariant of the capture server.
THEOREM CaptureTypeCorrect == CaptureSpec => []CaptureTypeOK
<1>1. CaptureInv => CaptureTypeOK
  BY DEF CaptureInv
<1>. QED
  BY <1>1, CaptureInvAlways, PTL

\* No two requests of any processes that share a directory hold the same number, the lock
\* file of a number that is held is there, and a process never gives a number out
\* twice: for any number of processes, requests and restarts.
THEOREM NumbersStayUnique == CaptureSpec => []NumbersUnique
<1>1. CaptureInv => NumbersUnique
  BY DEF CaptureInv
<1>. QED
  BY <1>1, CaptureInvAlways, PTL

\* os.Link never finds the name of a capture's fixture taken.
THEOREM FixtureStaysFree == CaptureSpec => []FixtureFree
<1>1. CaptureInv => FixtureFree
  BY DEF CaptureInv
<1>. QED
  BY <1>1, CaptureInvAlways, PTL
=============================================================================
