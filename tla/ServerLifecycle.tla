---------------------------- MODULE ServerLifecycle ----------------------------
(***************************************************************************)
(* Admission, accounting and shutdown of internal/server/server.go, driven *)
(* by the main goroutine of internal/app/app.go.                           *)
(*                                                                         *)
(* Request goroutines pass through ServeHTTP; the main goroutine serves    *)
(* until a signal or a Serve error, shuts down (marking, cancelling,       *)
(* draining, closing the store) and finally calls Close; a watch goroutine *)
(* repeats the cancellation when the grace period ends.  What a handler    *)
(* does is left open: it may run for ever, canceled or not.                *)
(*                                                                         *)
(* activeRequestsDone is replaced by a fresh channel whenever the first    *)
(* request enters an idle server, and every request closes over the one it *)
(* saw.  Channels are numbered in the order they are made.                 *)
(***************************************************************************)
EXTENDS Integers, FiniteSets

CONSTANTS
    Requests,            \* slots of the goroutines net/http runs
    MaxActiveRequests,
    MaxChannels          \* bound on the channels made

ASSUME LifecycleAssumption ==
    /\ IsFiniteSet(Requests)
    /\ MaxActiveRequests \in Nat \ {0}
    /\ MaxChannels \in Nat \ {0}

VARIABLES
    reqs,            \* per request: where it is, and the channel it captured
    active,          \* keys of Server.activeRequests
    canceled,        \* requests whose context is canceled
    channels,        \* number of activeRequestsDone channels made so far
    closedChannels,  \* the ones that are closed
    shuttingDown, ready, storeClosed,
    listening,       \* net/http still accepts connections
    main,            \* the main goroutine
    watch,           \* Shutdown's watch goroutine
    graceOver,       \* the shutdown context is done
    waitingOn,       \* the channel waitActiveRequests captured, 0 for none
    shutdownErr

lifecycleVars == <<reqs, active, canceled, channels, closedChannels, shuttingDown, ready,
                   storeClosed, listening, main, watch, graceOver, waitingOn, shutdownErr>>

requestVars == <<reqs, active, canceled, channels, closedChannels>>

mainVars == <<shuttingDown, ready, storeClosed, listening, main, watch, graceOver,
              waitingOn, shutdownErr>>

\* direct: ServeHTTP was called by an embedding program and not by s.http, which
\* therefore does not wait for it.
Request == [pc : {"idle", "arrived", "handling", "returned"},
            done : 0..MaxChannels, direct : BOOLEAN]

MainPCs == {"serving", "mark", "cancel", "http", "enter", "wait", "join", "recancel",
            "closeStore", "close.mark", "close.cancel", "close.http", "close.store", "exited"}

\* Every variable has its type, and a channel is made before it is used.
LifecycleTypeOK ==
    /\ reqs \in [Requests -> Request]
    /\ \A q \in Requests : reqs[q].done =< channels
    /\ active \subseteq Requests /\ canceled \subseteq Requests
    /\ channels \in 0..MaxChannels /\ closedChannels \subseteq 0..MaxChannels
    /\ {shuttingDown, ready, storeClosed, listening, graceOver, shutdownErr} \subseteq BOOLEAN
    /\ main \in MainPCs /\ watch \in {"off", "watching", "told", "exited"}
    /\ waitingOn \in 0..MaxChannels

Idle == [pc |-> "idle", done |-> 0, direct |-> FALSE]

Set(q, r) == reqs' = [reqs EXCEPT ![q] = r]

\* ServeHTTP returns and cancels the request's own context; the slot is free again.
Leave(q) == Set(q, Idle) /\ canceled' = canceled \ {q}

-----------------------------------------------------------------------------
(* Requests.                                                               *)

Arrive(q, direct) ==
    /\ reqs[q].pc = "idle"
    /\ direct \/ listening
    /\ main # "exited"
    /\ Set(q, [pc |-> "arrived", done |-> 0, direct |-> direct])
    /\ UNCHANGED <<active, canceled, channels, closedChannels, mainVars>>

\* A forbidden host or origin, or the readiness probe during shutdown: answered
\* without being tracked.
ServeUntracked(q) ==
    /\ reqs[q].pc = "arrived"
    /\ Leave(q)
    /\ UNCHANGED <<active, channels, closedChannels, mainVars>>

\* Fault: every admission makes a new channel.
trackRequestAlwaysNew(q) ==
    /\ reqs[q].pc = "arrived"
    /\ ~shuttingDown /\ Cardinality(active) < MaxActiveRequests /\ channels < MaxChannels
    /\ channels' = channels + 1
    /\ Set(q, [reqs[q] EXCEPT !.pc = "handling", !.done = channels'])
    /\ active' = active \cup {q}
    /\ UNCHANGED <<canceled, closedChannels, mainVars>>

\* Fault: shutdown does not stop admission.
trackRequestLate(q) ==
    /\ reqs[q].pc = "arrived"
    /\ Cardinality(active) < MaxActiveRequests /\ channels < MaxChannels
    /\ channels' = IF active = {} THEN channels + 1 ELSE channels
    /\ Set(q, [reqs[q] EXCEPT !.pc = "handling", !.done = channels'])
    /\ active' = active \cup {q}
    /\ UNCHANGED <<canceled, closedChannels, mainVars>>

\* trackRequest under activeRequestsMu: 503, 429, or admission.
trackRequest(q) ==
    /\ reqs[q].pc = "arrived"
    /\ IF shuttingDown \/ Cardinality(active) >= MaxActiveRequests
       THEN Leave(q) /\ UNCHANGED <<active, channels>>
       ELSE /\ active = {} => channels < MaxChannels
            /\ channels' = IF active = {} THEN channels + 1 ELSE channels
            /\ Set(q, [reqs[q] EXCEPT !.pc = "handling", !.done = channels'])
            /\ active' = active \cup {q}
            /\ UNCHANGED canceled
    /\ UNCHANGED <<closedChannels, mainVars>>

\* route, writeFallbackIfNeeded and logRequest are over.
HandlerReturns(q) ==
    /\ reqs[q].pc = "handling"
    /\ Set(q, [reqs[q] EXCEPT !.pc = "returned"])
    /\ UNCHANGED <<active, canceled, channels, closedChannels, mainVars>>

\* The deferred unregister: the last one out closes the channel it captured.
unregister(q) ==
    /\ reqs[q].pc = "returned"
    /\ active' = active \ {q}
    /\ closedChannels' = IF active = {q} THEN closedChannels \cup {reqs[q].done}
                                         ELSE closedChannels
    /\ Leave(q)
    /\ UNCHANGED <<channels, mainVars>>

ClientGone(q) ==
    /\ reqs[q].pc # "idle"
    /\ q \notin canceled
    /\ canceled' = canceled \cup {q}
    /\ UNCHANGED <<reqs, active, channels, closedChannels, mainVars>>

-----------------------------------------------------------------------------
(* The main goroutine: Run, Shutdown, Close.                               *)

Main(from, to) == main = from /\ main' = to

\* A signal leads to Shutdown, an error of Serve straight to the deferred Close.
Signal ==
    /\ Main("serving", "mark")
    /\ UNCHANGED <<requestVars, shuttingDown, ready, storeClosed, listening, watch,
                   graceOver, waitingOn, shutdownErr>>

ServeFails ==
    /\ Main("serving", "close.mark")
    /\ listening' = FALSE
    /\ UNCHANGED <<requestVars, shuttingDown, ready, storeClosed, watch,
                   graceOver, waitingOn, shutdownErr>>

\* ready.Store(false) and markShuttingDown, in Shutdown and in Close.
markShuttingDown ==
    /\ Main("mark", "cancel") \/ Main("close.mark", "close.cancel")
    /\ ready' = FALSE
    /\ shuttingDown' = TRUE
    /\ UNCHANGED <<requestVars, storeClosed, listening, watch, graceOver, waitingOn, shutdownErr>>

\* cancelActiveRequests: a snapshot under the lock, then cancel each.  Shutdown starts
\* its watch goroutine next.
cancelActiveRequests ==
    /\ \/ Main("cancel", "http") /\ watch' = "watching"
       \/ Main("recancel", "closeStore") /\ UNCHANGED watch
       \/ Main("close.cancel", "close.http") /\ UNCHANGED watch
    /\ canceled' = canceled \cup active
    /\ listening' = (listening /\ main # "recancel")
    /\ UNCHANGED <<reqs, active, channels, closedChannels, shuttingDown, ready, storeClosed,
                   graceOver, waitingOn, shutdownErr>>

\* http.Server.Shutdown: stop listening at once, then wait for every connection.
httpShutdownBegins ==
    /\ main = "http" /\ listening
    /\ listening' = FALSE
    /\ UNCHANGED <<requestVars, shuttingDown, ready, storeClosed, main, watch, graceOver,
                   waitingOn, shutdownErr>>

\* Fault: the wait for connections ignores the grace period.
httpShutdownPatient ==
    /\ ~listening
    /\ \A q \in Requests : reqs[q].pc = "idle" \/ reqs[q].direct
    /\ Main("http", "enter")
    /\ UNCHANGED <<requestVars, shuttingDown, ready, storeClosed, listening, watch,
                   graceOver, waitingOn, shutdownErr>>

httpShutdownReturns ==
    /\ ~listening
    /\ \/ /\ \A q \in Requests : reqs[q].pc = "idle" \/ reqs[q].direct
          /\ Main("http", "enter")
          /\ UNCHANGED shutdownErr
       \/ graceOver /\ Main("http", "join") /\ shutdownErr' = TRUE
    /\ UNCHANGED <<requestVars, shuttingDown, ready, storeClosed, listening, watch,
                   graceOver, waitingOn>>

\* Fault: the wait is skipped.
waitSkipped ==
    /\ Main("enter", "join")
    /\ UNCHANGED <<requestVars, shuttingDown, ready, storeClosed, listening, watch, graceOver,
                   shutdownErr, waitingOn>>

\* waitActiveRequests: the channel is read under the lock and waited for outside.
waitActiveRequests ==
    /\ \/ active = {} /\ Main("enter", "join") /\ UNCHANGED waitingOn
       \/ active # {} /\ Main("enter", "wait") /\ waitingOn' = channels
    /\ UNCHANGED <<requestVars, shuttingDown, ready, storeClosed, listening, watch, graceOver,
                   shutdownErr>>

waitReturns ==
    /\ Main("wait", "join")
    /\ \/ waitingOn \in closedChannels /\ UNCHANGED shutdownErr
       \/ graceOver /\ shutdownErr' = TRUE
    /\ UNCHANGED <<requestVars, shuttingDown, ready, storeClosed, listening, watch, graceOver,
                   waitingOn>>

\* close(shutdownWatchDone), then <-shutdownWatchExited.
tellWatch ==
    /\ main = "join" /\ watch = "watching"
    /\ watch' = "told"
    /\ UNCHANGED <<requestVars, shuttingDown, ready, storeClosed, listening, main, graceOver,
                   waitingOn, shutdownErr>>

joinWatch ==
    /\ watch = "exited"
    /\ Main("join", IF shutdownErr THEN "recancel" ELSE "closeStore")
    /\ UNCHANGED <<requestVars, shuttingDown, ready, storeClosed, listening, watch, graceOver,
                   waitingOn, shutdownErr>>

\* closeContinuations, once: at the end of Shutdown, or of Close.
closeContinuations ==
    /\ Main("closeStore", "close.mark") \/ Main("close.store", "exited")
    /\ storeClosed' = TRUE
    /\ UNCHANGED <<requestVars, shuttingDown, ready, listening, watch, graceOver, waitingOn,
                   shutdownErr>>

httpClose ==
    /\ Main("close.http", "close.store")
    /\ listening' = FALSE
    /\ UNCHANGED <<requestVars, shuttingDown, ready, storeClosed, watch, graceOver, waitingOn,
                   shutdownErr>>

-----------------------------------------------------------------------------
(* The watch goroutine and the grace period.                               *)

\* Its select: the context is done, or Shutdown has no more use for it.
watchExits ==
    /\ \/ watch \in {"watching", "told"} /\ graceOver /\ canceled' = canceled \cup active
       \/ watch = "told" /\ UNCHANGED canceled
    /\ watch' = "exited"
    /\ UNCHANGED <<reqs, active, channels, closedChannels, shuttingDown, ready, storeClosed,
                   listening, main, graceOver, waitingOn, shutdownErr>>

\* The shutdown context exists from the signal on.
GraceEnds ==
    /\ main \notin {"serving", "exited"} /\ ~graceOver
    /\ graceOver' = TRUE
    /\ UNCHANGED <<requestVars, shuttingDown, ready, storeClosed, listening, main, watch,
                   waitingOn, shutdownErr>>

-----------------------------------------------------------------------------

LifecycleInit ==
    /\ reqs = [q \in Requests |-> Idle]
    /\ active = {} /\ canceled = {}
    /\ channels = 0 /\ closedChannels = {0}      \* closedSignal()
    /\ shuttingDown = FALSE /\ ready = TRUE /\ storeClosed = FALSE /\ listening = TRUE
    /\ main = "serving" /\ watch = "off" /\ graceOver = FALSE
    /\ waitingOn = 0 /\ shutdownErr = FALSE

MainStep ==
    \/ markShuttingDown
    \/ cancelActiveRequests
    \/ httpShutdownBegins
    \/ httpShutdownReturns
    \/ waitActiveRequests
    \/ waitReturns
    \/ tellWatch
    \/ joinWatch
    \/ closeContinuations
    \/ httpClose

LifecycleNext ==
    \/ \E q \in Requests :
          \/ \E direct \in BOOLEAN : Arrive(q, direct)
          \/ ServeUntracked(q)
          \/ trackRequest(q)
          \/ HandlerReturns(q)
          \/ unregister(q)
          \/ ClientGone(q)
    \/ Signal
    \/ ServeFails
    \/ MainStep
    \/ watchExits
    \/ GraceEnds

LifecycleSpec == LifecycleInit /\ [][LifecycleNext]_lifecycleVars

\* The gateway's own goroutines run and time passes; handlers promise nothing.
LifecycleFairSpec ==
    /\ LifecycleSpec
    /\ WF_lifecycleVars(MainStep)
    /\ WF_lifecycleVars(watchExits)
    /\ WF_lifecycleVars(GraceEnds)

-----------------------------------------------------------------------------
(* Properties.                                                             *)

\* activeRequestsDone is open exactly while requests are active, and every active
\* request captured that very channel: the last one out closes it, no channel is closed
\* twice (Go would panic), and waitActiveRequests never waits for a stale one.  Active
\* are exactly the requests between trackRequest and unregister, at most MaxActiveRequests.
DoneSignal ==
    /\ active = {q \in Requests : reqs[q].pc \in {"handling", "returned"}}
    /\ Cardinality(active) =< MaxActiveRequests
    /\ channels \in closedChannels <=> active = {}
    /\ \A q \in active : reqs[q].done = channels

\* Once Shutdown (or Close) has canceled, no active request is left with a live
\* context, however its admission raced with the signal (markShuttingDown before
\* cancelActiveRequests).
ShutdownCancelsAll ==
    main \notin {"serving", "mark", "cancel", "close.mark", "close.cancel"} => active \subseteq canceled

\* A shutdown that reports no error closes the continuation store only after the last
\* handler left; and the store is never closed under a handler whose context is alive.
StoreOutlivesHandlers ==
    /\ main = "closeStore" /\ ~shutdownErr => active = {}
    /\ storeClosed => active \subseteq canceled

\* The process ends after a signal or a Serve error even if handlers never return.
ShutdownEnds == main # "serving" ~> main = "exited"
================================================================================
