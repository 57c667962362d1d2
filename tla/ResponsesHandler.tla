--------------------------- MODULE ResponsesHandler ---------------------------
(***************************************************************************)
(* POST /v1/responses (internal/server/responses.go): the handler goroutine*)
(* of each request, the streamWatcher goroutine it starts, and the one     *)
(* continuation store they share.                                          *)
(*                                                                         *)
(* Between any two steps of a handler the client may leave, the server may *)
(* start to shut down, the idle timer may fire, the clock may move and     *)
(* other handlers may run.  The steps are the points where the handler     *)
(* looks at something another goroutine writes: the request context, the   *)
(* watcher's reason, the store, the upstream body.                         *)
(*                                                                         *)
(* The decoder and the session are used through what they promise: the     *)
(* decoder reports every failure as a Failed event and nothing after a     *)
(* terminal one; a session write succeeds, or fails for good.  JSON bodies *)
(* are reduced to the fact that one was sent.                              *)
(***************************************************************************)
EXTENDS ContinuationStore

CONSTANTS
    MaxDeltas,   \* bound on the non-terminal events of one upstream stream
    NoTurn

ASSUME HandlerAssumption == MaxDeltas \in Nat /\ NoTurn \notin Turns

VARIABLES
    reqs,          \* per request slot, its handler, session, watcher and body
    shuttingDown   \* Server.shuttingDown

handlerVars == <<store, leases, clock, reqs, shuttingDown>>

\* What the decoder returns.  Failed is a failure the provider caused; Interrupted
\* is a Failed event too: a read that the gateway itself broke off.
EventKinds == {"ResponseStarted", "Delta", "Completed", "Incomplete", "Failed"}

\* The terminal event a session emitted: the last four are response.failed.
Terminals == {"none", "completed", "incomplete",
              "failed", "timeout", "interrupted", "continuation"}

PCs == {"idle", "decode", "timeout", "begin", "do", "start", "next", "check",
        "save", "handle", "commit", "defers", "fallback"}

Handler ==
    [pc       : PCs,
     ctxErr   : BOOLEAN,                         \* r.Context() is canceled
     timedOut : BOOLEAN,                         \* by a body read that met its deadline
     results  : ResultSets \cup {<< >>},
     reply    : {"none", "json", "stream"},      \* what WriteHeader committed to
     terminal : Terminals,
     writeFailure : BOOLEAN,
     event    : EventKinds \cup {"none", "Interrupted"},
     turn     : Turns \cup {NoTurn},             \* PendingTurn of a Completed event
     started  : BOOLEAN,                         \* the decoder saw a first chunk
     deltas   : 0..MaxDeltas,
     accepted : BOOLEAN,
     watcher  : {"off", "watching", "noted", "done"},
     stopped  : BOOLEAN,                         \* watcher.stop is closed
     reason   : {"", "canceled", "timeout", "stream_interrupted"},
     body     : {"none", "open", "closed"}]      \* the upstream response body

Idle ==
    [pc |-> "idle", ctxErr |-> FALSE, timedOut |-> FALSE, results |-> << >>, reply |-> "none",
     terminal |-> "none", writeFailure |-> FALSE, event |-> "none", turn |-> NoTurn,
     started |-> FALSE, deltas |-> 0, accepted |-> TRUE, watcher |-> "off",
     stopped |-> FALSE, reason |-> "", body |-> "none"]

\* Every request slot holds a well-formed handler state; in particular an upstream body
\* is never open without a watcher that was started for it.
HandlerTypeOK ==
    /\ reqs \in [Requests -> Handler] /\ shuttingDown \in BOOLEAN /\ TypeOK
    /\ \A q \in Requests : reqs[q].body = "open" => reqs[q].watcher # "off"

-----------------------------------------------------------------------------

Set(q, h) == reqs' = [reqs EXCEPT ![q] = h]

At(q, pc) == reqs[q].pc = pc

Goto(h, pc) == [h EXCEPT !.pc = pc]

\* Return from the handler: the deferred calls run, watcher.Stop first.  What only
\* the loop needed is forgotten.
Return(h) ==
    [h EXCEPT !.pc = "defers", !.stopped = TRUE, !.results = << >>, !.event = "none",
              !.turn = NoTurn, !.started = FALSE, !.deltas = 0, !.accepted = TRUE]

\* The client has left, or shutdown has reached the request.
Abandoned(h) == h.ctxErr /\ ~h.timedOut

\* statusWriter drops what is written once the context is canceled, unless the
\* write is one that was allowed in spite of that.
writeJSON(h, allowCanceledWrite) ==
    IF h.ctxErr /\ ~allowCanceledWrite THEN h ELSE [h EXCEPT !.reply = "json"]

\* An error answer; which status and code it has is left out.
JSONError(h) == Return(writeJSON(h, FALSE))

\* Fault: the answer to a body timeout is written like any other.
writeJSONErrorInContext(h) == Return(writeJSON(h, FALSE))

\* The failed read has canceled the context of a client that still waits, so this
\* answer is allowed all the same, unless shutdown was marked first.
writeJSONErrorAfterBodyTimeout(h) ==
    Return(IF shuttingDown THEN h ELSE writeJSON(h, TRUE))

\* Whether a tool, an input item or an option is one the gateway supports depends on
\* the request alone, which may be any: it is accepted or answered with an error.
validateResponsesRequest(h) == {h, JSONError(h)}

\* Client.Do: every error path closes the response body before it returns, so that
\* the caller has a body only on success.
upstreamDo(h) == {h, [h EXCEPT !.body = "open"]}

\* The status and media type of what Do returned are looked at again; a response
\* that is refused is closed.
validateUpstreamResponse(h) ==
    {h} \cup IF h.body = "open" THEN {[h EXCEPT !.body = "closed"]} ELSE {}

\* Every session write checks the context first; a write or flush may fail.
Writes(h, written) ==
    {[h EXCEPT !.writeFailure = TRUE]} \cup (IF h.ctxErr THEN {} ELSE {written})

\* session.Fail, unless a terminal event or a write failure came first.
Fail(h, code) ==
    IF h.terminal # "none" \/ h.writeFailure THEN {Return(h)}
    ELSE {Return(w) : w \in Writes(h, [h EXCEPT !.terminal = code])}

-----------------------------------------------------------------------------
(* The handler.                                                            *)

\* ServeHTTP admits no request once shutdown is marked (trackRequest).
Arrive(q, results) ==
    /\ At(q, "idle")
    /\ ~shuttingDown
    /\ Set(q, [Idle EXCEPT !.pc = "decode", !.results = results])
    /\ UNCHANGED <<store, leases, clock, shuttingDown>>

\* Reading and decoding the body, the tool registry and TranslateToolResults.  A read
\* that meets its deadline makes net/http cancel the context before the read returns.
DecodeRequest(q) ==
    LET h == reqs[q]
    IN /\ At(q, "decode")
       /\ \/ h.ctxErr /\ Set(q, Return(h))
          \/ Set(q, JSONError(h))
          \/ Set(q, [h EXCEPT !.pc = "timeout", !.ctxErr = TRUE, !.timedOut = TRUE])
          \/ ~h.ctxErr /\ Set(q, Goto(h, "begin"))
       /\ UNCHANGED <<store, leases, clock, shuttingDown>>

\* handleResponses has told the timeout from a cancellation (requestDecodeWasCanceled,
\* isRequestBodyTimeout); shutdown may have been marked meanwhile.
AnswerTimeout(q) ==
    /\ At(q, "timeout")
    /\ Set(q, writeJSONErrorAfterBodyTimeout(reqs[q]))
    /\ UNCHANGED <<store, leases, clock, shuttingDown>>

\* continuations.Begin; a request without results has nothing to accept.
BeginLease(q) ==
    LET h == [reqs[q] EXCEPT !.results = << >>]
        results == reqs[q].results
    IN /\ At(q, "begin")
       /\ \/ /\ results = << >>
             /\ Set(q, Goto(h, "do"))
             /\ UNCHANGED <<store, leases, clock>>
          \/ /\ results # << >>
             /\ Begin(q, results)
             /\ Set(q, IF leases'[q] # NoRecord
                       THEN Goto([h EXCEPT !.accepted = FALSE], "do")
                       ELSE JSONError(h))
          \/ /\ results # << >>
             /\ store.closed
             /\ Set(q, JSONError(h))
             /\ UNCHANGED <<store, leases, clock>>
       /\ UNCHANGED shuttingDown

\* Validation, resolveUpstream and the upstream call: each may fail.  On success the
\* session and the watcher exist before the context is looked at again.
Do(q) ==
    LET Watched(h) == [h EXCEPT !.watcher = "watching"]
    IN /\ At(q, "do")
       /\ \E v \in validateResponsesRequest(reqs[q]) :
             IF v.pc # "do" THEN Set(q, v)
             ELSE \E h \in UNION {validateUpstreamResponse(u) : u \in upstreamDo(v)} :
                     Set(q, IF h.body # "open" THEN JSONError(h)
                            ELSE IF h.ctxErr THEN Return(Watched(h))
                            ELSE Goto(Watched(h), "start"))
       /\ UNCHANGED <<store, leases, clock, shuttingDown>>

\* Fault: the lease is committed as soon as the downstream stream is open.
StartCommits(q) ==
    LET h == reqs[q]
    IN /\ At(q, "start")
       /\ ~h.ctxErr
       /\ Set(q, Goto([h EXCEPT !.reply = "stream"], IF h.accepted THEN "next" ELSE "commit"))
       /\ UNCHANGED <<store, leases, clock, shuttingDown>>

\* session.Start: WriteHeader(200), response.created, response.in_progress.
Start(q) ==
    LET h == reqs[q]
        headed == IF h.ctxErr THEN h ELSE [h EXCEPT !.reply = "stream"]
    IN /\ At(q, "start")
       /\ \E w \in Writes(headed, headed) :
             Set(q, IF w.writeFailure THEN Return(w) ELSE Goto(w, "next"))
       /\ UNCHANGED <<store, leases, clock, shuttingDown>>

\* streamDecoder.Next when the provider has sent something, perhaps some time ago:
\* events already buffered outlive the body.  The first chunk is a response start.
NextEvent(q, kind, turn) ==
    LET h == reqs[q]
    IN /\ At(q, "next")
       /\ kind = "ResponseStarted" => ~h.started
       /\ kind \in {"Delta", "Completed", "Incomplete"} => h.started
       /\ kind = "Delta" => h.deltas < MaxDeltas
       /\ turn # NoTurn => kind = "Completed"
       /\ Set(q, Goto([h EXCEPT !.event = kind, !.turn = turn,
                                !.started = h.started \/ kind = "ResponseStarted",
                                !.deltas = IF kind = "Delta" THEN @ + 1 ELSE @], "check"))
       /\ UNCHANGED <<store, leases, clock, shuttingDown>>

\* streamDecoder.Next when its read was broken off: the body was closed, or the
\* upstream context, a child of the request's, was canceled.
NextInterrupted(q) ==
    LET h == reqs[q]
    IN /\ At(q, "next")
       /\ h.body = "closed" \/ h.ctxErr
       /\ Set(q, Goto([h EXCEPT !.event = "Interrupted"], "check"))
       /\ UNCHANGED <<store, leases, clock, shuttingDown>>

\* Fault: the watcher's reason is not consulted.
CheckAbortContextOnly(q) ==
    LET h == reqs[q]
    IN /\ At(q, "check")
       /\ Set(q, IF h.ctxErr \/ h.writeFailure THEN Return(h)
                 ELSE Goto(h, IF h.turn # NoTurn THEN "save" ELSE "handle"))
       /\ UNCHANGED <<store, leases, clock, shuttingDown>>

\* After each event: was the stream aborted, and by whom?
CheckAbort(q) ==
    LET h == reqs[q]
    IN /\ At(q, "check")
       /\ \/ /\ h.reason = "timeout" /\ ~h.ctxErr
             /\ \E w \in Fail(h, "timeout") : Set(q, w)
          \/ /\ h.reason \in {"canceled", "stream_interrupted"} \/ h.ctxErr
             /\ Set(q, Return(h))
          \/ /\ h.reason = "" /\ ~h.ctxErr
             /\ Set(q, Goto(h, IF h.turn # NoTurn THEN "save" ELSE "handle"))
       /\ UNCHANGED <<store, leases, clock, shuttingDown>>

\* continuations.SaveContext, before the Completed event is handled.
SaveTurn(q) ==
    LET h == reqs[q]
    IN /\ At(q, "save")
       /\ \/ ~h.ctxErr /\ Saved(h.turn) /\ Set(q, Goto(h, "handle"))
          \/ /\ ~h.ctxErr /\ SaveRefused(h.turn, FALSE)
             /\ \E w \in Fail(h, "continuation") : Set(q, w)
          \/ /\ h.ctxErr
             /\ Set(q, Return(h))
             /\ UNCHANGED <<store, leases, clock>>
       /\ UNCHANGED shuttingDown

\* What session.Handle makes of the event.  A response start finds the session
\* started and writes nothing; a delta may be a text, a tool event or the like, it
\* may write nothing (reasoning, usage), or exceed a limit and fail the stream.
Handled(h) ==
    CASE h.event = "ResponseStarted" -> {h}
      [] h.event = "Delta" -> Writes(h, h) \cup {h} \cup Fail(h, "failed")
      [] h.event = "Completed" -> Writes(h, [h EXCEPT !.terminal = "completed"])
      [] h.event = "Incomplete" -> Writes(h, [h EXCEPT !.terminal = "incomplete"])
      [] h.event = "Failed" -> Writes(h, [h EXCEPT !.terminal = "failed"])
      [] h.event = "Interrupted" -> Writes(h, [h EXCEPT !.terminal = "interrupted"])

\* session.Handle, and whether this event accepts the continuation or ends it.
HandleEvent(q) ==
    LET h == reqs[q]
    IN /\ At(q, "handle")
       /\ \E w \in Handled(h) :
             Set(q, IF w.writeFailure \/ w.terminal # "none" THEN Return(w)
                    ELSE IF ~w.accepted /\ w.event = "ResponseStarted" THEN Goto(w, "commit")
                    ELSE Goto([w EXCEPT !.event = "none"], "next"))
       /\ UNCHANGED <<store, leases, clock, shuttingDown>>

\* Will finishContext(commit) return nil?
Committable(r) ==
    /\ ~store.closed
    /\ store.heap[r].status = "consuming"
    /\ clock < store.heap[r].expiresAt

\* lease.CommitContext once the provider has started its response.
CommitLease(q) ==
    LET h == reqs[q]
    IN /\ At(q, "commit")
       /\ \/ /\ h.ctxErr
             /\ Set(q, Return(h))
             /\ UNCHANGED <<store, leases, clock>>
          \/ /\ ~h.ctxErr
             /\ CommitContext(q)
             /\ IF Committable(leases[q])
                THEN Set(q, Goto([h EXCEPT !.accepted = TRUE, !.event = "none"], "next"))
                ELSE \E w \in Fail(h, "continuation") : Set(q, w)
       /\ UNCHANGED shuttingDown

-----------------------------------------------------------------------------
(* The deferred calls, and the end of ServeHTTP.                           *)

\* Fault: Stop does not wait for the watcher to exit.
DeferredAtOnce(q) ==
    LET h == reqs[q]
    IN /\ At(q, "defers")
       /\ IF leases[q] # NoRecord THEN Abort(q) ELSE UNCHANGED <<store, leases, clock>>
       /\ Set(q, [h EXCEPT !.pc = "fallback",
                           !.body = IF h.body = "open" THEN "closed" ELSE h.body])
       /\ UNCHANGED shuttingDown

\* watcher.Stop waits for the watcher, if there is one; then bodyCloser.Close and
\* lease.Abort, a no-op on a lease that was committed.
Deferred(q) ==
    LET h == reqs[q]
    IN /\ At(q, "defers")
       /\ h.watcher \in {"off", "done"}
       /\ IF leases[q] # NoRecord THEN Abort(q) ELSE UNCHANGED <<store, leases, clock>>
       /\ Set(q, [h EXCEPT !.pc = "fallback",
                           !.body = IF h.body = "open" THEN "closed" ELSE h.body])
       /\ UNCHANGED shuttingDown

\* writeFallbackIfNeeded and unregister; the slot is free for another request.
EndRequest(q) ==
    /\ At(q, "fallback")
    /\ Set(q, Idle)
    /\ UNCHANGED <<store, leases, clock, shuttingDown>>

-----------------------------------------------------------------------------
(* The watcher goroutine.                                                  *)

\* One select of run picks an abort; interrupt records the reason first.  The idle
\* timer may fire at any moment, whatever else is ready.
WatcherNote(q, reason) ==
    LET h == reqs[q]
    IN /\ h.watcher = "watching"
       /\ reason = "canceled" => h.ctxErr
       /\ reason = "stream_interrupted" => h.writeFailure
       /\ Set(q, [h EXCEPT !.watcher = "noted", !.reason = reason])
       /\ UNCHANGED <<store, leases, clock, shuttingDown>>

\* cancel and closeBody.
WatcherAbort(q) ==
    LET h == reqs[q]
    IN /\ h.watcher = "noted"
       /\ Set(q, [h EXCEPT !.watcher = "done", !.body = "closed"])
       /\ UNCHANGED <<store, leases, clock, shuttingDown>>

\* Fault: a watcher that only ends by aborting.
WatcherNeverStopped(q) ==
    /\ reqs[q].watcher = "noted"
    /\ reqs[q].stopped
    /\ UNCHANGED handlerVars

\* The stop case of run's select.
WatcherStopped(q) ==
    LET h == reqs[q]
    IN /\ h.watcher = "watching"
       /\ h.stopped
       /\ Set(q, [h EXCEPT !.watcher = "done"])
       /\ UNCHANGED <<store, leases, clock, shuttingDown>>

-----------------------------------------------------------------------------
(* The environment: clients and the server's lifecycle.                    *)

\* The client leaves, or cancelActiveRequests reaches the request.
CancelRequest(q) ==
    /\ reqs[q].pc # "idle"
    /\ ~reqs[q].ctxErr
    /\ Set(q, [reqs[q] EXCEPT !.ctxErr = TRUE])
    /\ UNCHANGED <<store, leases, clock, shuttingDown>>

markShuttingDown ==
    /\ ~shuttingDown
    /\ shuttingDown' = TRUE
    /\ UNCHANGED <<store, leases, clock, reqs>>

\* closeContinuations: every request was canceled before, but may still run.
CloseContinuations ==
    /\ shuttingDown
    /\ \A q \in Requests : reqs[q].pc = "idle" \/ reqs[q].ctxErr
    /\ Close
    /\ UNCHANGED <<reqs, shuttingDown>>

\* The store's own goroutine, on a ticker until the store is closed; the wall clock.
StoreTick == CleanupTick /\ UNCHANGED <<reqs, shuttingDown>>

ClockStep == Tick /\ UNCHANGED <<reqs, shuttingDown>>

-----------------------------------------------------------------------------

HandlerInit ==
    /\ Init
    /\ reqs = [q \in Requests |-> Idle]
    /\ shuttingDown = FALSE

\* The steps a handler goroutine takes by itself.
HandlerStep(q) ==
    \/ DecodeRequest(q)
    \/ AnswerTimeout(q)
    \/ BeginLease(q)
    \/ Do(q)
    \/ Start(q)
    \/ NextInterrupted(q)
    \/ CheckAbort(q)
    \/ SaveTurn(q)
    \/ HandleEvent(q)
    \/ CommitLease(q)
    \/ Deferred(q)
    \/ EndRequest(q)

HandlerNext ==
    \/ \E q \in Requests :
          \/ \E results \in ResultSets \cup {<< >>} : Arrive(q, results)
          \/ \E kind \in EventKinds, turn \in Turns \cup {NoTurn} : NextEvent(q, kind, turn)
          \/ HandlerStep(q)
          \/ \E reason \in {"canceled", "timeout", "stream_interrupted"} : WatcherNote(q, reason)
          \/ WatcherAbort(q)
          \/ WatcherStopped(q)
          \/ CancelRequest(q)
    \/ markShuttingDown
    \/ CloseContinuations
    \/ StoreTick
    \/ ClockStep

HandlerSpec == HandlerInit /\ [][HandlerNext]_handlerVars

\* Goroutines run; the provider is not obliged to send anything, but the transport
\* bounds Do, and the idle timer fires on a stream that stays silent.  Every byte the
\* body reads resets that timer (activityBody.Read), so this is a promise about a
\* provider that does not send bytes without events, comment lines say, for ever.
Silent(q) == At(q, "next") /\ WatcherNote(q, "timeout")

HandlerFairSpec ==
    /\ HandlerSpec
    /\ WF_handlerVars(StoreTick)
    /\ \A q \in Requests :
          /\ WF_handlerVars(HandlerStep(q))
          /\ WF_handlerVars(Silent(q))
          /\ WF_handlerVars(WatcherAbort(q))
          /\ WF_handlerVars(WatcherStopped(q))

-----------------------------------------------------------------------------
(* Properties.                                                             *)

\* handleResponses leaves no client that is still there without exactly one complete
\* answer: an error body, or a stream with a terminal event (or one whose write
\* failed).  A client whose body came too late is one of them, although its context is
\* canceled: it goes unanswered only if shutdown was marked before its answer was
\* admitted.  In particular writeFallbackIfNeeded never has to write its 500.
Answered ==
    \A q \in Requests :
       LET h == reqs[q]
       IN h.pc = "fallback" /\ ~Abandoned(h) =>
             \/ h.reply = "json" /\ h.terminal = "none"
             \/ h.reply = "stream" /\ (h.terminal # "none" \/ h.writeFailure)
             \/ h.reply = "none" /\ h.timedOut /\ shuttingDown

\* A client is never told that the provider broke off a stream which the gateway
\* itself aborted: streamWatcher.interrupt publishes its reason before it cancels
\* and closes, and the handler reads it after every event.
AbortAttributed == \A q \in Requests : reqs[q].terminal # "interrupted"

\* When the handler is done, its lease is settled, its watcher has exited and the
\* upstream body is closed, whichever early return it took; and a turn is held
\* only by a request that is being served.
Released ==
    \A q \in Requests :
       LET h == reqs[q]
       IN h.pc \in {"idle", "fallback"} =>
             leases[q] = NoRecord /\ h.body # "open" /\ h.watcher \in {"off", "done"}

\* A turn is consumed only for a request whose provider has started to answer and
\* whose client is still there; any earlier failure leaves it for a retry.
ConsumedAfterStart ==
    [][\A q \in Requests :
         LET r == leases[q]
         IN r # NoRecord /\ r \in Live(store)
            /\ store.heap[r].status = "consuming" /\ store'.heap[r].status = "consumed"
            => reqs[q].started /\ reqs[q].reply = "stream" /\ ~reqs[q].ctxErr]_handlerVars

\* Every admitted request ends whose provider falls silent or ends its stream: silence
\* is timed out, and no handler waits for a watcher that waits for it.  There is
\* deliberately no total timeout (docs/configuration.md): a stream that is kept alive
\* by bytes without events lasts until its client leaves, and is not among the
\* behaviours of HandlerFairSpec.
HandlerReturns == \A q \in Requests : reqs[q].pc # "idle" ~> reqs[q].pc = "idle"
================================================================================
