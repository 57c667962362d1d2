# A TLA+ development for opencode-go-gateway

The gateway is a local HTTP server that lets Codex, which speaks the OpenAI
*Responses* protocol, talk to providers that speak *chat completions*. A request
comes in on `POST /v1/responses`, is translated, sent upstream, and the provider's
SSE stream is decoded, checked and re-encoded as a Responses stream. When the
provider asks for tool calls, the gateway retains its side of the assistant turn
in memory until the client comes back with the tool results. Around this core
there are a credential store, an installer that edits the files of the Codex home,
and a few read-only tools.

The modules below model the parts of the program that have state which several
steps, goroutines or processes touch. They are checked with TLC on small
instances. The safety properties of nine of them - the continuation store, the
handlers that use it, the stream session, the upstream decoder, the event loop that
joins these two, the server lifecycle, the credential store, setup and the capture
server - are proved with TLAPS for every instance.

## 1. Inventory

| Part | Source | State | Operations | Talks to | What is hard | Correct when |
|---|---|---|---|---|---|---|
| Continuation store | `internal/opencodego/continuation.go` | records by key, key by call ID, tombstones, byte total, closed flag; leases with a pointer to their record | Save, Lookup, Begin, Commit, Abort, cleanup goroutine, Close | responses handler | leases outlive the records they point at; call IDs are reused; three deadlines; three limits | a turn is held by one request at a time and consumed at most once; indexes, bytes and records agree; limits hold; nothing overdue stays |
| Responses handler | `internal/server/responses.go`, `internal/opencodego/client.go` | per request: lease, upstream body, session, watcher and its reason | one pass through `handleResponses`, the watcher's `run`/`interrupt`/`Stop` | all of the stream parts, the store, the server | cancellation, idle timeout, write failure and shutdown between any two steps; twenty early returns | every client still there gets one complete answer, with the right cause; lease, body and watcher are always released; a turn is consumed only after the provider answered |
| Stream session | `internal/codex/stream.go` | envelope flags, items in order, four byte counters, sticky write failure | Start, Handle (11 event kinds), Complete, Incomplete, Fail, limit and transition errors | handler, HTTP writer | any event order, limits in mid-item, failing writes | one envelope, each item closed once and before the one terminal event |
| Bridge decoder | `internal/opencodego/stream.go` | queued events, tool calls by (choice, index), finish reasons, budgets | Next, chunk consumption, finish, PendingTurn | SSE decoder, handler | fragments of several calls interleaved, trailing data, disagreeing finish reasons, failing halfway | one terminal event, last; a completed tool turn is whole; budgets hold |
| SSE decoder | `internal/opencodego/sse.go` | fields of the pending event, bytes, sticky error | Next | upstream body | cuts anywhere, limits | a cut is never a completion |
| Server lifecycle | `internal/server/server.go`, `internal/app/app.go` | active requests, generation channel, shutdown flags, listener | admission, unregister, Shutdown with its watch goroutine, Close, Run | handlers, store | admission racing shutdown, generations of the done channel, grace period | every request admitted is cancelled, no channel is closed twice, the store outlives the handlers of a clean shutdown, the process ends |
| Credential store | `internal/credentials/*.go`, `cmd/opencode-gateway/main.go` | one key in a file, one in the keyring | Save, Load, Remove, Status | keyring helper, file system | two backends, the keyring comes and goes, kills | a saved key takes effect; a running load never misses a key that is being moved; a removed key is gone |
| Codex setup | `internal/codexsetup/setup.go` | five files, backup directories, temporaries | SetupCodex, RestoreBackup | file system, Codex | failing writes, failing rollback, kills, outside edits | all or nothing, never without a backup, backups restorable |
| Request decoder and translation | `internal/codex/request.go`, `internal/opencodego/{request,tool_results,tool_budget,custom_tool}.go`, `internal/bridge` | none of their own; they read the lease's copy of the turn | decode, registry, tool results, checks, mapping | handler, store | five layers of checks over the same items; items in any order; the turn may be held, spent or gone | exactly the documented requests are accepted, the provider sees the retained turn once and unaltered, a refusal tells the truth |
| Capture server | `internal/capture/{server,response}.go`, `cmd/.../main.go` | a counter and a mutex per process; fixtures and lock files in a shared directory | Listen, ServeHTTP (number, stream, persist, release), Close | other capture processes through the directory | several processes, kills that leave locks, any file operation failing | numbers are never shared, no fixture is lost to a collision, every request ends |
| TOML editor, catalog, doctor, redaction, configuration, health, scripts | `internal/codexsetup/*`, `internal/config`, ... | none, or files written once | parsing, formatting, reading | - | text | not modelled: text processing and read-only tools |

`PROJECT.json` lists the hazards, each at its line with the properties that cover
it.

## 2. Modules

* **ContinuationStore** - the store. `store` is the record of the fields under
  `store.mu`; `heap` holds the `continuationRecord` objects, which have an identity
  because a lease points at one; `leases[q]` is that pointer. Every exported
  operation locks the mutex for its whole length, so each is one action. The
  `*Locked` helpers are functions from store to store with the same names and order.
  Map iteration order matters in one place, when the tombstone cap is reached:
  `EntombChoices` lets any call IDs win. `BlankRecord`/`Unreferenced` stand for
  allocation and garbage collection. The clock is the wall clock: `UTC()` strips the
  monotonic reading, so `Tick` may also step back.
* **TurnCustody** - what the store promises: a turn is absent, offered, held by
  one holder, or consumed. `CustodySpec` is the refinement (`INSTANCE ... WITH`
  the phase of each record and the request whose lease points at it).
* **ResponsesHandler** - extends the store by the handlers. A step ends where the
  handler looks at something that another goroutine writes: the request context, the
  watcher's reason, the store, the body. `Return` runs the deferred calls in their order
  (`watcher.Stop` waits, then the body, then `lease.Abort`). The decoder and the
  session appear through what they promise (checked by their own modules): a terminal
  event comes once and last; a session write succeeds or fails for good. A body that
  misses its deadline cancels the request's context (net/http does, when a background
  read meets the deadline), and the answer to it (`writeJSONErrorAfterBodyTimeout`) is
  the one write that may follow a cancellation, unless shutdown was marked before it was
  admitted: `timedOut` tells such a context from that of a client that left, and
  `AnswerTimeout` is a step of its own because shutdown may be marked in between.
* **StreamSession** - the session. `Handle` is one action because the session holds
  its mutex; every write inside may fail. `wire` is what reached the client.
  Events are offered in any order, well-formed or not, since the type promises to
  refuse the wrong ones.
* **SSEDecoder**, **BridgeStreamDecoder** - the upstream side; the second extends the
  first. One action reads one line (or the end, or an error) and does all the
  decoding that follows from it. A Go method that returns early with an error is a
  function on the decoder record that stops at the first error (`Then`, `Require`).
  Identifiers, names and arguments are sequences of letters, so prefixes, growth and
  lengths mean what they mean in the code. JSON is the table `ChunkOf`.
* **GatewayStream** - the event loop of the handler over both of them: extends
  BridgeStreamDecoder and holds a StreamSession (`S == INSTANCE ...`). One step lets
  the decoder go on; the event it returns, if any, is handed to the session as the
  code hands it, with the turn retained in between. Key, call ID, name and
  sizes of the session's event are those of the decoder's.
* **RequestMapping** - the way in: extends the store by `Decode`, the tool registry,
  `TranslateToolResults`, `Begin`, the handler's checks and `MapRequest`, each a
  function to the first error it returns. Decoding and mapping touch nothing that
  others see and share a step with the store operation next to them; the lease's copy
  of the turn is taken at `Begin` and mapped in a later step. Provider
  call IDs are values apart from the client's, so that a mix-up would show. The model of
  a turn is whatever its provider named (`ModelOf`); the store refuses to retain a turn
  without one (`normalizePendingTurn`), and a turn of a model that is neither backend's is
  retained, but its continuation is refused and the lease returned. Which
  JSON texts are well formed, message texts, error markers and statuses are left out.
* **CaptureServer** - capture processes that share a directory. Every file operation
  another process can see is a step and may fail; `Exit` is a kill as well as the
  end of `main`, which does not wait for handlers.
* **ServerLifecycle** - admission and shutdown; one action per critical section or
  blocking call. A request may reach `ServeHTTP` through the listener or `direct`ly
  (as tests and embedding programs do), which is why `waitActiveRequests` exists next
  to `http.Server.Shutdown`.
* **CredentialStore** - every call to a backend is a step of its own, with one writing
  command and one loader (the gateway starting) side by side. On Windows there is no
  keyring, and a file that cannot be renamed over is removed before a second rename; the
  step between the two (`RenameAgain`) is where a kill loses the key, and `SaveKeepsOne`
  names it as its one exception. A store without a file path (no user configuration
  directory) is left out: only the keyring branch of each command would remain.
* **CodexSetup** - every file operation that changes something is a step and may fail.
  Setup reads its files in one step: an edit of one file while it reads is then an edit
  before or after all reads, which is the same to setup as long as no second file changes.
* **MC...** - instances for TLC.
* **...Proofs** - the theorems of the module they are named after; **ResponsesHandlerProofs**
  those of the store as well, **ServerProofs** those of the two HTTP servers,
  ServerLifecycle and CaptureServer; **FiniteFacts** - what they share about finite sets
  and sums (section 5).

Definitions keep the names of the source. Definitions whose comment starts with
"Fault:" are wrong variants of the definition they precede. No specification uses
them: each is substituted, one at a time, to see that the property named in
`PROJECT.json` notices.

## 3. Runs

| Run | Shows |
|---|---|
| `store` | indexes, bytes, limits and custody under two racing requests, the cleanup goroutine, expiry and Close; one-step history of a turn; refinement of TurnCustody |
| `handler` | causes and releases under every interruption, for two racing requests |
| `handler_live` | one complete answer per client, consumption only after the provider answers, the end of every request and the reclaiming of every overdue turn, while time passes and turns expire |
| `session` | envelope, announcements, items, terminal events and budgets for any event sequence |
| `stream` | from the provider's lines to the client's events: one terminal event, whole tool turns, budgets, cuts; the session accepts what the decoder emits, and the turn retained is the turn shown |
| `mapping` | what is accepted, what is sent upstream, and what a refusal says, for two clients against the live store |
| `lifecycle` | admission, cancellation, done channel, store closing, end of the process |
| `credentials` | save and load over two backends |
| `credentials_remove` | **violated**: Remove may succeed and leave the keyring copy |
| `setup` | all or nothing, backup first |
| `setup_restore` | **violated**: a backup that setup took may be unrestorable |
| `capture` | numbers, fixtures and termination of captures over processes that die and return |

The two violations are disagreements between code and documentation, quoted in
`PROJECT.json` under `findings`. Three more observations came out of the modelling; the
properties state them as exceptions, each with its exact extent:

* *An item closed without an announcement* (`AnnouncedUnlessLimit`).
  `toolCallStartedLocked` registers the item and then reserves the bytes of its
  identity; when these do not fit, `limitLocked` closes all items, this one too, before
  `response.failed`. `docs/codex-streaming.md` promises "ordered item/content
  events"; the newest item of a failed response is the only one that may lack its
  `response.output_item.added`.
* *A call ID with control characters* (`EventsLegal`). The decoder bounds the length of
  a provider's call ID but not its characters; the session refuses control characters
  with a transition error, so that the stream ends in `response.failed` without closing
  its items, and no turn is retained. Nothing else the decoder emits is ever refused.
* *A continuation answers one turn* (`AcceptanceExact`). A client that repeats the calls and
  results of an older round next to the new ones is refused (mixed, consumed or
  unknown), and so is one that changes the backend tag between call and result.

### Bounds

* `store`: three call IDs, two requests, three record objects, four turns (two calls, a
  single one that shares the second ID, a neighbour, one with a duplicate ID), room
  for two records and three bytes, so that either limit is met first, fewer tombstones
  than IDs, three instants. A turn that expired may be saved again under its key while
  an old lease still points at it; sharing the other ID makes reuse under a live lease
  possible; the neighbour must not be disturbed. A third object lets a lease
  keep a dead record while the table is full. With TTL 1, lease 2 and a clock in 0..2 a
  lease can outlive its turn and a turn its lease.
* `handler`: two requests that race for one turn with one call; the clock stands still.
* `handler_live`: one slot that serves any number of requests, so that a later one
  consumes what an earlier one saved; two instants, so that every turn, lease and
  tombstone can expire. Both: at most `MaxDeltas` uninteresting events per stream.
* `session`: one text and two tool items; limits that each run out on some path
  before another does.
* `lifecycle`: three request slots for a limit of two, three generations of the done
  channel (the first, an overlap, and a reuse).
* `stream`: two choices, two tools, the chunks and lines of `MCGatewayStream` in
  every order until a budget ends the stream. The aggregate limit is large enough for a
  saved turn with two calls and small enough for both decoder and session to meet it.
* `mapping`: three turns, of either backend and of a model that is neither's, two of which
  collide with the first on a call ID. One
  client sends every sequence of up to two items of the whole alphabet, every
  arrangement of three items of a complete continuation and of all its calls and
  results, these with a user message at any place and with one item too many, every
  pair of tools and the options one group at a time; the other competes for the
  turns. The clock has two instants, so that turns, leases and tombstones expire.
* `capture`: two processes, one of them one-shot, three connections, two requests and
  three starts, so that one process can die with a lock and come back; a gap in the
  numbers of the earlier fixtures.
* `setup`: three of the five files (the config, one file with a validator and one more
  that follows), two backups, one outside edit.

Symmetry is used over record identities and requests only, in runs without liveness.
The views drop what no later step reads and no property looks at: unreachable record
objects, already returned events, answers a client already has. States with equal views
have the same futures, so the view of `handler_live` identifies only bisimilar states.
Deadlock is checked except in `handler`, `lifecycle` and `capture`, where the process
is done in the end, and in `stream`, where the stream is.

### Fairness

* `HandlerFairSpec`: weak fairness of a handler's own steps (Go schedules
  goroutines; `Do` is bounded by transport timeouts), of the watcher's steps, of the
  idle timer on a stream that stays silent, and of the store's cleanup ticker. The
  provider, the client and the clock promise nothing. The timer is restarted by every byte
  (`activityBody.Read`), so its fairness leaves out a provider that sends bytes without
  events for ever; `HandlerReturns` says nothing of such a stream.
* `CaptureFairSpec`: weak fairness of a handler's steps and of a one-shot server's
  `Close`, strong fairness of `s.mu.Lock` (`sync.Mutex` hands itself to a starving
  waiter). Nobody has to send a request or to stop a process.
* `LifecycleFairSpec`: the main and watch goroutines run, and the grace period ends.
  Handlers promise nothing: the process must end although they hang.

## 4. What the runs do not show

Properties that section 5 does not list as proved hold for the bounds above. Liveness is
checked, not proved. Two concurrent setups are not modelled (the code takes no lock), nor
are edits of two files between the reads of one setup. Comment lines of an SSE stream charge
no budget and restart the idle timer, and there is deliberately no total timeout
(`docs/configuration.md`), so a stream of keep-alives ends with its client, which no
property states. `SaveKeepsOne` does not hold of a set-key killed between the two renames
on Windows.

## 5. Proofs

The theorems hold for every value of the constants that satisfies the named assumptions:
any number of call IDs, turns, requests, processes, files, any limits and deadlines. TLC
evaluates the assumptions on every run.

| Module | Theorems | Assumptions |
|---|---|---|
| ResponsesHandlerProofs | the store: `TypeCorrect`, `IndexCorrect`, `LeaseCorrect`, `BoundedAlways`, `TurnHistoryHolds`, `CustodyRefined`; the handlers: `HandlersUseStore`, `HandlerTypeCorrect`, `AbortsAttributed`, `RequestsRelease`, `RequestsAnswered`, `TurnsConsumedAfterStart` | finite sets of IDs and objects, `NoRecord` is none of them; positive settings, as `normalizeContinuationStoreConfig` enforces; `NoTurn` is no turn |
| StreamSessionProofs | `SessionTypeCorrect`, `EnvelopeAlways`, `ItemsCloseOnceAlways`, `TerminalClosesItemsAlways`, `BytesExactAlways`, `AnnouncedUnlessLimitAlways` | text and tool keys are different and `NoKey` is neither; limits and sizes are natural numbers, costs positive |
| BridgeStreamDecoderProofs | `DecoderInvariant`, `DecoderTypeCorrect`, `TerminalEventOnceLast`, `ToolCallsWhole`, `DecoderBudgets`, `CutStreamFails`, `FinishedChoicesFrozen`, `EventsCharged` | lines and chunks are what JSON can decode to (`Chunk`), a declared tool name is not empty, custom tools are declared; limits, and the size charged per call, are positive |
| GatewayStreamProofs | `GatewayDecodes`, `GatewayDecoderCorrect`, `GatewayInvariant`, `EventsLegalAlways`, `RetainedTurnSeen` | those of the decoder; the session takes call IDs as long as the decoder keeps them (256 bytes both), and the public name of a custom tool is not empty (`GatewayAssumption`) |
| ServerProofs | `LifecycleTypeCorrect`, `DoneSignalAlways`, `ShutdownReachesAll`, `StoreClosedLast`; `CaptureTypeCorrect`, `NumbersStayUnique`, `FixtureStaysFree` | finitely many request goroutines, a positive limit; finitely many earlier fixtures with positive numbers, a connection belongs to one process |
| CredentialStoreProofs | `SaveEffective`, `LoadComplete`, `SaveSafe` | a key is none of the words that stand for no key, and there is one |
| CodexSetupProofs | `SetupTypeCorrect`, `SetupAllOrNothing`, `SetupBackedUpFirst` | `Order` names each file once; what the renderer writes the validators accept (setup renders and validates with the same code) |

Each component has one inductive invariant, of which the theorems are consequences, and
one lemma per action that it is preserved. What makes each of them inductive:

* *Store* (`IInv`). Custody alone is not inductive: when a lease expires, `expireLocked`
  removes *the record under the record's key*, and only if every live record is found
  under its own key is that the lease's record and not a later turn that reuses the call
  ID. `IInv` therefore joins types, the index (`RecordsIndexed`, `TombstonesApart`), the
  statuses a live record may have (`LiveStatus`), and custody. Two layers: lemmas on what
  each helper does to a well-indexed store value (`RemoveAllIndex`, `ExpireAllOK`,
  `CleanupsOK`, `InsertOK`, `RestatusOK`), and one lemma per action. `TurnHistoryHolds`
  and `CustodyRefined` are step properties and reuse the helpers: a step is split into the
  sweep at its head and the operation proper, and the phase of every record is followed
  through both. `CustodyRefined` needs one more invariant, that a closed store is empty.
  `BoundedAlways` needs sums: `totalBytes` is kept up to date by adding and subtracting,
  and the property says that it equals the sum over what is there.
* *Handlers* (`IInv /\ HandlerInv`). `HandlersUseStore` shows that every step of the
  composition is a step of the store or leaves it alone, so all store theorems hold of the
  server. `HandlerInv` says, request by request (`RequestOK`), what holds at each program
  counter: which of body, watcher and session exist, what the watcher may have recorded,
  and that the lease of a request is in the store only between `Begin` and its settlement.
  `TurnsConsumedAfterStart` combines it with custody: a commit consumes the record of the
  handler's own lease.
* *Session* (`SessionInv`). A call is a function from a session to the sessions it may
  leave, so the argument is about sessions and not about steps. Between calls a session is
  `Live` or `Dead`; each helper is shown to take a live session to live ones if it returns
  no error and to dead ones if it does (`Stopped`), and the handlers follow by composition.
  What the properties leave out and the induction needs: an item that is not `itemDone`
  has no closing event on the wire (`Open`), every event belongs to an item, and items have
  keys of their own (`Tracked`), and every item has been announced (`Shown`). Two of these
  are broken inside a call and mended before it ends, which is why `Live` has two more
  arguments: a call that is registered but not announced yet (`fresh`; a limit may strike
  exactly there, and closes it unannounced), and the item whose content is closed and whose
  end is not written (`c`). `finishItemsLocked` is a recursive function over the items;
  that it has a solution and that all items are closed when it ends are two inductions over
  their number. The counters are sums over the items (`TotalAppend`, `TotalReplace`), and
  a completion gives back exactly what it replaces because an item's bytes are part of the
  sum they are taken from (`ActiveFacts`).
* *Decoder* (`DecoderInv`). A chunk goes through loops over choices and over fragments,
  `[DONE]` through two loops over calls, and each stops at the first error. A loop is
  unrolled by `LoopExists` and argued about by induction over its turns (`LoopInduction`,
  one lemma for all six loops). The bounds on calls, fragments and arguments are checked
  in `validateChunk` and not repeated in `consumeChunk`, so the second is only correct
  for a chunk the first accepted. What a chunk keeps is `Chunked`: finished choices do not
  change (`Frozen`), the argument bytes are the sum over the calls (`ArgumentsPut`, from
  `SumTake`), no limit is passed. For the end of the stream the calls are followed
  into a journal: which calls the queue has started, and which it has completed with the
  arguments accumulated for them (`Journal`, `JournalStarted`, `JournalCompleted`), in the
  order of their choices and indexes (`SortedKeys` exists and has every key once).
  `finishToolCalls` and `finish` then leave a concluded decoder: one terminal event, last,
  and if it is a completion for tool calls then every call started is whole. What `Next`
  returned and what is still queued make one sequence (`Joined`), which moving an
  event from one to the other does not change; that is what turns a fact about the queue
  into one about the history of events. The invariant says that nothing terminal is seen or
  queued until the stream is over, and that the joined sequence is concluded from then on.
* *Event loop* (`GatewayInv`). `GatewayDecodes` shows that the event loop of the handler
  drives the decoder only by steps of its own, whatever the session does, so all of
  `DecoderInv` holds of GatewayStream. Decoder and session keep separate books, so
  `EventsLegal` is not inductive: that the session takes the next event depends on the
  items it holds, and these on all events before. `Tracks` pairs the two: while the
  response is open there is one item for each call the returned events have started,
  with its name, and it is done, and closed on the wire, exactly when they have completed
  the call. `Due` is the other half: what the joined sequence of `DecoderInv` says about
  the event that comes next (a `tool_started` of a call not started, arguments inside, a
  completion only after every call). Then each handler of the session, given an event
  that is due, leaves the two in step, or ends the response at a limit or a failed
  write (`TextFollows`, `ToolStartedFollows`, `ToolArgumentsFollows`,
  `ToolCompletedFollows`, `EventTaken`). The only other way out is a call ID with control
  characters. When the completion comes, `Due` and `Tracks` say that the calls closed on
  the wire are the calls of the decoder (`CompletionTaken`), which is the turn that is
  retained. The budgets of the session play no part, so `Client` leaves its counters open.
* *Lifecycle* (`LifecycleInv`). Once `shuttingDown` is set nobody is admitted, so the
  set of active requests only shrinks and its channel stays the same; a cancellation that
  covers all of them covers them for good, and the channel that `waitActiveRequests`
  captured is the one the last of them closes (`AdmissionStopped`, `WaitsForLast`).
* *Credentials* (`CredInv`). The properties speak of commands that have ended; what
  carries them there holds half-way: a save that has reached the old file has filled the
  keyring (`KeyringFilled`), so a load that has passed the file still finds the key in
  the keyring (`LoadPromise`). Every way a set-key ends in the file, after one rename or
  two, is one case (`SaveEnds`).
* *Setup* (`SetupInv`). At each step of a command, which files are new, which are old
  and which are staged is a matter of their place in `Order` (`StepOK`, `DiskOK`), and a
  setup is past its backup only when the newest backup is complete (`BackupOK`).
* *Capture* (`CaptureInv`). A request that gives a number up removes its lock file, so
  it must be known to hold that lock and not another's; and a candidate is past every
  number its process has given out only because `s.mu` is held from the scan to the
  allocation (`MutexHeld`, `CandidateAhead`). The scan takes the maximum of a finite set
  (`MaxOfFinite`).

`FiniteFacts` has the induction the provers can use: the good subsets are given as a
*set* (`StrictSubsetInduction`), since no backend can instantiate a theorem with a
predicate parameter. From it follow that the maximum of a finite set exists, induction
over the numbers up to n in the same form (`UpToInduction`), that the recursion in
`MapThenSumSet` has a solution, and that the sum does not depend on the order in which the
elements are chosen (`SumUnique`, `SumExists`, `SumTake`, `SumSplit`).

Only model-checked:

* Liveness (`OverdueReclaimed`, `HandlerReturns`, `ShutdownEnds`, `CaptureEnds`): fairness
  and `ENABLED` are out of the prover's reach.
* The properties of the request mapping, whose operators fold over lists of items.

The runs leave out the type predicates that the theorems above prove.

## 6. Not modelled

* The structural scan of a JSON document (`validateJSONDocument`, `schema.go`): nesting,
  token and collection limits, duplicate keys. A recursive function of a text
  without state; RequestMapping takes its verdict as part of the input.
* TOML editing, the catalog, profiles and doctor, redaction and the canned capture
  responses, configuration parsing, health and error bodies, flag parsing, release
  scripts: text in, text out, or read-only.
* The HTTP client's own steps (dialing, redirects, header limits): success, an error, or
  an open body.

## 7. Plan

1. Prove more: the request mapping, once its folds over lists of items have lemmas of their
   own.
2. Model more: two setups at once; idempotence of the TOML edit; the structural scan.
