----------------------------- MODULE CaptureServer -----------------------------
(***************************************************************************)
(* The development capture server (internal/capture): each POST is given a *)
(* number, answered with a canned event stream and recorded in the fixture *)
(* file of that number.  Several server processes may share one output     *)
(* directory, and each may be started again and killed at any time.        *)
(*                                                                         *)
(* A number is reserved by creating <fixture>.lock with O_EXCL.  Each file *)
(* system call that another process can see is a step of its own.  Names   *)
(* of temporary files are unique and never parse as a number, so these are *)
(* left out; so are request bodies that are refused (400) and the contents *)
(* of the fixture other than how much of the stream it records.            *)
(***************************************************************************)
EXTENDS Naturals, FiniteSets, FiniteSetsExt

CONSTANTS
    Servers,      \* processes that share the output directory
    Handlers,     \* connections: pairs of a process and a slot
    OneShot,      \* the processes run with -once
    Earlier,      \* the numbers of fixtures from before
    EventCount,   \* events of a response
    MaxCaptures,  \* bound on requests
    MaxStarts,    \* bound on process starts
    Nobody

ASSUME CaptureAssumption ==
    /\ Earlier \subseteq Nat \ {0} /\ IsFiniteSet(Earlier)
    /\ EventCount \in Nat \ {0}
    /\ MaxCaptures \in Nat /\ MaxStarts \in Nat
    /\ \A h \in Handlers : h = <<h[1], h[2]>> /\ h[1] \in Servers
    /\ OneShot \subseteq Servers
    /\ Nobody \notin Handlers

VARIABLES
    fixtures,   \* number -> how many events the fixture records
    locks,      \* numbers whose lock file exists
    servers,    \* the processes
    caps,       \* the handler on each connection
    captures,   \* requests so far
    starts      \* process starts so far

captureVars == <<fixtures, locks, servers, caps, captures, starts>>

\* mu: the handler that holds s.mu.  closing: a one-shot capture is done and has
\* started Close.
Server == [state : {"down", "up", "closed"}, dir : BOOLEAN, sequence : Nat,
           mu : Handlers \cup {Nobody}, closing : BOOLEAN]

Steps == {"idle", "mutex", "scan", "lock", "stat", "skip", "undo", "stream",
          "persist", "finish", "release"}

\* linked: this handler has created its fixture.
Cap == [pc : Steps, sequence : Nat, written : 0..EventCount, linked : BOOLEAN]

\* Every variable has its type.
CaptureTypeOK ==
    /\ DOMAIN fixtures \subseteq Nat \ {0}
    /\ \A n \in DOMAIN fixtures : fixtures[n] \in 0..EventCount
    /\ locks \subseteq Nat \ {0}
    /\ servers \in [Servers -> Server]
    /\ caps \in [Handlers -> Cap]
    /\ captures \in 0..MaxCaptures /\ starts \in 0..MaxStarts

Down == [state |-> "down", dir |-> TRUE, sequence |-> 0, mu |-> Nobody,
         closing |-> FALSE]

IdleCap == [pc |-> "idle", sequence |-> 0, written |-> 0, linked |-> FALSE]

Goto(h, pc) == caps' = [caps EXCEPT ![h].pc = pc]

\* nextSequence returns: s.mu is released, and the number kept on success.
Unlock(s) == servers' = [servers EXCEPT ![s].mu = Nobody]

Allocated(s, n) == servers' = [servers EXCEPT ![s].mu = Nobody, ![s].sequence = n]

\* nextSequence fails: 500, and nothing to release.
Fail(h) == caps' = [caps EXCEPT ![h] = IdleCap] /\ Unlock(h[1])

-----------------------------------------------------------------------------
(* Processes.                                                              *)

\* runCapture and Listen.
Listen(s, dir) ==
    /\ servers[s].state = "down"
    /\ starts < MaxStarts
    /\ starts' = starts + 1
    /\ servers' = [servers EXCEPT ![s] = [Down EXCEPT !.state = "up", !.dir = dir]]
    /\ UNCHANGED <<fixtures, locks, caps, captures>>

\* http.Server.Close, after a signal or from a one-shot capture: no new request, and
\* the connections of the running ones are cut.
Close(s) ==
    /\ servers[s].state = "up"
    /\ servers' = [servers EXCEPT ![s].state = "closed"]
    /\ UNCHANGED <<fixtures, locks, caps, captures, starts>>

\* Serve has returned and main exits, without waiting for handlers, or the process is
\* killed: what it left in the directory stays.
Exit(s) ==
    /\ servers[s].state # "down"
    /\ servers' = [servers EXCEPT ![s] = Down]
    /\ caps' = [h \in Handlers |-> IF h[1] = s THEN IdleCap ELSE caps[h]]
    /\ UNCHANGED <<fixtures, locks, captures, starts>>

-----------------------------------------------------------------------------
(* ServeHTTP: the number.                                                  *)

BeginCapture(h) ==
    /\ caps[h].pc = "idle"
    /\ servers[h[1]].state = "up"
    /\ captures < MaxCaptures
    /\ captures' = captures + 1
    /\ Goto(h, "mutex")
    /\ UNCHANGED <<fixtures, locks, servers, starts>>

\* s.mu.Lock.
LockMutex(h) ==
    /\ caps[h].pc = "mutex"
    /\ servers[h[1]].mu = Nobody
    /\ servers' = [servers EXCEPT ![h[1]].mu = h]
    /\ Goto(h, "scan")
    /\ UNCHANGED <<fixtures, locks, captures, starts>>

\* highestFixtureSequence: a fixture counts, and so does the lock of one.
highestFixtureSequence == Max({0} \cup locks \cup DOMAIN fixtures)

\* The first candidate: past what this process gave out and what the directory
\* shows.  Without a directory that is all.
Scan(h) ==
    LET s == h[1]
        next == servers[s].sequence + 1
    IN /\ caps[h].pc = "scan"
       /\ \/ /\ ~servers[s].dir
             /\ caps' = [caps EXCEPT ![h].sequence = next, ![h].pc = "stream"]
             /\ Allocated(s, next)
          \/ /\ servers[s].dir
             /\ caps' = [caps EXCEPT ![h].sequence = Max({next, highestFixtureSequence + 1}),
                                     ![h].pc = "lock"]
             /\ UNCHANGED servers
          \/ servers[s].dir /\ Fail(h)
       /\ UNCHANGED <<fixtures, locks, captures, starts>>

\* Fault: a lock that exists is waited for.
CreateLockWaiting(h) ==
    LET n == caps[h].sequence
    IN /\ caps[h].pc = "lock"
       /\ n \notin locks
       /\ locks' = locks \cup {n} /\ Goto(h, "stat")
       /\ UNCHANGED <<fixtures, servers, captures, starts>>

\* Fault: the lock is opened without O_EXCL.
CreateLockInclusive(h) ==
    LET n == caps[h].sequence
    IN /\ caps[h].pc = "lock"
       /\ locks' = locks \cup {n} /\ Goto(h, "stat")
       /\ UNCHANGED <<fixtures, servers, captures, starts>>

\* OpenFile with O_EXCL: reserved, taken by another, or failed.
CreateLock(h) ==
    LET n == caps[h].sequence
    IN /\ caps[h].pc = "lock"
       /\ \/ n \notin locks /\ locks' = locks \cup {n} /\ Goto(h, "stat") /\ UNCHANGED servers
          \/ /\ n \in locks
             /\ caps' = [caps EXCEPT ![h].sequence = n + 1]
             /\ UNCHANGED <<locks, servers>>
          \/ Fail(h) /\ UNCHANGED locks
       /\ UNCHANGED <<fixtures, captures, starts>>

\* Fault: the fixture is not looked for once the lock is held.
StatFixtureTrusting(h) ==
    /\ caps[h].pc = "stat"
    /\ Goto(h, "stream") /\ Allocated(h[1], caps[h].sequence)
    /\ UNCHANGED <<fixtures, locks, captures, starts>>

\* With the lock held: a fixture that exists (its writer is done and gone) means
\* another candidate; an error gives up.
StatFixture(h) ==
    LET n == caps[h].sequence
    IN /\ caps[h].pc = "stat"
       /\ \/ n \in DOMAIN fixtures /\ Goto(h, "skip") /\ UNCHANGED servers
          \/ n \notin DOMAIN fixtures /\ Goto(h, "stream") /\ Allocated(h[1], n)
          \/ Goto(h, "undo") /\ UNCHANGED servers
       /\ UNCHANGED <<fixtures, locks, captures, starts>>

\* The lock of a number that is taken goes; if it cannot, so does the request.
SkipNumber(h) ==
    LET n == caps[h].sequence
    IN /\ caps[h].pc = "skip"
       /\ \/ /\ locks' = locks \ {n}
             /\ caps' = [caps EXCEPT ![h].sequence = n + 1, ![h].pc = "lock"]
             /\ UNCHANGED servers
          \/ Fail(h) /\ UNCHANGED locks
       /\ UNCHANGED <<fixtures, captures, starts>>

\* After an error with the lock held.
UndoLock(h) ==
    /\ caps[h].pc = "undo"
    /\ locks' \in {locks, locks \ {caps[h].sequence}}
    /\ Fail(h)
    /\ UNCHANGED <<fixtures, captures, starts>>

-----------------------------------------------------------------------------
(* ServeHTTP: the response and the fixture.                                *)

\* writeResponseStream: one event after the other until one cannot be written (the
\* client is gone, the server is closed).
WriteEvent(h) ==
    /\ caps[h].pc = "stream"
    /\ \/ /\ servers[h[1]].state = "up" /\ caps[h].written < EventCount
          /\ caps' = [caps EXCEPT ![h].written = @ + 1]
       \/ Goto(h, "persist")
    /\ UNCHANGED <<fixtures, locks, servers, captures, starts>>

\* writeFixture: the temporary file is linked to the fixture's name, which fails if
\* that exists; anything before may fail, too.
PersistFixture(h) ==
    LET n == caps[h].sequence
    IN /\ caps[h].pc = "persist"
       /\ \/ /\ servers[h[1]].dir /\ n \notin DOMAIN fixtures
             /\ fixtures' = [m \in DOMAIN fixtures \cup {n} |->
                             IF m = n THEN caps[h].written ELSE fixtures[m]]
             /\ caps' = [caps EXCEPT ![h].linked = TRUE, ![h].pc = "finish"]
          \/ Goto(h, "finish") /\ UNCHANGED fixtures
       /\ UNCHANGED <<locks, servers, captures, starts>>

\* A one-shot server closes itself in another goroutine.
FinishCapture(h) ==
    /\ caps[h].pc = "finish"
    /\ servers' = [servers EXCEPT ![h[1]].closing = @ \/ h[1] \in OneShot]
    /\ Goto(h, "release")
    /\ UNCHANGED <<fixtures, locks, captures, starts>>

\* The deferred releaseSequence; an error is ignored.
ReleaseSequence(h) ==
    LET n == caps[h].sequence
    IN /\ caps[h].pc = "release"
       /\ locks' \in IF servers[h[1]].dir THEN {locks, locks \ {n}} ELSE {locks}
       /\ caps' = [caps EXCEPT ![h] = IdleCap]
       /\ UNCHANGED <<fixtures, servers, captures, starts>>

-----------------------------------------------------------------------------

CaptureInit ==
    /\ fixtures = [n \in Earlier |-> EventCount]
    /\ locks = {}
    /\ servers = [s \in Servers |-> Down]
    /\ caps = [h \in Handlers |-> IdleCap]
    /\ captures = 0 /\ starts = 0

HandlerStep(h) ==
    \/ LockMutex(h)
    \/ Scan(h)
    \/ CreateLock(h)
    \/ StatFixture(h)
    \/ SkipNumber(h)
    \/ UndoLock(h)
    \/ WriteEvent(h)
    \/ PersistFixture(h)
    \/ FinishCapture(h)
    \/ ReleaseSequence(h)

CaptureNext ==
    \/ \E s \in Servers, dir \in BOOLEAN : Listen(s, dir)
    \/ \E s \in Servers : Close(s)
    \/ \E s \in Servers : Exit(s)
    \/ \E h \in Handlers : BeginCapture(h)
    \/ \E h \in Handlers : HandlerStep(h)

CaptureSpec == CaptureInit /\ [][CaptureNext]_captureVars

\* Goroutines run, also those waiting for s.mu (sync.Mutex hands itself to a waiter
\* that starves).  Nobody has to send a request, and no process has to end.
CaptureFairSpec ==
    /\ CaptureSpec
    /\ \A h \in Handlers : WF_captureVars(HandlerStep(h)) /\ SF_captureVars(LockMutex(h))
    /\ \A s \in Servers : WF_captureVars(servers[s].closing /\ Close(s))

-----------------------------------------------------------------------------
(* Properties.                                                             *)

\* From the creation of the lock to its removal.
Holds(h) ==
    /\ servers[h[1]].dir
    /\ caps[h].pc \in {"stat", "skip", "undo", "stream", "persist", "finish", "release"}

\* No two requests, of one process or of several, hold the same number, and the lock
\* of a number that is held exists: no other request, skipping, failing or
\* releasing, ever removes it, and no restart forgets it.  The counter of a process
\* is never behind a number it has given out, so that even one that leaves neither
\* fixture nor lock is not given out again.
NumbersUnique ==
    /\ \A h \in Handlers : Holds(h) => caps[h].sequence \in locks
    /\ \A g, h \in Handlers : Holds(g) /\ Holds(h) /\ g # h => caps[g].sequence # caps[h].sequence
    /\ \A h \in Handlers : caps[h].pc \in {"stream", "persist", "finish", "release"} =>
          caps[h].sequence =< servers[h[1]].sequence

\* A capture that got as far as streaming never finds its fixture's name taken, by a
\* fixture from before or by a request that held the number and let go of it between
\* the directory scan and the lock: os.Link does not fail with "exists".
FixtureFree ==
    \A h \in Handlers : servers[h[1]].dir /\ caps[h].pc \in {"stream", "persist"} =>
       caps[h].sequence \notin DOMAIN fixtures

\* Every request ends: locks that dead processes left behind, and numbers that others
\* take meanwhile, are passed over and never waited for.  A one-shot server
\* stops after a capture, whether or not its stream and its fixture succeeded.
CaptureEnds ==
    /\ \A h \in Handlers : caps[h].pc # "idle" ~> caps[h].pc = "idle"
    /\ \A s \in OneShot :
          (\E h \in Handlers : h[1] = s /\ caps[h].pc = "persist") ~> servers[s].state # "up"
===============================================================================
