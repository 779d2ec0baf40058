------------------------------ MODULE WorkerPool ------------------------------
(***************************************************************************)
(* The pool of pre-warmed Web Workers of web/zsh-runtime.js (class         *)
(* WorkerPool), together with the workers as the pool sees them.           *)
(*                                                                         *)
(* The page's event loop runs one handler at a time, so every handler of   *)
(* the pool is one action.  Workers run concurrently with the page and     *)
(* with each other; each pair of directions page->worker, worker->page is  *)
(* a FIFO channel (a MessagePort).  Worker.terminate() discards what is    *)
(* still in both channels, as the HTML standard requires; an error event   *)
(* does not travel through the port and survives terminate().              *)
(*                                                                         *)
(* A worker is modelled here by its contract with the pool; ZshWorker      *)
(* models web/zsh-worker.js in detail.                                     *)
(***************************************************************************)
EXTENDS Naturals, Sequences, FiniteSets

CONSTANTS
    Jobs,        \* the calls of run(), one element per call
    NoJob,       \* null in w._job, w._timer
    PoolSize,    \* the argument of the constructor
    MaxWorkers,  \* bound: how many workers may ever be spawned
    Faults       \* which optional events happen, a subset of FaultKinds

FaultKinds == {"shutdown", "warmFail", "error"}

ASSUME PoolAssumption ==
    /\ NoJob \notin Jobs
    /\ PoolSize \in Nat
    /\ MaxWorkers \in Nat
    /\ PoolSize <= MaxWorkers
    /\ Faults \subseteq FaultKinds

Workers == 1..MaxWorkers

VARIABLES
    \* ---- the page: fields of the WorkerPool object and of its workers
    ready,    \* #ready: parked workers, oldest first
    pending,  \* #pending: queued jobs, oldest first
    all,      \* #all: the workers the pool owns
    spawned,  \* how many workers have been constructed
    job,      \* w._job
    timer,    \* the job whose timeout w._timer is armed for
    promise,  \* the promise run() returned for each job
    \* ---- the workers
    phase,    \* where the worker's own code is
    script,   \* the job whose source callMain is executing
    inbox,    \* messages posted to the worker, not yet handled by it
    outbox,   \* messages posted by the worker, not yet handled by the page
    failing   \* workers whose error event the page has not yet handled

vars == <<ready, pending, all, spawned, job, timer, promise,
          phase, script, inbox, outbox, failing>>
workerVars == <<phase, script, inbox, outbox, failing>>

-------------------------------------------------------------------------------
(* Messages and states *)

InitMsg      == [type |-> "init",   job |-> NoJob]
RunMsg(j)    == [type |-> "run",    job |-> j]
ReadyMsg     == [type |-> "ready",  job |-> NoJob]
ResultMsg(j) == [type |-> "result", job |-> j]

Message == {InitMsg, ReadyMsg} \union {RunMsg(j) : j \in Jobs} \union {ResultMsg(j) : j \in Jobs}

Phases == {"unborn", "fresh", "warming", "warm", "running", "stuck", "terminated"}

PromiseStates == {"none", "open", "resolved", "timedOut", "failed", "shutDown"}

Settled(j) == promise[j] \notin {"none", "open"}

Arrives(w, type) == outbox[w] # <<>> /\ Head(outbox[w]).type = type
Taken(w)         == outbox' = [outbox EXCEPT ![w] = Tail(@)]

Elements(s) == {s[i] : i \in DOMAIN s}

-------------------------------------------------------------------------------
(* The pool *)

\* The constructor: PoolSize times #spawn().
Init ==
    /\ ready = <<>>
    /\ pending = <<>>
    /\ all = 1..PoolSize
    /\ spawned = PoolSize
    /\ job = [w \in Workers |-> NoJob]
    /\ timer = [w \in Workers |-> NoJob]
    /\ promise = [j \in Jobs |-> "none"]
    /\ phase = [w \in Workers |-> IF w <= PoolSize THEN "fresh" ELSE "unborn"]
    /\ script = [w \in Workers |-> NoJob]
    /\ inbox = [w \in Workers |-> IF w <= PoolSize THEN <<InitMsg>> ELSE <<>>]
    /\ outbox = [w \in Workers |-> <<>>]
    /\ failing = {}

\* Mutation of Dispatch: the timeout is never armed.
DispatchUntimed(w, j) ==
    /\ job' = [job EXCEPT ![w] = j]
    /\ inbox' = [inbox EXCEPT ![w] = Append(@, RunMsg(j))]
    /\ UNCHANGED timer

Dispatch(w, j) ==
    /\ job' = [job EXCEPT ![w] = j]
    /\ timer' = [timer EXCEPT ![w] = j]
    /\ inbox' = [inbox EXCEPT ![w] = Append(@, RunMsg(j))]

\* Mutation of RunNow: #ready[0] is read, not shifted.
RunNowUnshifted(j) ==
    /\ promise[j] = "none"
    /\ ready # <<>>
    /\ promise' = [promise EXCEPT ![j] = "open"]
    /\ Dispatch(Head(ready), j)
    /\ UNCHANGED <<ready, pending, all, spawned, phase, script, outbox, failing>>

\* run() with a parked worker at hand.
RunNow(j) ==
    /\ promise[j] = "none"
    /\ ready # <<>>
    /\ promise' = [promise EXCEPT ![j] = "open"]
    /\ Dispatch(Head(ready), j)
    /\ ready' = Tail(ready)
    /\ UNCHANGED <<pending, all, spawned, phase, script, outbox, failing>>

\* run() with every worker busy, warming or gone.
RunLater(j) ==
    /\ promise[j] = "none"
    /\ ready = <<>>
    /\ promise' = [promise EXCEPT ![j] = "open"]
    /\ pending' = Append(pending, j)
    /\ UNCHANGED <<ready, all, spawned, job, timer, workerVars>>

\* Mutation of OnReadyDispatch: the newest job is taken (pop() for shift()).
OnReadyDispatchNewest(w) ==
    /\ Arrives(w, "ready")
    /\ Taken(w)
    /\ pending # <<>>
    /\ Dispatch(w, pending[Len(pending)])
    /\ pending' = SubSeq(pending, 1, Len(pending) - 1)
    /\ UNCHANGED <<ready, all, spawned, promise, phase, script, failing>>

\* A warm worker takes the oldest queued job ...
OnReadyDispatch(w) ==
    /\ Arrives(w, "ready")
    /\ Taken(w)
    /\ pending # <<>>
    /\ Dispatch(w, Head(pending))
    /\ pending' = Tail(pending)
    /\ UNCHANGED <<ready, all, spawned, promise, phase, script, failing>>

\* ... or is parked.
OnReadyPark(w) ==
    /\ Arrives(w, "ready")
    /\ Taken(w)
    /\ pending = <<>>
    /\ ready' = Append(ready, w)
    /\ UNCHANGED <<pending, all, spawned, job, timer, promise, phase, script, inbox, failing>>

ClearTimer(w) == timer' = [timer EXCEPT ![w] = NoJob]

\* job.resolve(...).  With w._job null this would be a TypeError: RunsSeparate.
OnResult(w) ==
    /\ Arrives(w, "result")
    /\ Taken(w)
    /\ job[w] # NoJob
    /\ job' = [job EXCEPT ![w] = NoJob]
    /\ ClearTimer(w)
    /\ promise' = [promise EXCEPT ![job[w]] = "resolved"]
    /\ UNCHANGED <<ready, pending, all, spawned, phase, script, inbox, failing>>

Rejected(j, reason) == [promise EXCEPT ![j] = reason]

\* Mutation of OnError: the timer is left armed and w._job set.
OnErrorUncleared(w) ==
    /\ w \in failing
    /\ failing' = failing \ {w}
    /\ promise' = IF job[w] = NoJob THEN promise ELSE Rejected(job[w], "failed")
    /\ UNCHANGED <<ready, pending, all, spawned, job, timer, phase, script, inbox, outbox>>

\* w.onerror: the job, if there is one, is rejected.  The worker stays in #all.
OnError(w) ==
    /\ w \in failing
    /\ failing' = failing \ {w}
    /\ ClearTimer(w)
    /\ job' = [job EXCEPT ![w] = NoJob]
    /\ promise' = IF job[w] = NoJob THEN promise ELSE Rejected(job[w], "failed")
    /\ UNCHANGED <<ready, pending, all, spawned, phase, script, inbox, outbox>>

\* s without e; the filter changes nothing when e is not there.
Without(s, e) == IF e \in Elements(s) THEN SelectSeq(s, LAMBDA v : v # e) ELSE s

\* Mutation of Retire: no replacement is spawned.
RetireOnly(w) ==
    /\ spawned < MaxWorkers
    /\ all' = all \ {w}
    /\ ready' = Without(ready, w)
    /\ phase' = [phase EXCEPT ![w] = "terminated"]
    /\ script' = [script EXCEPT ![w] = NoJob]
    /\ inbox' = [inbox EXCEPT ![w] = <<>>]
    /\ outbox' = [outbox EXCEPT ![w] = <<>>]
    /\ UNCHANGED spawned

\* Mutation of Retire: a replacement is spawned, but w is not terminated.
RetireAlive(w) ==
    LET new == spawned + 1 IN
    /\ spawned < MaxWorkers
    /\ spawned' = new
    /\ all' = (all \ {w}) \union {new}
    /\ ready' = Without(ready, w)
    /\ phase' = [phase EXCEPT ![new] = "fresh"]
    /\ inbox' = [inbox EXCEPT ![new] = <<InitMsg>>]
    /\ UNCHANGED <<script, outbox>>

\* #retire(): terminate w and #spawn() its replacement.
Retire(w) ==
    LET new == spawned + 1 IN
    /\ spawned < MaxWorkers
    /\ spawned' = new
    /\ all' = (all \ {w}) \union {new}
    /\ ready' = Without(ready, w)
    /\ phase' = [phase EXCEPT ![w] = "terminated", ![new] = "fresh"]
    /\ script' = [script EXCEPT ![w] = NoJob]
    /\ inbox' = [inbox EXCEPT ![w] = <<>>, ![new] = <<InitMsg>>]
    /\ outbox' = [outbox EXCEPT ![w] = <<>>]

\* The callback of setTimeout(): any time after the dispatch, since neither
\* timeoutMs nor the duration of a script is bounded.
Timeout(w) ==
    /\ timer[w] # NoJob
    /\ ClearTimer(w)
    /\ job' = [job EXCEPT ![w] = NoJob]
    /\ Retire(w)
    /\ promise' = IF job[w] = NoJob THEN promise ELSE Rejected(job[w], "timedOut")
    /\ UNCHANGED <<pending, failing>>

\* Mutation of Shutdown: the queue is rejected but not emptied.
ShutdownKeepsQueue ==
    /\ "shutdown" \in Faults
    /\ timer' = [w \in Workers |-> IF w \in all THEN NoJob ELSE timer[w]]
    /\ phase' = [w \in Workers |-> IF w \in all THEN "terminated" ELSE phase[w]]
    /\ script' = [w \in Workers |-> IF w \in all THEN NoJob ELSE script[w]]
    /\ inbox' = [w \in Workers |-> IF w \in all THEN <<>> ELSE inbox[w]]
    /\ outbox' = [w \in Workers |-> IF w \in all THEN <<>> ELSE outbox[w]]
    /\ all' = {}
    /\ ready' = <<>>
    /\ promise' = [j \in Jobs |-> IF j \in Elements(pending) THEN "shutDown" ELSE promise[j]]
    /\ UNCHANGED <<pending, spawned, job, failing>>

\* shutdown(): the jobs in flight keep their promises and lose their timers.
Shutdown ==
    /\ "shutdown" \in Faults
    /\ timer' = [w \in Workers |-> IF w \in all THEN NoJob ELSE timer[w]]
    /\ phase' = [w \in Workers |-> IF w \in all THEN "terminated" ELSE phase[w]]
    /\ script' = [w \in Workers |-> IF w \in all THEN NoJob ELSE script[w]]
    /\ inbox' = [w \in Workers |-> IF w \in all THEN <<>> ELSE inbox[w]]
    /\ outbox' = [w \in Workers |-> IF w \in all THEN <<>> ELSE outbox[w]]
    /\ all' = {}
    /\ ready' = <<>>
    /\ promise' = [j \in Jobs |-> IF j \in Elements(pending) THEN "shutDown" ELSE promise[j]]
    /\ pending' = <<>>
    /\ UNCHANGED <<spawned, job, failing>>

-------------------------------------------------------------------------------
(* The workers *)

Post(w, m) == outbox' = [outbox EXCEPT ![w] = Append(@, m)]

Receive(w, type) ==
    /\ inbox[w] # <<>>
    /\ Head(inbox[w]).type = type
    /\ inbox' = [inbox EXCEPT ![w] = Tail(@)]

\* The "init" message: importScripts() and startPreInit().
HandleInit(w) ==
    /\ phase[w] = "fresh"
    /\ Receive(w, "init")
    /\ phase' = [phase EXCEPT ![w] = "warming"]
    /\ UNCHANGED <<ready, pending, all, spawned, job, timer, promise, script, outbox, failing>>

\* createZshModule() resolves.
WarmUp(w) ==
    /\ phase[w] = "warming"
    /\ phase' = [phase EXCEPT ![w] = "warm"]
    /\ Post(w, ReadyMsg)
    /\ UNCHANGED <<ready, pending, all, spawned, job, timer, promise, script, inbox, failing>>

\* createZshModule() rejects (zsh.wasm not found, out of memory).  The rejection
\* stays inside the worker: no message and no error event.
WarmFail(w) ==
    /\ "warmFail" \in Faults
    /\ phase[w] = "warming"
    /\ phase' = [phase EXCEPT ![w] = "stuck"]
    /\ UNCHANGED <<ready, pending, all, spawned, job, timer, promise, script, inbox, outbox, failing>>

\* The "run" message, up to the end of callMain().
HandleRun(w) ==
    /\ phase[w] = "warm"
    /\ Receive(w, "run")
    /\ phase' = [phase EXCEPT ![w] = "running"]
    /\ script' = [script EXCEPT ![w] = Head(inbox[w]).job]
    /\ UNCHANGED <<ready, pending, all, spawned, job, timer, promise, outbox, failing>>

\* Mutation of Finish: startPreInit() first, so that the output is already reset.
FinishSwapped(w) ==
    /\ phase[w] = "running"
    /\ Post(w, ResultMsg(NoJob))
    /\ phase' = [phase EXCEPT ![w] = "warming"]
    /\ script' = [script EXCEPT ![w] = NoJob]
    /\ UNCHANGED <<ready, pending, all, spawned, job, timer, promise, inbox, failing>>

\* The script ends: its output is posted and the next module is started.
Finish(w) ==
    /\ phase[w] = "running"
    /\ Post(w, ResultMsg(script[w]))
    /\ phase' = [phase EXCEPT ![w] = "warming"]
    /\ script' = [script EXCEPT ![w] = NoJob]
    /\ UNCHANGED <<ready, pending, all, spawned, job, timer, promise, inbox, failing>>

\* The script never ends, traps, or a syncfs() rejects: nothing is ever posted.
Wedge(w) ==
    /\ phase[w] = "running"
    /\ phase' = [phase EXCEPT ![w] = "stuck"]
    /\ UNCHANGED <<ready, pending, all, spawned, job, timer, promise, script, inbox, outbox, failing>>

\* The worker's script cannot be fetched, or an exception escapes a callback of
\* IndexedDB during a run: an error event, and nothing is ever posted.
Crash(w) ==
    /\ "error" \in Faults
    /\ phase[w] \in {"fresh", "running"}
    /\ phase' = [phase EXCEPT ![w] = "stuck"]
    /\ failing' = failing \union {w}
    /\ UNCHANGED <<ready, pending, all, spawned, job, timer, promise, script, inbox, outbox>>

-------------------------------------------------------------------------------
(* The specification *)

PageStep(w) ==
    \/ OnReadyDispatch(w)
    \/ OnReadyPark(w)
    \/ OnResult(w)
    \/ OnError(w)
    \/ Timeout(w)

WorkerStep(w) ==
    \/ HandleInit(w)
    \/ WarmUp(w)
    \/ WarmFail(w)
    \/ HandleRun(w)
    \/ Finish(w)
    \/ Wedge(w)
    \/ Crash(w)

Next ==
    \/ \E j \in Jobs : RunNow(j) \/ RunLater(j)
    \/ \E w \in Workers : PageStep(w) \/ WorkerStep(w)
    \/ Shutdown

Spec == Init /\ [][Next]_vars

\* Messages are delivered, timers fire and modules load; a script need not end.
Fairness ==
    \A w \in Workers :
        /\ WF_vars(PageStep(w))
        /\ WF_vars(HandleInit(w))
        /\ WF_vars(WarmUp(w) \/ WarmFail(w))
        /\ WF_vars(HandleRun(w))

FairSpec == Spec /\ Fairness

-------------------------------------------------------------------------------
(* Properties *)

\* Every variable holds values of the kind the code puts there.
TypeOK ==
    /\ ready \in Seq(Workers)
    /\ pending \in Seq(Jobs)
    /\ all \in SUBSET Workers
    /\ spawned \in PoolSize..MaxWorkers
    /\ job \in [Workers -> Jobs \union {NoJob}]
    /\ timer \in [Workers -> Jobs \union {NoJob}]
    /\ promise \in [Jobs -> PromiseStates]
    /\ phase \in [Workers -> Phases]
    /\ script \in [Workers -> Jobs \union {NoJob}]
    /\ inbox \in [Workers -> Seq(Message)]
    /\ outbox \in [Workers -> Seq(Message)]
    /\ failing \in SUBSET Workers

\* A result the page is about to handle belongs to the job in w._job: it never
\* meets w._job = null (a TypeError in onmessage) nor the job of a later run.
ResultFindsItsJob ==
    \A w \in Workers :
        Arrives(w, "result") => job[w] # NoJob /\ Head(outbox[w]).job = job[w]

\* An armed timeout is the one of the job its worker is busy with, and every job
\* on a worker of the pool has one: a leftover timeout would retire a worker
\* that serves a later run or is parked.
TimerIsForCurrentJob ==
    \A w \in Workers :
        /\ timer[w] # NoJob => timer[w] = job[w] /\ w \in all
        /\ w \in all => timer[w] = job[w]

\* #ready holds only workers of the pool, each once, that would start a script
\* at once: warm, without a job, with nothing left to say.
ParkedIsIdle ==
    /\ \A w \in Elements(ready) :
           /\ w \in all
           /\ phase[w] = "warm"
           /\ job[w] = NoJob
           /\ inbox[w] = <<>> /\ outbox[w] = <<>>
    /\ \A i, k \in DOMAIN ready : ready[i] = ready[k] => i = k

\* No job waits in #pending while a worker is parked in #ready.
NoIdleWhileQueued == ready # <<>> => pending = <<>>

\* The promise of a job is open exactly while the job is in one place, #pending
\* or one worker's _job: it is neither lost nor run twice.
JobInOnePlace ==
    \A j \in Jobs :
        LET queued == {i \in DOMAIN pending : pending[i] = j}
            held   == {w \in Workers : job[w] = j}
        IN  /\ promise[j] = "open" <=> queued \union held # {}
            /\ \A i, k \in queued : i = k
            /\ \A v, w \in held : v = w
            /\ queued = {} \/ held = {}

\* A script executes only on behalf of the job its worker holds: once a run has
\* been given up its script has no further effects.
NoGhostScript ==
    \A w \in Workers :
        phase[w] = "running" =>
            w \in all /\ script[w] = job[w] /\ script[w] # NoJob /\ promise[script[w]] = "open"

\* Timeouts replace workers one for one; only shutdown() empties the pool.
CapacityKept == Cardinality(all) = PoolSize \/ all = {}

\* The pool's tables agree with each other and with the workers, in every order of
\* run(), "ready", "result", errors, timeouts and shutdown() (web/zsh-runtime.js:432-507).
PoolConsistent == ParkedIsIdle /\ NoIdleWhileQueued /\ JobInOnePlace /\ CapacityKept

\* No run meets the result, the timeout or the script of another one, however late
\* they come (web/zsh-runtime.js:440-479).
RunsSeparate == ResultFindsItsJob /\ TimerIsForCurrentJob /\ NoGhostScript

Dispatched(j) == \E w \in Workers : job[w] = j

\* A job is handed to a worker only when nobody queued before it still waits.
NoOvertaking ==
    [][\A j \in Jobs :
          ~Dispatched(j) /\ Dispatched(j)' => pending = <<>> \/ Head(pending) = j]_vars

\* A promise is settled at most once, and a worker that was given up stays so.
SettledOnce ==
    [][/\ \A j \in Jobs : Settled(j) => promise'[j] = promise[j]
       /\ \A w \in Workers : phase[w] = "terminated" => phase'[w] = "terminated"]_vars

\* Every run() settles: with its result or with a timeout error.
EveryRunSettles == \A j \in Jobs : promise[j] = "open" ~> Settled(j)

\* Whatever the scripts do, the pool is again and again at full strength, with
\* PoolSize parked workers.
PoolRecovers == []<>(Cardinality(Elements(ready)) = PoolSize)

-------------------------------------------------------------------------------
(* What the callers see *)

Service == INSTANCE ScriptService WITH
    Width    <- PoolSize,
    queue    <- pending,
    inFlight <- {j \in Jobs : Dispatched(j)},
    outcome  <- promise,
    closed   <- (all = {})

\* Seen from the callers the pool begins runs in the order of their calls, at
\* most PoolSize at once, and settles each once: the workers, the messages and
\* the timers do not show.
ImplementsService == Service!Spec

\* While no worker breaks, every run also begins and ends.
ImplementsFairService == Service!FairSpec

Contract(w) == INSTANCE WorkerContract WITH
    phase <- phase[w], script <- script[w], inbox <- inbox[w], outbox <- outbox[w]

\* The pool uses every worker by the rules web/zsh-worker.js is written for: a
\* "run" goes only to a worker that has said "ready" and nothing since.
KeepsContract ==
    /\ \A w \in Workers : Contract(w)!Init
    /\ [][\A w \in Workers : Contract(w)!Next \/ UNCHANGED Contract(w)!vars]_vars
===============================================================================
