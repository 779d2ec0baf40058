------------------------------ MODULE ZshWorker ------------------------------
(***************************************************************************)
(* One Web Worker: web/zsh-worker.js.  Its onmessage handler is an async   *)
(* function, so a message can be handled while an earlier "run" waits at   *)
(* one of its three awaits (the module, the two syncfs() calls); between   *)
(* two awaits a handler runs to completion.                                *)
(*                                                                         *)
(* Every createZshModule() call is a generation: its module instance, its  *)
(* promise and its capture object carry the same number.  What a script    *)
(* prints is abstracted to two parts, the complete lines and a last line   *)
(* without a newline, each tagged with the job that printed it.            *)
(*                                                                         *)
(* The caller is the pool, which posts a "run" only after "ready", or a    *)
(* hand-written one, which posts what it likes and may never send "init".  *)
(***************************************************************************)
EXTENDS Naturals, Sequences, FiniteSets

CONSTANTS
    Jobs,      \* the "run" messages
    NoJob,     \* no job
    IdbJobs,   \* the jobs with fs: 'idbfs'
    BusyJobs,  \* the jobs with busySleepFallback: true
    Patient,   \* the caller is the pool
    Faults     \* modules may fail to load, scripts may trap, syncfs() may fail

ASSUME WorkerAssumption ==
    /\ NoJob \notin Jobs
    /\ IsFiniteSet(Jobs)
    /\ IdbJobs \subseteq Jobs
    /\ BusyJobs \subseteq Jobs
    /\ Patient \in BOOLEAN
    /\ Faults \in BOOLEAN

\* One generation for the start and one after each run.
Generations == 1..(Cardinality(Jobs) + 1)

VARIABLES
    \* ---- the globals of the worker's script
    loaded,    \* _runtimeLoaded
    current,   \* the generation of _capture and _moduleReady; 0 is null
    module,    \* _module: the generation that resolved last; 0 is null
    busySleep, \* _busySleepFallback
    \* ---- per generation
    preInit,   \* "none", "pending", "done" or "failed": the promise
    out,       \* capture.out
    notices,   \* the jobs whose sleep diagnostic is in capture.err
    stdin,     \* the job whose text capture.stdinFn yields
    executed,  \* the jobs whose scripts the module has executed
    \* ---- per job
    at,        \* where its handler is
    waitsFor,  \* the generation its first await waits for
    myModule,  \* const module
    myCapture, \* const capture
    printed,   \* what its script printed
    slept,     \* whether its script called sleep
    fed,       \* whose text its script read
    broken,    \* something outside the worker's script has failed
    \* ---- the channel
    inbox,
    outbox,
    invited    \* the caller has been told "ready" and has posted no run since

vars == <<loaded, current, module, busySleep, preInit, out, notices, stdin, executed,
          at, waitsFor, myModule, myCapture, printed, slept, fed, broken, inbox, outbox, invited>>

tracks  == <<executed, printed, slept, fed>>
history == <<tracks, broken>>

Points == {"unsent", "sent", "module", "syncIn", "executing", "executed", "syncOut",
           "posted", "lost"}

Part(j) == {[job |-> j, part |-> "lines"], [job |-> j, part |-> "tail"]}

Msg(type, j)       == [type |-> type, job |-> j]
Answer(type, j, o, n) == [type |-> type, job |-> j, out |-> o, notices |-> n]

\* Awaiting null ends at once, and the handler then stumbles over a null capture.
Awaited(j) == IF waitsFor[j] = 0 THEN "failed" ELSE preInit[waitsFor[j]]

Awake(j) == at[j] = "module" /\ Awaited(j) \in {"done", "failed"}

\* A handler that executes a script has the event loop to itself, and whoever
\* waits for a settled promise resumes before the next message or callback.
Turn == \A j \in Jobs : at[j] \notin {"executing", "executed"} /\ ~Awake(j)

Busy(j) == at[j] \in {"module", "syncIn", "executing", "executed", "syncOut"}

-------------------------------------------------------------------------------
Init ==
    /\ loaded = FALSE
    /\ current = 0
    /\ module = 0
    /\ busySleep = FALSE
    /\ preInit = [g \in Generations |-> "none"]
    /\ out = [g \in Generations |-> {}]
    /\ notices = [g \in Generations |-> {}]
    /\ stdin = [g \in Generations |-> NoJob]
    /\ executed = [g \in Generations |-> {}]
    /\ at = [j \in Jobs |-> "unsent"]
    /\ waitsFor = [j \in Jobs |-> 0]
    /\ myModule = [j \in Jobs |-> 0]
    /\ myCapture = [j \in Jobs |-> 0]
    /\ printed = [j \in Jobs |-> {}]
    /\ slept = {}
    /\ fed = [j \in Jobs |-> NoJob]
    /\ broken = FALSE
    /\ inbox = IF Patient THEN <<Msg("init", NoJob)>> ELSE <<>>
    /\ outbox = <<>>
    /\ invited = FALSE

-------------------------------------------------------------------------------
(* The caller *)

Send(j) ==
    /\ at[j] = "unsent"
    /\ Patient => invited
    /\ invited' = FALSE
    /\ at' = [at EXCEPT ![j] = "sent"]
    /\ inbox' = Append(inbox, Msg("run", j))
    /\ UNCHANGED <<loaded, current, module, busySleep, preInit, out, notices, stdin,
                   waitsFor, myModule, myCapture, history, outbox>>

\* A hand-written caller that does send "init", at any time.
SendInit ==
    /\ ~Patient /\ ~loaded
    /\ \A i \in DOMAIN inbox : inbox[i].type # "init"
    /\ inbox' = Append(inbox, Msg("init", NoJob))
    /\ UNCHANGED <<loaded, current, module, busySleep, preInit, out, notices, stdin, at,
                   waitsFor, myModule, myCapture, history, outbox, invited>>

Take ==
    /\ outbox # <<>>
    /\ outbox' = Tail(outbox)
    /\ invited' = (Head(outbox).type = "ready")
    /\ UNCHANGED <<loaded, current, module, busySleep, preInit, out, notices, stdin, at,
                   waitsFor, myModule, myCapture, history, inbox>>

-------------------------------------------------------------------------------
(* The worker *)

\* A fresh capture and a promise for a fresh module.
StartPreInit ==
    /\ current' = current + 1
    /\ preInit' = [preInit EXCEPT ![current + 1] = "pending"]

\* Mutation of LoadRuntime: it does not look at _runtimeLoaded.
LoadRuntimeAgain == loaded' = TRUE /\ StartPreInit

LoadRuntime ==
    \/ loaded /\ UNCHANGED <<loaded, current, preInit>>
    \/ ~loaded /\ loaded' = TRUE /\ StartPreInit

\* importScripts() throws: the flag stays set and no module is ever started.
LoadFails == Faults /\ ~loaded /\ loaded' = TRUE /\ broken' = TRUE /\ UNCHANGED <<current, preInit>>

Receives(type) == Turn /\ inbox # <<>> /\ Head(inbox).type = type /\ inbox' = Tail(inbox)

OnInit ==
    /\ Receives("init")
    /\ (LoadRuntime /\ UNCHANGED broken) \/ LoadFails
    /\ UNCHANGED <<module, busySleep, out, notices, stdin, at, waitsFor, myModule, myCapture,
                   tracks, outbox, invited>>

\* Mutation of OnRun: no fallback for a run that precedes "init".
OnRunUnloaded(j) ==
    /\ Receives("run") /\ Head(inbox).job = j
    /\ busySleep' = (j \in BusyJobs)
    /\ at' = [at EXCEPT ![j] = IF loaded THEN "module" ELSE "lost"]
    /\ waitsFor' = [waitsFor EXCEPT ![j] = current]
    /\ UNCHANGED <<loaded, current, preInit, module, out, notices, stdin, myModule, myCapture,
                   history, outbox, invited>>

\* The handler of a "run" up to its first await.
OnRun(j) ==
    /\ Receives("run") /\ Head(inbox).job = j
    /\ LoadRuntime
    /\ busySleep' = (j \in BusyJobs)
    /\ at' = [at EXCEPT ![j] = "module"]
    /\ waitsFor' = [waitsFor EXCEPT ![j] = current']
    /\ UNCHANGED <<module, out, notices, stdin, myModule, myCapture, history, outbox, invited>>

\* ... which the exception ends when the run is what loads the runtime.
OnRunUnloadable(j) ==
    /\ Receives("run") /\ Head(inbox).job = j
    /\ LoadFails
    /\ at' = [at EXCEPT ![j] = "lost"]
    /\ UNCHANGED <<module, busySleep, out, notices, stdin, waitsFor, myModule, myCapture, tracks,
                   outbox, invited>>

\* Mutation of ModuleReady: "ready" is posted, but _module still is the old one.
ModuleReadyStale(g) ==
    /\ Turn
    /\ preInit[g] = "pending"
    /\ preInit' = [preInit EXCEPT ![g] = "done"]
    /\ module' = IF module = 0 THEN g ELSE module
    /\ outbox' = Append(outbox, Answer("ready", NoJob, {}, {}))
    /\ UNCHANGED <<loaded, current, busySleep, out, notices, stdin, at, waitsFor, myModule,
                   myCapture, history, inbox, invited>>

\* createZshModule() of generation g resolves.
ModuleReady(g) ==
    /\ Turn
    /\ preInit[g] = "pending"
    /\ preInit' = [preInit EXCEPT ![g] = "done"]
    /\ module' = g
    /\ outbox' = Append(outbox, Answer("ready", NoJob, {}, {}))
    /\ UNCHANGED <<loaded, current, busySleep, out, notices, stdin, at, waitsFor, myModule,
                   myCapture, history, inbox, invited>>

\* Mutation of ModuleFails: the failure never rejects the promise.
ModuleFailsUnreported(g) ==
    /\ Faults /\ Turn
    /\ preInit[g] = "pending"
    /\ preInit' = [preInit EXCEPT ![g] = "none"]
    /\ broken' = TRUE
    /\ UNCHANGED <<loaded, current, module, busySleep, out, notices, stdin, at, waitsFor,
                   myModule, myCapture, tracks, inbox, outbox, invited>>

ModuleFails(g) ==
    /\ Faults /\ Turn
    /\ preInit[g] = "pending"
    /\ preInit' = [preInit EXCEPT ![g] = "failed"]
    /\ broken' = TRUE
    /\ UNCHANGED <<loaded, current, module, busySleep, out, notices, stdin, at, waitsFor,
                   myModule, myCapture, tracks, inbox, outbox, invited>>

Resumes(j) == Awake(j) /\ \A i \in Jobs : at[i] \notin {"executing", "executed"}

\* The promise was rejected, or was null because importScripts() had failed.
ResumeFails(j) ==
    /\ Resumes(j)
    /\ Awaited(j) = "failed"
    /\ at' = [at EXCEPT ![j] = "lost"]
    /\ UNCHANGED <<loaded, current, module, busySleep, preInit, out, notices, stdin, waitsFor,
                   myModule, myCapture, history, inbox, outbox, invited>>

\* FS.mount() throws where a file system is mounted already.
Mounted(m) == \E i \in IdbJobs : myModule[i] = m

\* From the first await to callMain(), or to the second await.
Resume(j) ==
    /\ Resumes(j)
    /\ Awaited(j) = "done"
    /\ myModule' = [myModule EXCEPT ![j] = module]
    /\ myCapture' = [myCapture EXCEPT ![j] = current]
    /\ out' = [out EXCEPT ![current] = {}]
    /\ notices' = [notices EXCEPT ![current] = {}]
    /\ stdin' = [stdin EXCEPT ![current] = j]
    /\ at' = [at EXCEPT ![j] = IF j \notin IdbJobs THEN "executing"
                               ELSE IF Mounted(module) THEN "lost" ELSE "syncIn"]
    /\ UNCHANGED <<loaded, current, module, busySleep, preInit, waitsFor, history,
                   inbox, outbox, invited>>

SyncedIn(j) ==
    /\ Turn
    /\ at[j] = "syncIn"
    /\ at' = [at EXCEPT ![j] = "executing"]
    /\ UNCHANGED <<loaded, current, module, busySleep, preInit, out, notices, stdin, waitsFor,
                   myModule, myCapture, history, inbox, outbox, invited>>

SyncFails(j) ==
    /\ Faults /\ Turn
    /\ at[j] \in {"syncIn", "syncOut"}
    /\ at' = [at EXCEPT ![j] = "lost"]
    /\ broken' = TRUE
    /\ UNCHANGED <<loaded, current, module, busySleep, preInit, out, notices, stdin, waitsFor,
                   myModule, myCapture, tracks, inbox, outbox, invited>>

\* Mutation of Captured: the tty's unterminated line is not flushed.
CapturedLines(parts) == {p \in parts : p.part = "lines"}

\* What reaches the print callback: complete lines as they are written, the rest
\* when libc and the tty are flushed after callMain().
Captured(parts) == parts

\* /dev/wasm_sleep without SharedArrayBuffer: spin, or leave a diagnostic in the
\* capture that is the current one (the global, not the run's own).
NoticesAfter(j, sleeps) ==
    IF sleeps /\ ~busySleep THEN [notices EXCEPT ![current] = @ \union {j}] ELSE notices

\* callMain() returns: the script has printed, slept and read as it liked.
ScriptEnds(j) ==
    /\ at[j] = "executing"
    /\ \E parts \in SUBSET Part(j), sleeps \in BOOLEAN :
           /\ printed' = [printed EXCEPT ![j] = parts]
           /\ out' = [out EXCEPT ![myModule[j]] = @ \union Captured(parts)]
           /\ slept' = IF sleeps THEN slept \union {j} ELSE slept
           /\ notices' = NoticesAfter(j, sleeps)
    /\ fed' = [fed EXCEPT ![j] = stdin[myModule[j]]]
    /\ executed' = [executed EXCEPT ![myModule[j]] = @ \union {j}]
    /\ at' = [at EXCEPT ![j] = IF j \in IdbJobs THEN "syncOut" ELSE "executed"]
    /\ UNCHANGED <<loaded, current, module, busySleep, preInit, stdin, waitsFor, myModule,
                   myCapture, broken, inbox, outbox, invited>>

\* callMain() throws something that is not an exit status.
ScriptTraps(j) ==
    /\ Faults
    /\ at[j] = "executing"
    /\ at' = [at EXCEPT ![j] = "lost"]
    /\ executed' = [executed EXCEPT ![myModule[j]] = @ \union {j}]
    /\ broken' = TRUE
    /\ UNCHANGED <<loaded, current, module, busySleep, preInit, out, notices, stdin, waitsFor,
                   myModule, myCapture, printed, slept, fed, inbox, outbox, invited>>

\* Mutation of PostResult: the next module is not started.
PostResultOnly(j) ==
    /\ at[j] = "executed" \/ (at[j] = "syncOut" /\ Turn)
    /\ outbox' = Append(outbox, Answer("result", j, out[myCapture[j]], notices[myCapture[j]]))
    /\ at' = [at EXCEPT ![j] = "posted"]
    /\ UNCHANGED <<loaded, current, preInit, module, busySleep, out, notices, stdin, waitsFor,
                   myModule, myCapture, history, inbox, invited>>

\* The result is posted and the next module started; with idbfs, once syncfs() is done.
PostResult(j) ==
    /\ at[j] = "executed" \/ (at[j] = "syncOut" /\ Turn)
    /\ outbox' = Append(outbox, Answer("result", j, out[myCapture[j]], notices[myCapture[j]]))
    /\ StartPreInit
    /\ at' = [at EXCEPT ![j] = "posted"]
    /\ UNCHANGED <<loaded, module, busySleep, out, notices, stdin, waitsFor, myModule, myCapture,
                   history, inbox, invited>>

-------------------------------------------------------------------------------
(* The specification *)

Caller == SendInit \/ Take \/ \E j \in Jobs : Send(j)

Handler(j) ==
    \/ OnRun(j) \/ OnRunUnloadable(j)
    \/ Resume(j) \/ ResumeFails(j)
    \/ SyncedIn(j) \/ SyncFails(j)
    \/ ScriptEnds(j) \/ ScriptTraps(j)
    \/ PostResult(j)

Loader(g) == ModuleReady(g) \/ ModuleFails(g)

Next ==
    \/ Caller
    \/ OnInit
    \/ \E g \in Generations : Loader(g)
    \/ \E j \in Jobs : Handler(j)

Spec == Init /\ [][Next]_vars

\* The worker's event loop runs, modules load, scripts end, and the caller
\* handles what it is sent.
Fairness ==
    /\ WF_vars(OnInit)
    /\ WF_vars(Take)
    /\ \A g \in Generations : WF_vars(Loader(g))
    /\ \A j \in Jobs : WF_vars(Handler(j))

FairSpec == Spec /\ Fairness

-------------------------------------------------------------------------------
(* Properties *)

TypeOK ==
    /\ loaded \in BOOLEAN
    /\ current \in {0} \union Generations
    /\ module \in {0} \union Generations
    /\ busySleep \in BOOLEAN
    /\ preInit \in [Generations -> {"none", "pending", "done", "failed"}]
    /\ out \in [Generations -> SUBSET UNION {Part(j) : j \in Jobs}]
    /\ notices \in [Generations -> SUBSET Jobs]
    /\ stdin \in [Generations -> Jobs \union {NoJob}]
    /\ executed \in [Generations -> SUBSET Jobs]
    /\ at \in [Jobs -> Points]
    /\ waitsFor \in [Jobs -> {0} \union Generations]
    /\ myModule \in [Jobs -> {0} \union Generations]
    /\ myCapture \in [Jobs -> {0} \union Generations]
    /\ printed \in [Jobs -> SUBSET UNION {Part(j) : j \in Jobs}]
    /\ slept \subseteq Jobs
    /\ fed \in [Jobs -> Jobs \union {NoJob}]
    /\ broken \in BOOLEAN
    /\ \A i \in DOMAIN inbox : inbox[i].type \in {"init", "run"}
    /\ \A i \in DOMAIN outbox : outbox[i].type \in {"ready", "result"}
    /\ invited \in BOOLEAN

\* No module instance executes two scripts, so no zsh state survives a run.
FreshModule == \A g \in Generations : Cardinality(executed[g]) <= 1

\* The result of a run holds what its script printed, whole and nothing else, and
\* a sleep diagnostic exactly when that script slept without the fallback.
OwnOutput ==
    \A i \in DOMAIN outbox :
        outbox[i].type = "result" =>
            LET j == outbox[i].job IN
            /\ outbox[i].out = printed[j]
            /\ outbox[i].notices = (IF j \in slept \ BusyJobs THEN {j} ELSE {})

\* A script reads its own stdin text.
OwnInput == \A j \in Jobs : at[j] = "posted" => fed[j] = j

\* One run sees nothing of another: its module, its stdin and its result are its
\* own, although all of them pass through globals of the worker that the handler
\* reads after an await (web/zsh-worker.js:108-169).
Isolated == FreshModule /\ OwnInput /\ OwnOutput

\* When the caller is told "ready", _module is the module of the current
\* generation: the next run meets no await that has to wait.
ReadyMeansWarm ==
    invited \/ (\E i \in DOMAIN outbox : outbox[i].type = "ready") =>
        module = current /\ preInit[current] = "done"

\* No handler waits for ever, whatever fails: a run is answered or an exception
\* ends it, and no await is left on a promise that nothing settles.
EveryRunConcludes == \A j \in Jobs : at[j] = "sent" ~> at[j] \in {"posted", "lost"}

\* A run is given up only when a file could not be loaded, a module did not start, a
\* script trapped or IndexedDB failed, or when it is the second idbfs run of a module.
\* Posted before "init", or while another run is at work, it is answered.
LostForCause ==
    \A j \in Jobs : at[j] = "lost" =>
        broken \/ \E i \in IdbJobs \ {j} :
                      j \in IdbJobs /\ myModule[i] # 0 /\ myModule[i] = myModule[j]

-------------------------------------------------------------------------------
(* What the pool relies on *)

Plain(q) == [i \in DOMAIN q |-> Msg(q[i].type, q[i].job)]

Working == {j \in Jobs : Busy(j)}

\* A worker whose importScripts() failed looks like one that is still warming up.
Phase ==
    IF ~loaded THEN "fresh"
    ELSE IF Working # {} THEN "running"
    ELSE IF \E j \in Jobs : at[j] = "lost" THEN "stuck"
    ELSE IF current = 0 THEN "warming"
    ELSE IF preInit[current] = "done" THEN "warm"
    ELSE IF preInit[current] = "failed" THEN "stuck"
    ELSE "warming"

\* A job whose handler was ended by an exception is still the worker's script.
Script ==
    LET mine == {j \in Jobs : Busy(j) \/ at[j] = "lost"}
    IN  IF mine = {} THEN NoJob ELSE CHOOSE j \in mine : TRUE

Contract == INSTANCE WorkerContract WITH
    phase <- Phase, script <- Script, inbox <- Plain(inbox), outbox <- Plain(outbox)

\* To a caller that waits for "ready" the worker is the one WorkerPool counts on.
KeepsContract == Contract!Spec
===============================================================================
