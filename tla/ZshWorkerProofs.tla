--------------------------- MODULE ZshWorkerProofs ---------------------------
(***************************************************************************)
(* Proofs about ZshWorker, for any number of jobs of any kinds, with and   *)
(* without faults.                                                         *)
(*                                                                         *)
(* TypeInv and CauseInv hold whoever the caller is.  The other invariants  *)
(* hold when it is the pool: TurnsInv says that only one thing goes on in  *)
(* the worker and its two channels at a time, OwnersInv that a run and its *)
(* module belong to each other, and OwnInv that what a handler reads after *)
(* an await is what it would have read before it.  View says what of this  *)
(* the caller sees; step by step it is what WorkerContract allows.         *)
(***************************************************************************)
EXTENDS ZshWorker, FiniteSetTheorems, SequenceTheorems, TLAPS

Request == [type : {"init", "run"}, job : Jobs \union {NoJob}]
Reply == [type : {"ready", "result"}, job : Jobs \union {NoJob},
          out : SUBSET UNION {Part(j) : j \in Jobs}, notices : SUBSET Jobs]

Posted == {j \in Jobs : at[j] = "posted"}

\* The handler of job j is past its first await.
Past(j) == at[j] \in {"syncIn", "executing", "executed", "syncOut"}

\* A "run" message is in the inbox once, and nobody has worked on it.
QueueInv ==
    /\ \A i \in DOMAIN inbox : inbox[i].type = "run" => /\ inbox[i].job \in Jobs
                                                       /\ at[inbox[i].job] = "sent"
    /\ \A i, k \in DOMAIN inbox :
         inbox[i].type = "run" /\ inbox[k].type = "run" /\ inbox[i].job = inbox[k].job => i = k

\* There is one generation for the start and one for each result.
TypeInv ==
    /\ TypeOK
    /\ QueueInv
    /\ inbox \in Seq(Request) /\ outbox \in Seq(Reply)
    /\ ~loaded => current = 0
    /\ current <= Cardinality(Posted) + 1
    /\ \A g \in Generations : preInit[g] # "none" => current # 0
    /\ \A g \in Generations : preInit[g] = "done" => module # 0
    /\ \A j \in Jobs : Past(j) => loaded /\ myModule[j] # 0 /\ myCapture[j] # 0

\* What a handler finds null, or rejected, is so because something has failed.
CauseInv ==
    /\ loaded /\ current = 0 => broken
    /\ \A g \in Generations : preInit[g] = "failed" => broken
    /\ \A j \in Jobs : at[j] = "module" /\ waitsFor[j] = 0 => broken
    /\ \A j \in Jobs : at[j] \in {"unsent", "sent", "module"} => myModule[j] = 0
    /\ LostForCause

\* Generations are counted from 1.
LEMMA Numbers ==
    /\ Cardinality(Jobs) \in Nat
    /\ \A g \in Generations : g \in Nat /\ g # 0
    /\ 1 \in Generations
  <1>1. Cardinality(Jobs) \in Nat BY FS_CardinalityType, WorkerAssumption
  <1> QED BY <1>1 DEF Generations

\* There is a generation for the start and one for every run that is answered.
LEMMA NextGeneration ==
    ASSUME TypeInv, NEW j \in Jobs, at[j] # "posted"
    PROVE  /\ current + 1 \in Generations
           /\ Cardinality(Posted) \in Nat
           /\ Cardinality(Posted \union {j}) = Cardinality(Posted) + 1
  <1>1. IsFiniteSet(Jobs) /\ Posted \subseteq Jobs /\ Posted \union {j} \subseteq Jobs /\ j \notin Posted
    BY WorkerAssumption DEF Posted
  <1>2. IsFiniteSet(Posted) BY <1>1, FS_Subset
  <1>3. Cardinality(Posted \union {j}) = Cardinality(Posted) + 1 BY <1>1, <1>2, FS_AddElement
  <1>4. Cardinality(Posted \union {j}) <= Cardinality(Jobs) BY <1>1, FS_Subset
  <1>5. Cardinality(Posted) \in Nat BY <1>2, FS_CardinalityType
  <1>6. current \in Nat /\ current <= Cardinality(Posted) + 1
    BY Numbers DEF TypeInv, TypeOK
  <1> QED BY <1>3, <1>4, <1>5, <1>6, Numbers DEF Generations

\* The messages of the two channels.
LEMMA Messages ==
    /\ \A q \in Seq(Request) : \A i \in DOMAIN q : q[i] \in Request /\ q[i].type \in {"init", "run"}
    /\ \A q \in Seq(Reply) : \A i \in DOMAIN q : q[i] \in Reply /\ q[i].type \in {"ready", "result"}
    /\ Msg("init", NoJob) \in Request
    /\ \A j \in Jobs : Msg("run", j) \in Request
    /\ Answer("ready", NoJob, {}, {}) \in Reply
    /\ \A j \in Jobs, o \in SUBSET UNION {Part(k) : k \in Jobs}, n \in SUBSET Jobs :
         Answer("result", j, o, n) \in Reply
  <1>1. \A q \in Seq(Request) : \A i \in DOMAIN q : q[i] \in Request OBVIOUS
  <1>2. \A q \in Seq(Reply) : \A i \in DOMAIN q : q[i] \in Reply OBVIOUS
  <1> QED BY <1>1, <1>2 DEF Request, Reply, Msg, Answer

\* A message that is taken leaves messages.
LEMMA Taken ==
    ASSUME NEW S, NEW q \in Seq(S), q # <<>>
    PROVE  /\ Head(q) = q[1] /\ Head(q) \in S
           /\ Tail(q) \in Seq(S) /\ Len(Tail(q)) = Len(q) - 1
           /\ Len(q) \in Nat \ {0}
           /\ \A i \in 1..(Len(q) - 1) : Tail(q)[i] = q[i + 1]
  OBVIOUS

\* A worker that has just been constructed has the right types.
LEMMA TypeInit == Init => TypeInv
  <1> SUFFICES ASSUME Init PROVE TypeInv OBVIOUS
  <1> USE WorkerAssumption
  <1>1. inbox \in Seq(Request) /\ outbox \in Seq(Reply)
    <2>1. <<>> \in Seq(Request) /\ <<>> \in Seq(Reply) /\ <<Msg("init", NoJob)>> \in Seq(Request)
      BY Messages
    <2> QED BY <2>1 DEF Init
  <1>2. /\ \A i \in DOMAIN inbox : inbox[i].type \in {"init", "run"}
        /\ \A i \in DOMAIN outbox : outbox[i].type \in {"ready", "result"}
    BY <1>1, Messages, Zenon
  <1>3. Posted = {} BY DEF Init, Posted
  <1>4. Cardinality(Posted) = 0 BY <1>3, FS_EmptySet
  <1>5. TypeOK BY <1>2 DEF Init, TypeOK, Points
  <1>6. QueueInv BY DEF Init, QueueInv, Msg
  <1> QED BY <1>1, <1>4, <1>5, <1>6 DEF Init, TypeInv, Past

\* What a step has to see to: the variables of the worker, those of the jobs, and
\* the channels.
WorkerTypes ==
    /\ loaded \in BOOLEAN /\ busySleep \in BOOLEAN /\ broken \in BOOLEAN /\ invited \in BOOLEAN
    /\ current \in {0} \union Generations /\ module \in {0} \union Generations
    /\ preInit \in [Generations -> {"none", "pending", "done", "failed"}]
    /\ ~loaded => current = 0
    /\ current <= Cardinality(Posted) + 1
    /\ \A g \in Generations : preInit[g] # "none" => current # 0
    /\ \A g \in Generations : preInit[g] = "done" => module # 0

CaptureTypes ==
    /\ out \in [Generations -> SUBSET UNION {Part(j) : j \in Jobs}]
    /\ notices \in [Generations -> SUBSET Jobs]
    /\ stdin \in [Generations -> Jobs \union {NoJob}]
    /\ executed \in [Generations -> SUBSET Jobs]
    /\ printed \in [Jobs -> SUBSET UNION {Part(j) : j \in Jobs}]
    /\ slept \subseteq Jobs
    /\ fed \in [Jobs -> Jobs \union {NoJob}]

HandlerTypes ==
    /\ at \in [Jobs -> Points]
    /\ waitsFor \in [Jobs -> {0} \union Generations]
    /\ myModule \in [Jobs -> {0} \union Generations]
    /\ myCapture \in [Jobs -> {0} \union Generations]
    /\ \A j \in Jobs : Past(j) => loaded /\ myModule[j] # 0 /\ myCapture[j] # 0

\* The types of all variables, in the three parts.
LEMMA TypeParts ==
    TypeInv <=> /\ WorkerTypes /\ CaptureTypes /\ HandlerTypes
                /\ QueueInv /\ inbox \in Seq(Request) /\ outbox \in Seq(Reply)
  BY Messages, Zenon DEF TypeInv, TypeOK, WorkerTypes, CaptureTypes, HandlerTypes
\* A step that answers no run, and loads the runtime at most.
LEMMA WorkerSame ==
    ASSUME TypeInv, Posted' = Posted,
           \/ UNCHANGED <<loaded, current, preInit>>
           \/ LoadRuntime
           \/ LoadFails,
           module' = module, busySleep' \in BOOLEAN, broken' \in BOOLEAN, invited' \in BOOLEAN
    PROVE  WorkerTypes'
  <1>1. WorkerTypes BY TypeParts
  <1>2. CASE UNCHANGED <<loaded, current, preInit>> BY <1>1, <1>2 DEF WorkerTypes
  <1>3. CASE ~loaded /\ loaded' = TRUE /\ UNCHANGED <<current, preInit>>
    BY <1>1, <1>3 DEF WorkerTypes
  <1>4. CASE ~loaded /\ loaded' = TRUE /\ StartPreInit
    <2>1. current = 0 BY <1>1, <1>4 DEF WorkerTypes
    <2>2. current' = 1 /\ preInit' = [preInit EXCEPT ![1] = "pending"] BY <1>4, <2>1 DEF StartPreInit
    <2>3. Cardinality(Posted) \in Nat
      BY WorkerAssumption, FS_Subset, FS_CardinalityType DEF Posted
    <2> QED BY <1>1, <1>4, <2>1, <2>2, <2>3, Numbers DEF WorkerTypes
  <1> QED BY <1>2, <1>3, <1>4 DEF LoadRuntime, LoadFails

\* A handler that goes on, and posts no result.
LEMMA PostedSame ==
    ASSUME TypeInv, NEW j \in Jobs, at[j] # "posted", NEW p \in Points \ {"posted"},
           at' = [at EXCEPT ![j] = p]
    PROVE  Posted' = Posted /\ at' \in [Jobs -> Points]
  BY DEF TypeInv, TypeOK, Posted

\* A message that is taken leaves the others.
LEMMA Received ==
    ASSUME TypeInv, NEW type, Receives(type)
    PROVE  /\ inbox' \in Seq(Request) /\ DOMAIN inbox = 1..Len(inbox) /\ Len(inbox) \in Nat \ {0}
           /\ DOMAIN inbox' = 1..(Len(inbox) - 1)
           /\ \A i \in DOMAIN inbox' : inbox'[i] = inbox[i + 1] /\ i + 1 \in DOMAIN inbox
           /\ inbox[1].type = type /\ inbox[1] = Head(inbox)
           /\ type = "run" => Head(inbox).job \in Jobs /\ at[Head(inbox).job] = "sent"
  <1>1. inbox \in Seq(Request) /\ inbox # <<>> /\ Head(inbox).type = type /\ inbox' = Tail(inbox)
    BY DEF Receives, TypeInv
  <1>2. /\ Head(inbox) = inbox[1] /\ inbox' \in Seq(Request) /\ Len(inbox') = Len(inbox) - 1
        /\ Len(inbox) \in Nat \ {0} /\ \A i \in 1..(Len(inbox) - 1) : inbox'[i] = inbox[i + 1]
    BY <1>1, Taken
  <1>3. DOMAIN inbox = 1..Len(inbox) /\ DOMAIN inbox' = 1..Len(inbox') BY <1>1, <1>2
  <1>4. 1 \in DOMAIN inbox /\ \A i \in DOMAIN inbox' : i + 1 \in DOMAIN inbox BY <1>2, <1>3
  <1>5. type = "run" => inbox[1].job \in Jobs /\ at[inbox[1].job] = "sent"
    BY <1>1, <1>2, <1>4 DEF TypeInv, QueueInv
  <1> QED BY <1>1, <1>2, <1>3, <1>4, <1>5

\* A step in which no handler goes on keeps the types of the handlers.
LEMMA HandlerSame ==
    ASSUME TypeInv, loaded => loaded', UNCHANGED <<at, waitsFor, myModule, myCapture>>
    PROVE  HandlerTypes'
  BY TypeParts DEF HandlerTypes, Past

\* A handler before its first await, or one that ends.
LEMMA HandlerMoves ==
    ASSUME TypeInv, loaded => loaded', NEW j \in Jobs, UNCHANGED <<myModule, myCapture>>,
           NEW p \in Points, at' = [at EXCEPT ![j] = p],
           p \in {"syncIn", "executing", "executed", "syncOut"} => Past(j),
           waitsFor' \in [Jobs -> {0} \union Generations]
    PROVE  HandlerTypes'
  BY TypeParts DEF HandlerTypes, Past

\* Every step keeps the types of the worker's variables.
LEMMA WorkerKept == TypeInv /\ [Next]_vars => WorkerTypes'
  <1> SUFFICES ASSUME TypeInv, [Next]_vars PROVE WorkerTypes' OBVIOUS
  <1>1. WorkerTypes BY TypeParts
  <1>2. busySleep \in BOOLEAN /\ broken \in BOOLEAN /\ invited \in BOOLEAN BY <1>1 DEF WorkerTypes
  <1>3. ASSUME NEW j \in Jobs, NEW p \in Points \ {"posted"}, at[j] # "posted",
               at' = [at EXCEPT ![j] = p],
               UNCHANGED <<loaded, current, preInit>> \/ LoadRuntime \/ LoadFails,
               module' = module, busySleep' \in BOOLEAN, broken' \in BOOLEAN, invited' \in BOOLEAN
        PROVE  WorkerTypes'
    BY <1>3, PostedSame, WorkerSame
  <1>4. ASSUME UNCHANGED at,
               UNCHANGED <<loaded, current, preInit>> \/ LoadRuntime \/ LoadFails,
               module' = module, busySleep' \in BOOLEAN, broken' \in BOOLEAN, invited' \in BOOLEAN
        PROVE  WorkerTypes'
    BY <1>4, WorkerSame DEF Posted
  <1>5. ASSUME NEW j \in Jobs, Send(j) PROVE WorkerTypes'
    BY <1>2, <1>3, <1>5 DEF Send, Points, history
  <1>6. CASE SendInit \/ Take
    BY <1>2, <1>4, <1>6 DEF SendInit, Take, history
  <1>7. CASE OnInit
    <2>1. broken' \in BOOLEAN BY <1>2, <1>7 DEF OnInit, LoadFails
    <2> QED BY <1>2, <1>4, <1>7, <2>1 DEF OnInit
  <1>8. ASSUME NEW g \in Generations, Loader(g) PROVE WorkerTypes'
    <2>1. Posted' = Posted BY <1>8 DEF Loader, ModuleReady, ModuleFails, Posted
    <2>2. g # 0 /\ current # 0 BY <1>1, <1>8, Numbers DEF WorkerTypes, Loader, ModuleReady, ModuleFails
    <2> QED BY <1>1, <1>8, <2>1, <2>2 DEF WorkerTypes, Loader, ModuleReady, ModuleFails, history
  <1>9. ASSUME NEW j \in Jobs, OnRun(j) \/ OnRunUnloadable(j) PROVE WorkerTypes'
    <2>1. at[j] = "sent" BY <1>9, Received DEF OnRun, OnRunUnloadable
    <2>2. CASE OnRun(j)
      <3>1. /\ at' = [at EXCEPT ![j] = "module"] /\ LoadRuntime /\ UNCHANGED <<module, broken, invited>>
            /\ busySleep' \in BOOLEAN
        BY <2>2 DEF OnRun, history
      <3>2. "module" \in Points \ {"posted"} BY DEF Points
      <3> QED BY <1>2, <1>3, <2>1, <3>1, <3>2, Zenon
    <2>3. CASE OnRunUnloadable(j)
      BY <1>2, <1>3, <1>9, <2>1, <2>3 DEF OnRunUnloadable, LoadFails, Points, history
    <2> QED BY <1>9, <2>2, <2>3
  <1>10. ASSUME NEW j \in Jobs, Resume(j) PROVE WorkerTypes'
    <2>1. CASE j \notin IdbJobs
      BY <1>2, <1>3, <1>10, <2>1 DEF Resume, Resumes, Awake, Points, history
    <2>2. CASE j \in IdbJobs /\ Mounted(module)
      BY <1>2, <1>3, <1>10, <2>2 DEF Resume, Resumes, Awake, Points, history
    <2>3. CASE j \in IdbJobs /\ ~Mounted(module)
      BY <1>2, <1>3, <1>10, <2>3 DEF Resume, Resumes, Awake, Points, history
    <2> QED BY <2>1, <2>2, <2>3
  <1>11. ASSUME NEW j \in Jobs, ResumeFails(j) \/ SyncedIn(j) \/ SyncFails(j) PROVE WorkerTypes'
    BY <1>2, <1>3, <1>11 DEF ResumeFails, SyncedIn, SyncFails, Resumes, Awake, Points, history
  <1>12. ASSUME NEW j \in Jobs, ScriptTraps(j) PROVE WorkerTypes'
    BY <1>2, <1>3, <1>12 DEF ScriptTraps, Points
  <1>13. ASSUME NEW j \in Jobs, ScriptEnds(j) PROVE WorkerTypes'
    <2>1. CASE j \in IdbJobs BY <1>2, <1>3, <1>13, <2>1 DEF ScriptEnds, Points
    <2>2. CASE j \notin IdbJobs BY <1>2, <1>3, <1>13, <2>2 DEF ScriptEnds, Points
    <2> QED BY <2>1, <2>2
  <1>14. ASSUME NEW j \in Jobs, PostResult(j) PROVE WorkerTypes'
    <2>1. Past(j) /\ at[j] # "posted" BY <1>14 DEF PostResult, Past
    <2>2. Posted' = Posted \union {j} BY <1>14 DEF PostResult, Posted, TypeInv, TypeOK
    <2>3. /\ current + 1 \in Generations /\ Cardinality(Posted) \in Nat
          /\ Cardinality(Posted') = Cardinality(Posted) + 1
      BY <2>1, <2>2, NextGeneration
    <2>4. current \in Nat /\ current <= Cardinality(Posted) + 1
      BY <1>1, Numbers DEF WorkerTypes
    <2>5. current' = current + 1 /\ preInit' = [preInit EXCEPT ![current + 1] = "pending"]
      BY <1>14 DEF PostResult, StartPreInit
    <2>6. current' # 0 /\ current' <= Cardinality(Posted') + 1 BY <2>3, <2>4, <2>5
    <2>7. /\ preInit' \in [Generations -> {"none", "pending", "done", "failed"}]
          /\ \A g \in Generations : preInit'[g] = "done" => module # 0
      BY <1>1, <2>3, <2>5 DEF WorkerTypes
    <2>8. loaded BY <2>1, TypeParts DEF HandlerTypes
    <2> QED BY <1>1, <1>14, <2>3, <2>5, <2>6, <2>7, <2>8 DEF WorkerTypes, PostResult, history, tracks
  <1>15. CASE UNCHANGED vars
    BY <1>2, <1>4, <1>15 DEF vars, history, tracks
  <1> QED
    BY <1>5, <1>6, <1>7, <1>8, <1>9, <1>10, <1>11, <1>12, <1>13, <1>14, <1>15
    DEF Next, Caller, Handler

\* ... those of the handlers,
LEMMA HandlersKept == TypeInv /\ [Next]_vars => HandlerTypes'
  <1> SUFFICES ASSUME TypeInv, [Next]_vars PROVE HandlerTypes' OBVIOUS
  <1>1. WorkerTypes /\ HandlerTypes BY TypeParts
  <1>2. loaded => loaded'
    BY DEF Next, vars, Caller, Send, SendInit, Take, OnInit, LoadRuntime, LoadFails, Loader,
           ModuleReady, ModuleFails, Handler, OnRun, OnRunUnloadable, Resume, ResumeFails, SyncedIn,
           SyncFails, ScriptEnds, ScriptTraps, PostResult
  <1>3. waitsFor \in [Jobs -> {0} \union Generations] BY <1>1 DEF HandlerTypes
  <1>4. ASSUME NEW j \in Jobs, NEW p \in Points, at' = [at EXCEPT ![j] = p],
               p \notin {"syncIn", "executing", "executed", "syncOut"} \/ Past(j),
               UNCHANGED <<waitsFor, myModule, myCapture>>
        PROVE  HandlerTypes'
    BY <1>2, <1>3, <1>4, HandlerMoves
  <1>5. ASSUME NEW j \in Jobs, Send(j) PROVE HandlerTypes'
    BY <1>4, <1>5 DEF Send, Points
  <1>6. CASE SendInit \/ Take \/ OnInit \/ UNCHANGED vars
    BY <1>2, <1>6, HandlerSame DEF SendInit, Take, OnInit, vars
  <1>7. ASSUME NEW g \in Generations, Loader(g) PROVE HandlerTypes'
    BY <1>2, <1>7, HandlerSame DEF Loader, ModuleReady, ModuleFails
  <1>8. ASSUME NEW j \in Jobs, OnRun(j) PROVE HandlerTypes'
    <2>1. current' \in {0} \union Generations BY WorkerKept DEF WorkerTypes
    <2>2. waitsFor' \in [Jobs -> {0} \union Generations] BY <1>3, <1>8, <2>1 DEF OnRun
    <2>3. at' = [at EXCEPT ![j] = "module"] /\ UNCHANGED <<myModule, myCapture>> BY <1>8 DEF OnRun
    <2>4. "module" \in Points BY DEF Points
    <2> QED BY <1>2, <2>2, <2>3, <2>4, HandlerMoves
  <1>9. ASSUME NEW j \in Jobs, OnRunUnloadable(j) \/ ResumeFails(j) \/ SyncFails(j) \/ ScriptTraps(j)
        PROVE  HandlerTypes'
    BY <1>4, <1>9 DEF OnRunUnloadable, ResumeFails, SyncFails, ScriptTraps, Points
  <1>10. ASSUME NEW j \in Jobs, Resume(j) PROVE HandlerTypes'
    <2>1. module # 0 /\ current # 0 /\ loaded
      <3>1. waitsFor[j] \in Generations /\ preInit[waitsFor[j]] = "done"
        BY <1>3, <1>10 DEF Resume, Awaited
      <3> QED BY <1>1, <3>1 DEF WorkerTypes
    <2>2. module \in {0} \union Generations /\ current \in {0} \union Generations
      BY <1>1 DEF WorkerTypes
    <2>3. PICK p \in Points : at' = [at EXCEPT ![j] = p] BY <1>10 DEF Resume, Points
    <2>4. /\ myModule' = [myModule EXCEPT ![j] = module] /\ myCapture' = [myCapture EXCEPT ![j] = current]
          /\ waitsFor' = waitsFor
      BY <1>10 DEF Resume
    <2> QED BY <1>1, <1>2, <2>1, <2>2, <2>3, <2>4 DEF HandlerTypes, Past
  <1>11. ASSUME NEW j \in Jobs, SyncedIn(j) PROVE HandlerTypes'
    BY <1>4, <1>11 DEF SyncedIn, Points, Past
  <1>12. ASSUME NEW j \in Jobs, ScriptEnds(j) PROVE HandlerTypes'
    <2>1. PICK p \in Points : at' = [at EXCEPT ![j] = p] BY <1>12 DEF ScriptEnds, Points
    <2>2. Past(j) /\ UNCHANGED <<waitsFor, myModule, myCapture>> BY <1>12 DEF ScriptEnds, Past
    <2> QED BY <1>4, <2>1, <2>2
  <1>13. ASSUME NEW j \in Jobs, PostResult(j) PROVE HandlerTypes'
    BY <1>4, <1>13 DEF PostResult, Points
  <1> QED
    BY <1>5, <1>6, <1>7, <1>8, <1>9, <1>10, <1>11, <1>12, <1>13 DEF Next, Caller, Handler

\* ... and those of what is captured.
LEMMA CapturesKept == TypeInv /\ [Next]_vars => CaptureTypes'
  <1> SUFFICES ASSUME TypeInv, [Next]_vars PROVE CaptureTypes' OBVIOUS
  <1>1. WorkerTypes /\ HandlerTypes /\ CaptureTypes BY TypeParts
  <1>2. ASSUME UNCHANGED <<out, notices, stdin, executed, printed, slept, fed>> PROVE CaptureTypes'
    BY <1>1, <1>2 DEF CaptureTypes
  <1>3. CASE UNCHANGED vars \/ Caller \/ OnInit \/ \E g \in Generations : Loader(g)
    BY <1>2, <1>3 DEF vars, Caller, Send, SendInit, Take, OnInit, Loader, ModuleReady, ModuleFails,
                      history, tracks
  <1>4. ASSUME NEW j \in Jobs, \/ OnRun(j) \/ OnRunUnloadable(j) \/ ResumeFails(j) \/ SyncedIn(j)
                               \/ SyncFails(j) \/ PostResult(j)
        PROVE  CaptureTypes'
    BY <1>2, <1>4 DEF OnRun, OnRunUnloadable, ResumeFails, SyncedIn, SyncFails, PostResult,
                      history, tracks
  <1>5. ASSUME NEW j \in Jobs, Resume(j) PROVE CaptureTypes'
    BY <1>1, <1>5 DEF CaptureTypes, Resume, history, tracks
  <1>6. ASSUME NEW j \in Jobs, ScriptTraps(j) PROVE CaptureTypes'
    BY <1>1, <1>6 DEF CaptureTypes, ScriptTraps
  <1>7. ASSUME NEW j \in Jobs, ScriptEnds(j) PROVE CaptureTypes'
    <2>1. PICK parts \in SUBSET Part(j), sleeps \in BOOLEAN :
            /\ printed' = [printed EXCEPT ![j] = parts]
            /\ out' = [out EXCEPT ![myModule[j]] = @ \union parts]
            /\ slept' = IF sleeps THEN slept \union {j} ELSE slept
            /\ notices' = NoticesAfter(j, sleeps)
      BY <1>7 DEF ScriptEnds, Captured
    <2>2. myModule[j] \in Generations
      BY <1>1, <1>7 DEF ScriptEnds, HandlerTypes, Past
    <2>3. parts \in SUBSET UNION {Part(k) : k \in Jobs} OBVIOUS
    <2>4. printed' \in [Jobs -> SUBSET UNION {Part(k) : k \in Jobs}]
      BY <1>1, <2>1, <2>3 DEF CaptureTypes
    <2>5. out' \in [Generations -> SUBSET UNION {Part(k) : k \in Jobs}]
      BY <1>1, <2>1, <2>2, <2>3 DEF CaptureTypes
    <2>6. slept' \subseteq Jobs BY <1>1, <2>1 DEF CaptureTypes
    <2>7. notices' \in [Generations -> SUBSET Jobs]
      BY <1>1, <2>1 DEF CaptureTypes, NoticesAfter
    <2>8. fed' \in [Jobs -> Jobs \union {NoJob}]
      BY <1>1, <1>7, <2>2 DEF CaptureTypes, ScriptEnds
    <2>9. executed' \in [Generations -> SUBSET Jobs]
      BY <1>1, <1>7, <2>2 DEF CaptureTypes, ScriptEnds
    <2>10. stdin' = stdin BY <1>7 DEF ScriptEnds
    <2> QED BY <1>1, <2>4, <2>5, <2>6, <2>7, <2>8, <2>9, <2>10 DEF CaptureTypes
  <1> QED BY <1>3, <1>4, <1>5, <1>6, <1>7 DEF Next, Handler
\* Who has received a message has no other one.
LEMMA QueueTaken ==
    ASSUME TypeInv, NEW type, Receives(type),
           \/ type = "init" /\ at' = at
           \/ type = "run" /\ \E p : at' = [at EXCEPT ![Head(inbox).job] = p]
    PROVE  QueueInv' /\ inbox' \in Seq(Request)
  <1>1. /\ inbox' \in Seq(Request) /\ DOMAIN inbox = 1..Len(inbox) /\ Len(inbox) \in Nat \ {0}
        /\ DOMAIN inbox' = 1..(Len(inbox) - 1)
        /\ \A i \in DOMAIN inbox' : inbox'[i] = inbox[i + 1] /\ i + 1 \in DOMAIN inbox
        /\ inbox[1].type = type /\ inbox[1] = Head(inbox)
    BY Received
  <1>2. at \in [Jobs -> Points] BY DEF TypeInv, TypeOK
  <1>3. /\ \A i \in DOMAIN inbox : inbox[i].type = "run" => /\ inbox[i].job \in Jobs
                                                           /\ at[inbox[i].job] = "sent"
        /\ \A i, k \in DOMAIN inbox :
             inbox[i].type = "run" /\ inbox[k].type = "run" /\ inbox[i].job = inbox[k].job => i = k
    BY DEF TypeInv, QueueInv
  <1>4. ASSUME NEW i \in DOMAIN inbox', inbox'[i].type = "run"
        PROVE  inbox'[i].job \in Jobs /\ at'[inbox'[i].job] = "sent"
    <2>1. /\ inbox'[i] = inbox[i + 1] /\ inbox[i + 1].job \in Jobs /\ at[inbox[i + 1].job] = "sent"
          /\ i + 1 \in DOMAIN inbox /\ i + 1 # 1 /\ 1 \in DOMAIN inbox
      BY <1>1, <1>3, <1>4
    <2>2. type = "run" => inbox[i + 1].job # inbox[1].job BY <1>1, <1>3, <1>4, <2>1
    <2> QED BY <1>1, <1>2, <2>1, <2>2
  <1>5. ASSUME NEW i \in DOMAIN inbox', NEW k \in DOMAIN inbox', inbox'[i].type = "run",
               inbox'[k].type = "run", inbox'[i].job = inbox'[k].job
        PROVE  i = k
    <2>1. i + 1 = k + 1 BY <1>1, <1>3, <1>5
    <2> QED BY <1>1, <2>1
  <1> QED BY <1>1, <1>4, <1>5 DEF QueueInv

\* Posting a message keeps the inbox in order.
LEMMA QueueAppended ==
    ASSUME TypeInv, NEW m \in Request, inbox' = Append(inbox, m),
           \/ m.type = "init" /\ at' = at
           \/ /\ m.type = "run" /\ m.job \in Jobs /\ at[m.job] # "sent"
              /\ at' = [at EXCEPT ![m.job] = "sent"]
    PROVE  QueueInv' /\ inbox' \in Seq(Request)
  <1>1. inbox \in Seq(Request) /\ at \in [Jobs -> Points] BY DEF TypeInv, TypeOK
  <1>2. /\ inbox' \in Seq(Request) /\ DOMAIN inbox = 1..Len(inbox) /\ Len(inbox) \in Nat
        /\ DOMAIN inbox' = 1..(Len(inbox) + 1)
        /\ \A i \in DOMAIN inbox : inbox'[i] = inbox[i]
        /\ inbox'[Len(inbox) + 1] = m
    BY <1>1
  <1>3. \A i \in DOMAIN inbox' : (i \in DOMAIN inbox /\ inbox'[i] = inbox[i])
                                  \/ (i = Len(inbox) + 1 /\ inbox'[i] = m)
    BY <1>2
  <1>4. /\ \A i \in DOMAIN inbox : inbox[i].type = "run" => /\ inbox[i].job \in Jobs
                                                           /\ at[inbox[i].job] = "sent"
        /\ \A i, k \in DOMAIN inbox :
             inbox[i].type = "run" /\ inbox[k].type = "run" /\ inbox[i].job = inbox[k].job => i = k
    BY DEF TypeInv, QueueInv
  <1>5. \A i \in DOMAIN inbox' : inbox'[i].type = "run" => /\ inbox'[i].job \in Jobs
                                                          /\ at'[inbox'[i].job] = "sent"
    BY <1>1, <1>3, <1>4
  <1>6. \A i, k \in DOMAIN inbox' :
          inbox'[i].type = "run" /\ inbox'[k].type = "run" /\ inbox'[i].job = inbox'[k].job => i = k
    BY <1>3, <1>4
  <1> QED BY <1>2, <1>5, <1>6 DEF QueueInv

\* So does a handler that goes on and takes none.
LEMMA QueueSame ==
    ASSUME TypeInv, inbox' = inbox,
           at' = at \/ \E j \in Jobs : \E p : at[j] # "sent" /\ at' = [at EXCEPT ![j] = p]
    PROVE  QueueInv' /\ inbox' \in Seq(Request)
  BY DEF TypeInv, TypeOK, QueueInv

\* Every step keeps the inbox in order.
LEMMA QueueKept == TypeInv /\ [Next]_vars => QueueInv' /\ inbox' \in Seq(Request)
  <1> SUFFICES ASSUME TypeInv, [Next]_vars PROVE QueueInv' /\ inbox' \in Seq(Request) OBVIOUS
  <1>1. ASSUME NEW j \in Jobs, Send(j) PROVE QueueInv' /\ inbox' \in Seq(Request)
    <2>1. Msg("run", j).type = "run" /\ Msg("run", j).job = j BY DEF Msg
    <2> QED BY <1>1, <2>1, Messages, QueueAppended DEF Send
  <1>2. CASE SendInit
    <2>1. Msg("init", NoJob).type = "init" BY DEF Msg
    <2> QED BY <1>2, <2>1, Messages, QueueAppended DEF SendInit
  <1>3. CASE OnInit BY <1>3, QueueTaken DEF OnInit
  <1>4. ASSUME NEW j \in Jobs, OnRun(j) \/ OnRunUnloadable(j) PROVE QueueInv' /\ inbox' \in Seq(Request)
    BY <1>4, QueueTaken DEF OnRun, OnRunUnloadable
  <1>5. CASE Take \/ (\E g \in Generations : Loader(g)) \/ UNCHANGED vars
    BY <1>5, QueueSame DEF Take, Loader, ModuleReady, ModuleFails, vars
  <1>6. ASSUME NEW j \in Jobs, NEW p, at[j] # "sent", at' = [at EXCEPT ![j] = p], inbox' = inbox
        PROVE  QueueInv' /\ inbox' \in Seq(Request)
    BY <1>6, QueueSame
  <1>7. ASSUME NEW j \in Jobs, \/ Resume(j) \/ ResumeFails(j) \/ SyncedIn(j) \/ SyncFails(j)
                               \/ ScriptEnds(j) \/ ScriptTraps(j) \/ PostResult(j)
        PROVE  QueueInv' /\ inbox' \in Seq(Request)
    BY <1>6, <1>7 DEF Resume, Resumes, Awake, ResumeFails, SyncedIn, SyncFails, ScriptEnds, ScriptTraps,
                      PostResult
  <1> QED BY <1>1, <1>2, <1>3, <1>4, <1>5, <1>7 DEF Next, Caller, Handler

\* Every step posts replies only.
LEMMA RepliesKept == TypeInv /\ [Next]_vars => outbox' \in Seq(Reply)
  <1> SUFFICES ASSUME TypeInv, [Next]_vars PROVE outbox' \in Seq(Reply) OBVIOUS
  <1>1. outbox \in Seq(Reply) /\ HandlerTypes /\ CaptureTypes BY TypeParts
  <1>2. ASSUME NEW m \in Reply, outbox' = Append(outbox, m) PROVE outbox' \in Seq(Reply)
    BY <1>1, <1>2
  <1>3. ASSUME outbox' = outbox PROVE outbox' \in Seq(Reply)
    BY <1>1, <1>3
  <1>4. CASE Take BY <1>1, <1>4, Taken DEF Take
  <1>5. ASSUME NEW g \in Generations, Loader(g) PROVE outbox' \in Seq(Reply)
    BY <1>2, <1>3, <1>5, Messages DEF Loader, ModuleReady, ModuleFails
  <1>6. ASSUME NEW j \in Jobs, PostResult(j) PROVE outbox' \in Seq(Reply)
    <2>1. myCapture[j] \in Generations BY <1>1, <1>6 DEF HandlerTypes, Past, PostResult
    <2>2. out[myCapture[j]] \in SUBSET UNION {Part(k) : k \in Jobs} /\ notices[myCapture[j]] \in SUBSET Jobs
      BY <1>1, <2>1 DEF CaptureTypes
    <2>3. Answer("result", j, out[myCapture[j]], notices[myCapture[j]]) \in Reply
      BY <2>2, Messages
    <2> QED BY <1>2, <1>6, <2>3 DEF PostResult
  <1>7. CASE SendInit \/ OnInit \/ UNCHANGED vars
    BY <1>3, <1>7 DEF SendInit, OnInit, vars
  <1>8. ASSUME NEW j \in Jobs, \/ Send(j) \/ OnRun(j) \/ OnRunUnloadable(j) \/ Resume(j) \/ ResumeFails(j)
                               \/ SyncedIn(j) \/ SyncFails(j) \/ ScriptEnds(j) \/ ScriptTraps(j)
        PROVE  outbox' \in Seq(Reply)
    BY <1>3, <1>8 DEF Send, OnRun, OnRunUnloadable, Resume, ResumeFails, SyncedIn, SyncFails,
                      ScriptEnds, ScriptTraps
  <1> QED BY <1>4, <1>5, <1>6, <1>7, <1>8 DEF Next, Caller, Handler

\* The types are inductive,
LEMMA TypeKept == TypeInv /\ [Next]_vars => TypeInv'
  <1> SUFFICES ASSUME TypeInv, [Next]_vars PROVE TypeInv' OBVIOUS
  <1>1. /\ WorkerTypes' /\ CaptureTypes' /\ HandlerTypes'
        /\ QueueInv' /\ inbox' \in Seq(Request) /\ outbox' \in Seq(Reply)
    BY WorkerKept, CapturesKept, HandlersKept, QueueKept, RepliesKept
  <1>2. /\ \A i \in DOMAIN inbox' : inbox'[i].type \in {"init", "run"}
        /\ \A i \in DOMAIN outbox' : outbox'[i].type \in {"ready", "result"}
    BY <1>1, Messages, Zenon
  <1> QED BY <1>1, <1>2, Zenon DEF TypeInv, TypeOK, WorkerTypes, CaptureTypes, HandlerTypes

\* ... so they always are right.
LEMMA TypesAlways == Spec => []TypeInv
  BY TypeInit, TypeKept, PTL DEF Spec

\* Every variable always holds values of its kind, whoever the caller is and
\* whatever fails; one generation more than there are runs is enough.
THEOREM TypeCorrect == Spec => []TypeOK
  <1>1. TypeInv => TypeOK BY DEF TypeInv
  <1> QED BY <1>1, TypesAlways, PTL
-----------------------------------------------------------------------------
(* Runs that are given up.                                                 *)

\* Nothing has been given up at first.
LEMMA CauseInit == Init => CauseInv
  BY DEF Init, CauseInv, LostForCause

\* While no handler starts to wait or gets its module, the causes stay.
LEMMA CauseSame ==
    ASSUME TypeInv, CauseInv, broken => broken', UNCHANGED myModule,
           loaded' /\ current' = 0 => broken' \/ (loaded /\ current = 0),
           \A g \in Generations : preInit'[g] = "failed" => broken' \/ preInit[g] = "failed",
           \A j \in Jobs : at'[j] = "module" /\ waitsFor'[j] = 0
                             => broken' \/ (at[j] = "module" /\ waitsFor[j] = 0),
           \A j \in Jobs : at'[j] \in {"unsent", "sent", "module"} => at[j] \in {"unsent", "sent", "module"},
           \A j \in Jobs : at'[j] = "lost" => at[j] = "lost" \/ broken'
    PROVE  CauseInv'
  BY DEF CauseInv, LostForCause

\* Whatever is null, rejected or given up in a step is so for a cause.
LEMMA CauseKept == TypeInv /\ CauseInv /\ [Next]_vars => CauseInv'
  <1> SUFFICES ASSUME TypeInv, CauseInv, [Next]_vars PROVE CauseInv' OBVIOUS
  <1>1. /\ at \in [Jobs -> Points] /\ current \in {0} \union Generations
        /\ preInit \in [Generations -> {"none", "pending", "done", "failed"}]
        /\ waitsFor \in [Jobs -> {0} \union Generations]
        /\ myModule \in [Jobs -> {0} \union Generations]
    BY DEF TypeInv, TypeOK
  <1>2. ASSUME NEW j \in Jobs, NEW p \in Points, at' = [at EXCEPT ![j] = p],
               p = "lost" => broken',
               p = "sent" => at[j] = "unsent",
               p \notin {"unsent", "module"},
               broken => broken',
               UNCHANGED <<myModule, waitsFor>>,
               loaded' /\ current' = 0 => broken' \/ (loaded /\ current = 0),
               \A g \in Generations : preInit'[g] = "failed" => broken' \/ preInit[g] = "failed"
        PROVE  CauseInv'
    <2>1. \A i \in Jobs : at'[i] = (IF i = j THEN p ELSE at[i]) BY <1>1, <1>2
    <2> QED BY <1>2, <2>1, CauseSame
  <1>3. ASSUME NEW j \in Jobs, Send(j) PROVE CauseInv'
    BY <1>2, <1>3 DEF Send, Points, history
  <1>4. CASE SendInit \/ Take \/ UNCHANGED vars
    BY <1>4, CauseSame DEF SendInit, Take, vars, history
  <1>5. ASSUME broken => broken', LoadRuntime \/ LoadFails
        PROVE  /\ loaded' /\ current' = 0 => broken' \/ (loaded /\ current = 0)
               /\ \A g \in Generations : preInit'[g] = "failed" => broken' \/ preInit[g] = "failed"
    <2>1. StartPreInit => current' # 0 BY <1>1, Numbers DEF StartPreInit
    <2>2. StartPreInit => \A g \in Generations : preInit'[g] = "failed" => preInit[g] = "failed"
      BY <1>1 DEF StartPreInit
    <2> QED BY <1>5, <2>1, <2>2 DEF LoadRuntime, LoadFails
  <1>6. CASE OnInit
    <2>1. broken => broken' BY <1>6 DEF OnInit, LoadFails
    <2> QED BY <1>5, <1>6, <2>1, CauseSame DEF OnInit
  <1>7. ASSUME NEW g \in Generations, Loader(g) PROVE CauseInv'
    <2>1. \A h \in Generations : preInit'[h] = "failed" => broken' \/ preInit[h] = "failed"
      BY <1>1, <1>7 DEF Loader, ModuleReady, ModuleFails
    <2> QED BY <1>7, <2>1, CauseSame DEF Loader, ModuleReady, ModuleFails, history
  <1>8. ASSUME NEW j \in Jobs, OnRun(j) PROVE CauseInv'
    <2>1. broken' = broken /\ at[j] = "sent" BY <1>8, Received DEF OnRun, history
    <2>2. /\ loaded' /\ current' = 0 => broken' \/ (loaded /\ current = 0)
          /\ \A g \in Generations : preInit'[g] = "failed" => broken' \/ preInit[g] = "failed"
      BY <1>5, <1>8, <2>1 DEF OnRun
    <2>3. loaded' BY <1>8 DEF OnRun, LoadRuntime
    <2>4. /\ \A i \in Jobs : at'[i] = (IF i = j THEN "module" ELSE at[i])
          /\ \A i \in Jobs : waitsFor'[i] = (IF i = j THEN current' ELSE waitsFor[i])
          /\ myModule' = myModule
      BY <1>1, <1>8 DEF OnRun
    <2>5. \A i \in Jobs : at'[i] = "module" /\ waitsFor'[i] = 0
                            => broken' \/ (at[i] = "module" /\ waitsFor[i] = 0)
      BY <2>1, <2>2, <2>3, <2>4 DEF CauseInv
    <2> QED BY <2>1, <2>2, <2>4, <2>5, CauseSame
  <1>9. ASSUME NEW j \in Jobs, OnRunUnloadable(j) PROVE CauseInv'
    BY <1>2, <1>9 DEF OnRunUnloadable, LoadFails, Points
  <1>10. ASSUME NEW j \in Jobs, ResumeFails(j) PROVE CauseInv'
    <2>1. broken
      <3>1. at[j] = "module" /\ Awaited(j) = "failed" BY <1>10 DEF ResumeFails, Resumes, Awake
      <3> QED BY <1>1, <3>1 DEF Awaited, CauseInv
    <2> QED BY <1>2, <1>10, <2>1 DEF ResumeFails, Points, history
  <1>11. ASSUME NEW j \in Jobs, SyncedIn(j) \/ SyncFails(j) \/ ScriptTraps(j) PROVE CauseInv'
    BY <1>2, <1>11 DEF SyncedIn, SyncFails, ScriptTraps, Points, history
  <1>12. ASSUME NEW j \in Jobs, ScriptEnds(j) PROVE CauseInv'
    <2>1. /\ at' = [at EXCEPT ![j] = IF j \in IdbJobs THEN "syncOut" ELSE "executed"]
          /\ UNCHANGED <<loaded, current, preInit, waitsFor, myModule, broken>>
      BY <1>12 DEF ScriptEnds
    <2> QED BY <1>2, <2>1 DEF Points
  <1>13. ASSUME NEW j \in Jobs, PostResult(j) PROVE CauseInv'
    <2>1. current' # 0 /\ \A g \in Generations : preInit'[g] = "failed" => preInit[g] = "failed"
      BY <1>1, <1>13, Numbers DEF PostResult, StartPreInit
    <2>2. at' = [at EXCEPT ![j] = "posted"] /\ UNCHANGED <<loaded, broken, waitsFor, myModule>>
      BY <1>13 DEF PostResult, history
    <2> QED BY <1>2, <2>1, <2>2 DEF Points
  <1>14. ASSUME NEW j \in Jobs, Resume(j) PROVE CauseInv'
    <2>1. /\ at[j] = "module" /\ myModule[j] = 0
          /\ \A i \in Jobs : i # j => at'[i] = at[i]
          /\ at'[j] = IF j \notin IdbJobs THEN "executing" ELSE IF Mounted(module) THEN "lost" ELSE "syncIn"
          /\ \A i \in Jobs : myModule'[i] = IF i = j THEN module ELSE myModule[i]
          /\ UNCHANGED <<loaded, current, preInit, waitsFor, broken>>
      BY <1>1, <1>14 DEF Resume, Resumes, Awake, CauseInv, history
    <2>2. module # 0
      <3>1. waitsFor[j] \in Generations /\ preInit[waitsFor[j]] = "done"
        BY <1>1, <1>14 DEF Resume, Awaited
      <3> QED BY <3>1 DEF TypeInv
    <2>3. ASSUME NEW i \in Jobs, at'[i] = "lost", ~broken'
          PROVE  \E k \in IdbJobs \ {i} : i \in IdbJobs /\ myModule'[k] # 0 /\ myModule'[k] = myModule'[i]
      <3>1. CASE i = j
        <4>1. PICK k \in IdbJobs : myModule[k] = module BY <2>1, <2>3, <3>1 DEF Mounted
        <4> QED BY <2>1, <2>2, <2>3, <3>1, <4>1, WorkerAssumption
      <3>2. CASE i # j
        <4>1. PICK k \in IdbJobs \ {i} : i \in IdbJobs /\ myModule[k] # 0 /\ myModule[k] = myModule[i]
          BY <2>1, <2>3, <3>2 DEF CauseInv, LostForCause
        <4> QED BY <2>1, <3>2, <4>1, WorkerAssumption
      <3> QED BY <3>1, <3>2
    <2>4. LostForCause' BY <2>3 DEF LostForCause
    <2> QED BY <2>1, <2>4 DEF CauseInv
  <1> QED
    BY <1>3, <1>4, <1>6, <1>7, <1>8, <1>9, <1>10, <1>11, <1>12, <1>13, <1>14 DEF Next, Caller, Handler

\* A run is given up only because something outside the worker's script has
\* failed, or because another idbfs run has mounted its module: whatever the
\* caller posts and whenever, with "init" or without.
THEOREM NotLostWithoutCause == Spec => []LostForCause
  <1>1. CauseInv => LostForCause BY DEF CauseInv
  <1> QED BY <1>1, CauseInit, CauseKept, TypesAlways, PTL DEF Spec
-----------------------------------------------------------------------------
(* The pool as the caller.                                                 *)

\* The caller has been told "ready", or is about to be.
Ready == invited \/ \E i \in DOMAIN outbox : outbox[i].type = "ready"

\* The next run has a module of its own, and no await that has to wait.
Warm == current # 0 /\ module = current /\ preInit[current] = "done"

\* A run the caller is not done with; one that was given up is never replaced.
Started(j) == at[j] \notin {"unsent", "posted"}

\* One thing happens at a time: a message is on its way to the worker, a run is
\* at work, or a module starts.
TurnsInv ==
    /\ ~loaded => /\ inbox = <<Msg("init", NoJob)>> /\ outbox = <<>>
                  /\ \A j \in Jobs : at[j] = "unsent"
    /\ loaded /\ (\A j \in Jobs : at[j] # "sent") => inbox = <<>>
    /\ \A j \in Jobs : Started(j) =>
         /\ loaded /\ Warm /\ ~Ready /\ outbox = <<>>
         /\ \A i \in Jobs : Started(i) => i = j
         /\ at[j] = "sent" => inbox = <<Msg("run", j)>>
         /\ at[j] = "module" => waitsFor[j] = current
    /\ \A g \in Generations : preInit[g] = "pending" => g = current
    /\ Ready => loaded /\ Warm
    /\ invited => outbox = <<>>
    /\ \A i \in DOMAIN outbox : outbox[i].type = "ready" => i = Len(outbox)

\* A module belongs to the run that was started on it.
OwnersInv ==
    /\ \A j \in Jobs : at[j] \in {"unsent", "sent", "module"} => myModule[j] = 0
    /\ \A j \in Jobs : Past(j) => myModule[j] = current /\ myCapture[j] = current
    /\ \A j \in Jobs : at[j] = "lost" => myModule[j] \in {0, current}
    /\ \A j \in Jobs : at[j] = "posted" => myModule[j] < current
    /\ \A i, j \in Jobs : myModule[i] = myModule[j] => i = j \/ myModule[i] = 0
    /\ \A g \in Generations : \A j \in executed[g] : myModule[j] = g

\* What a run leaves in the worker's globals is still there when it reads it.
OwnInv ==
    /\ \A j \in Jobs : at[j] \in {"module", "syncIn", "executing"} => (busySleep <=> j \in BusyJobs)
    /\ \A j \in Jobs : at[j] \in {"unsent", "sent", "module", "syncIn", "executing"} => j \notin slept
    /\ \A j \in Jobs : at[j] \in {"syncIn", "executing"} =>
         out[current] = {} /\ notices[current] = {} /\ stdin[current] = j
    /\ \A j \in Jobs : at[j] \in {"executed", "syncOut", "posted"} => fed[j] = j
    /\ \A j \in Jobs : at[j] \in {"executed", "syncOut"} =>
         /\ out[current] = printed[j]
         /\ notices[current] = (IF j \in slept \ BusyJobs THEN {j} ELSE {})
    /\ \A i \in DOMAIN outbox : outbox[i].type = "result" => /\ outbox[i].job \in Jobs
                                                             /\ at[outbox[i].job] = "posted"
    /\ OwnOutput

\* The first turn is that of the "init" message.
LEMMA TurnsInit == Patient /\ Init => TurnsInv
  BY DEF Init, TurnsInv, Ready, Started

\* A handler that goes on, or is given up.
LEMMA TurnGoesOn ==
    ASSUME TypeInv, TurnsInv, NEW j \in Jobs, Started(j), at[j] # "sent",
           NEW p \in Points \ {"unsent", "sent", "module", "posted"}, at' = [at EXCEPT ![j] = p],
           UNCHANGED <<loaded, current, module, preInit, waitsFor, inbox, outbox, invited>>
    PROVE  TurnsInv'
  <1>1. at \in [Jobs -> Points] BY DEF TypeInv, TypeOK
  <1>2. \A i \in Jobs : at'[i] = (IF i = j THEN p ELSE at[i]) BY <1>1
  <1>3. \A i \in Jobs : Started(i) => i = j BY DEF TurnsInv
  <1>4. Started(j)' /\ (\A i \in Jobs : Started(i)' => i = j) BY <1>2, <1>3 DEF Started
  <1>5. (Ready <=> Ready') /\ (Warm <=> Warm') BY DEF Ready, Warm
  <1>6. \A i \in Jobs : at[i] # "sent" /\ at'[i] # "sent" BY <1>2, <1>3 DEF Started
  <1>7. at'[j] # "module" /\ at'[j] # "sent" BY <1>2
  <1>8. loaded /\ Warm /\ ~Ready /\ outbox = <<>> /\ inbox = <<>> BY <1>6 DEF TurnsInv
  <1>9. \A g \in Generations : preInit'[g] = "pending" => g = current' BY DEF TurnsInv
  <1>10. \A i \in DOMAIN outbox' : FALSE BY <1>8
  <1>11. \A i \in Jobs : Started(i)' =>
           /\ loaded' /\ Warm' /\ ~Ready' /\ outbox' = <<>>
           /\ \A k \in Jobs : Started(k)' => k = i
           /\ at'[i] = "sent" => inbox' = <<Msg("run", i)>>
           /\ at'[i] = "module" => waitsFor'[i] = current'
    BY <1>4, <1>5, <1>7, <1>8
  <1> QED BY <1>5, <1>8, <1>9, <1>10, <1>11 DEF TurnsInv

\* The caller, the loader and the handlers take turns.
LEMMA TurnsKept ==
    ASSUME Patient, TypeInv, TurnsInv, [Next]_vars
    PROVE  TurnsInv'
  <1>1. /\ at \in [Jobs -> Points] /\ current \in {0} \union Generations
        /\ preInit \in [Generations -> {"none", "pending", "done", "failed"}]
        /\ waitsFor \in [Jobs -> {0} \union Generations]
        /\ inbox \in Seq(Request) /\ outbox \in Seq(Reply)
        /\ (~loaded => current = 0)
        /\ \A g \in Generations : preInit[g] # "none" => current # 0
    BY DEF TypeInv, TypeOK
  <1>2. ASSUME Ready PROVE \A i \in Jobs : ~Started(i) /\ at[i] # "sent"
    BY <1>2 DEF TurnsInv, Started
  <1>3. ASSUME NEW j \in Jobs, Send(j) PROVE TurnsInv'
    <2>1. /\ invited /\ at[j] = "unsent" /\ invited' = FALSE /\ inbox' = Append(inbox, Msg("run", j))
          /\ UNCHANGED <<loaded, current, module, preInit, waitsFor, outbox>>
          /\ \A i \in Jobs : at'[i] = (IF i = j THEN "sent" ELSE at[i])
      BY <1>1, <1>3 DEF Send
    <2>2. Ready /\ loaded /\ Warm /\ outbox = <<>> BY <2>1 DEF TurnsInv, Ready
    <2>3. \A i \in Jobs : ~Started(i) /\ at[i] # "sent" BY <1>2, <2>2
    <2>4. inbox = <<>> BY <2>2, <2>3 DEF TurnsInv
    <2>5. inbox' = <<Msg("run", j)>> BY <2>1, <2>4
    <2>6. \A i \in Jobs : Started(i)' => i = j BY <2>1, <2>3 DEF Started
    <2>7. \A i \in DOMAIN outbox' : FALSE BY <2>1, <2>2
    <2>8. ~Ready' /\ Warm' BY <2>1, <2>2, <2>7 DEF Ready, Warm
    <2>9. \A g \in Generations : preInit'[g] = "pending" => g = current' BY <2>1 DEF TurnsInv
    <2> QED BY <2>1, <2>2, <2>5, <2>6, <2>7, <2>8, <2>9 DEF TurnsInv
  <1>4. CASE SendInit BY <1>4 DEF SendInit
  <1>5. CASE Take
    <2>1. /\ outbox # <<>> /\ outbox' = Tail(outbox) /\ invited' = (Head(outbox).type = "ready")
          /\ UNCHANGED <<loaded, current, module, preInit, at, waitsFor, inbox>>
      BY <1>5 DEF Take
    <2>2. /\ Head(outbox) = outbox[1] /\ Len(outbox) \in Nat \ {0} /\ outbox' \in Seq(Reply)
          /\ Len(outbox') = Len(outbox) - 1
          /\ \A i \in 1..(Len(outbox) - 1) : outbox'[i] = outbox[i + 1]
      BY <1>1, <2>1, Taken
    <2>3. DOMAIN outbox = 1..Len(outbox) /\ DOMAIN outbox' = 1..(Len(outbox) - 1) BY <1>1, <2>2
    <2>4. loaded /\ \A j \in Jobs : ~Started(j) /\ at[j] # "sent"
      BY <2>1 DEF TurnsInv, Started
    <2>5. 1 \in DOMAIN outbox /\ \A i \in DOMAIN outbox' : i + 1 \in DOMAIN outbox /\ outbox'[i] = outbox[i + 1]
      BY <2>2, <2>3
    <2>6. Ready' => Ready BY <2>1, <2>2, <2>5 DEF Ready
    <2>7. \A i \in DOMAIN outbox : outbox[i].type = "ready" => i = Len(outbox) BY DEF TurnsInv
    <2>8. invited' => outbox' = <<>>
      <3> SUFFICES ASSUME invited' PROVE outbox' = <<>> OBVIOUS
      <3>1. outbox[1].type = "ready" BY <2>1, <2>2
      <3>2. 1 = Len(outbox) BY <2>5, <2>7, <3>1
      <3>3. Len(outbox') = Len(outbox) - 1 BY <2>2, Zenon
      <3>4. Len(outbox') = 1 - 1 BY <3>2, <3>3, Zenon
      <3>5. Len(outbox') = 0 BY <3>4
      <3> QED BY <2>2, <3>5
    <2>9. ASSUME NEW i \in DOMAIN outbox', outbox'[i].type = "ready" PROVE i = Len(outbox')
      <3>1. i + 1 = Len(outbox) BY <2>5, <2>7, <2>9
      <3> QED BY <2>2, <2>3, <3>1
    <2>10. \A j \in Jobs : ~Started(j)' BY <2>1, <2>4 DEF Started
    <2>11. /\ Warm' <=> Warm
           /\ \A g \in Generations : preInit'[g] = "pending" => g = current'
           /\ inbox' = <<>> /\ (Ready => Warm)
      BY <2>1, <2>4 DEF Warm, TurnsInv
    <2> QED BY <2>1, <2>4, <2>6, <2>8, <2>9, <2>10, <2>11 DEF TurnsInv
  <1>6. CASE OnInit
    <2>1. ~loaded
      <3>1. inbox # <<>> /\ Head(inbox).type = "init" BY <1>6 DEF OnInit, Receives
      <3>2. ASSUME loaded PROVE FALSE
        <4>1. PICK j \in Jobs : at[j] = "sent" BY <3>1, <3>2 DEF TurnsInv
        <4>2. inbox = <<Msg("run", j)>> BY <4>1 DEF TurnsInv, Started
        <4> QED BY <3>1, <4>2 DEF Msg
      <3> QED BY <3>2
    <2>2. /\ inbox = <<Msg("init", NoJob)>> /\ outbox = <<>> /\ current = 0
          /\ \A j \in Jobs : at[j] = "unsent"
      BY <1>1, <2>1 DEF TurnsInv
    <2>3. inbox' = <<>> /\ UNCHANGED <<at, outbox, invited>> BY <1>6, <2>2 DEF OnInit, Receives
    <2>4. loaded' = TRUE BY <1>6, <2>1 DEF OnInit, LoadRuntime, LoadFails
    <2>5. \A g \in Generations : preInit'[g] = "pending" => g = current'
      <3>1. \A g \in Generations : preInit[g] # "pending" BY <1>1, <2>2
      <3> QED BY <1>1, <1>6, <2>1, <3>1 DEF OnInit, LoadRuntime, LoadFails, StartPreInit
    <2>6. ~Ready BY <2>1 DEF TurnsInv
    <2>7. ~Ready' /\ ~invited' BY <2>3, <2>6 DEF Ready
    <2>8. (\A j \in Jobs : ~Started(j)') /\ \A i \in DOMAIN outbox' : FALSE
      BY <2>2, <2>3 DEF Started
    <2> QED BY <2>3, <2>4, <2>5, <2>7, <2>8 DEF TurnsInv
  <1>7. ASSUME NEW j \in Jobs, OnRun(j) \/ OnRunUnloadable(j) PROVE TurnsInv'
    <2>1. Head(inbox).type = "run" /\ at[j] = "sent" /\ inbox' = Tail(inbox)
      BY <1>7, Received DEF OnRun, OnRunUnloadable, Receives
    <2>2. loaded /\ Warm /\ ~Ready /\ outbox = <<>> /\ inbox = <<Msg("run", j)>>
      BY <2>1 DEF TurnsInv, Started
    <2>3. \A i \in Jobs : Started(i) => i = j BY <2>1 DEF TurnsInv, Started
    <2>4. OnRun(j) BY <1>7, <2>2 DEF OnRunUnloadable, LoadFails
    <2>5. /\ UNCHANGED <<loaded, current, module, preInit, outbox, invited>>
          /\ \A i \in Jobs : at'[i] = (IF i = j THEN "module" ELSE at[i])
          /\ waitsFor'[j] = current
      BY <1>1, <2>2, <2>4 DEF OnRun, LoadRuntime
    <2>6. inbox' = <<>> BY <2>1, <2>2
    <2>7. \A i \in Jobs : Started(i)' => i = j BY <2>3, <2>5 DEF Started
    <2>8. (Ready <=> Ready') /\ (Warm <=> Warm') BY <2>5 DEF Ready, Warm
    <2>9. \A i \in DOMAIN outbox' : FALSE BY <2>2, <2>5
    <2>10. \A g \in Generations : preInit'[g] = "pending" => g = current' BY <2>5 DEF TurnsInv
    <2> QED BY <2>2, <2>5, <2>6, <2>7, <2>8, <2>9, <2>10 DEF TurnsInv
  <1>8. ASSUME NEW g \in Generations, Loader(g) PROVE TurnsInv'
    <2>1. preInit[g] = "pending" /\ UNCHANGED <<loaded, current, at, waitsFor, inbox, invited>>
      BY <1>8 DEF Loader, ModuleReady, ModuleFails
    <2>2. g = current /\ ~Warm /\ current # 0 BY <1>1, <2>1 DEF TurnsInv, Warm
    <2>3. loaded /\ ~Ready /\ \A j \in Jobs : ~Started(j) BY <1>1, <2>2 DEF TurnsInv
    <2>4. \A j \in Jobs : ~Started(j)' /\ at'[j] # "sent" BY <2>1, <2>3 DEF Started
    <2>5. inbox' = <<>> BY <2>1, <2>3, <2>4 DEF TurnsInv
    <2>6. \A h \in Generations : preInit'[h] = "pending" => h = current'
      BY <1>1, <1>8, <2>1 DEF Loader, ModuleReady, ModuleFails, TurnsInv
    <2>7. CASE ModuleReady(g)
      <3>1. /\ module' = g /\ preInit' = [preInit EXCEPT ![g] = "done"]
            /\ outbox' = Append(outbox, Answer("ready", NoJob, {}, {}))
        BY <2>7 DEF ModuleReady
      <3>2. Warm' BY <1>1, <2>1, <2>2, <3>1 DEF Warm
      <3>3. \A i \in DOMAIN outbox : outbox[i].type # "ready" BY <2>3 DEF Ready
      <3>4. \A i \in DOMAIN outbox' : (i \in DOMAIN outbox /\ outbox'[i] = outbox[i]) \/ i = Len(outbox')
        BY <1>1, <3>1
      <3>5. ~invited' BY <2>1, <2>3 DEF Ready
      <3> QED BY <2>1, <2>3, <2>4, <2>5, <2>6, <3>2, <3>3, <3>4, <3>5 DEF TurnsInv
    <2>8. CASE ModuleFails(g)
      <3>1. outbox' = outbox BY <2>8 DEF ModuleFails
      <3>2. ~Ready' BY <2>1, <2>3, <3>1 DEF Ready
      <3>3. ~invited' /\ \A i \in DOMAIN outbox' : outbox'[i].type # "ready" BY <3>2 DEF Ready
      <3> QED BY <2>1, <2>3, <2>4, <2>5, <2>6, <3>2, <3>3 DEF TurnsInv
    <2> QED BY <1>8, <2>7, <2>8 DEF Loader
  <1>9. ASSUME NEW j \in Jobs, NEW p \in Points \ {"unsent", "sent", "module", "posted"},
               at[j] \in {"module", "syncIn", "executing", "executed", "syncOut"},
               at' = [at EXCEPT ![j] = p],
               UNCHANGED <<loaded, current, module, preInit, waitsFor, inbox, outbox, invited>>
        PROVE  TurnsInv'
    <2>1. Started(j) /\ at[j] # "sent" BY <1>9 DEF Started
    <2> QED BY <1>9, <2>1, TurnGoesOn
  <1>10. ASSUME NEW j \in Jobs, Resume(j) PROVE TurnsInv'
    <2>1. /\ at[j] = "module"
          /\ UNCHANGED <<loaded, current, module, preInit, waitsFor, inbox, outbox, invited>>
      BY <1>10 DEF Resume, Resumes, Awake
    <2> DEFINE p == IF j \notin IdbJobs THEN "executing"
                    ELSE IF Mounted(module) THEN "lost" ELSE "syncIn"
    <2>2. at' = [at EXCEPT ![j] = p] BY <1>10 DEF Resume
    <2>3. p \in Points \ {"unsent", "sent", "module", "posted"} BY DEF Points
    <2> HIDE DEF p
    <2> QED BY <1>9, <2>1, <2>2, <2>3
  <1>11. ASSUME NEW j \in Jobs, ResumeFails(j) \/ SyncedIn(j) \/ SyncFails(j) \/ ScriptTraps(j)
         PROVE  TurnsInv'
    BY <1>9, <1>11 DEF ResumeFails, Resumes, Awake, SyncedIn, SyncFails, ScriptTraps, Points
  <1>12. ASSUME NEW j \in Jobs, ScriptEnds(j) PROVE TurnsInv'
    <2>1. /\ at[j] = "executing"
          /\ at' = [at EXCEPT ![j] = IF j \in IdbJobs THEN "syncOut" ELSE "executed"]
          /\ UNCHANGED <<loaded, current, module, preInit, waitsFor, inbox, outbox, invited>>
      BY <1>12 DEF ScriptEnds
    <2> QED BY <1>9, <2>1 DEF Points
  <1>13. ASSUME NEW j \in Jobs, PostResult(j) PROVE TurnsInv'
    <2>1. /\ at[j] \in {"executed", "syncOut"}
          /\ outbox' = Append(outbox, Answer("result", j, out[myCapture[j]], notices[myCapture[j]]))
          /\ current' = current + 1 /\ preInit' = [preInit EXCEPT ![current + 1] = "pending"]
          /\ UNCHANGED <<loaded, module, waitsFor, inbox, invited>>
          /\ \A i \in Jobs : at'[i] = (IF i = j THEN "posted" ELSE at[i])
      BY <1>1, <1>13 DEF PostResult, StartPreInit
    <2>2. Started(j) BY <2>1 DEF Started
    <2>3. /\ loaded /\ Warm /\ ~Ready /\ outbox = <<>>
          /\ \A i \in Jobs : Started(i) => i = j
      BY <2>2 DEF TurnsInv
    <2>4. \A i \in Jobs : ~Started(i)' /\ at[i] # "sent" BY <2>1, <2>3 DEF Started
    <2>5. inbox' = <<>> BY <2>1, <2>3, <2>4 DEF TurnsInv
    <2>6. /\ outbox' = <<Answer("result", j, out[myCapture[j]], notices[myCapture[j]])>>
          /\ \A i \in DOMAIN outbox' : outbox'[i].type # "ready"
      BY <2>1, <2>3 DEF Answer
    <2>7. ~Ready' /\ ~invited' BY <2>1, <2>3, <2>6 DEF Ready
    <2>8. \A g \in Generations : preInit'[g] = "pending" => g = current'
      <3>1. \A g \in Generations : preInit[g] # "pending" BY <2>3 DEF TurnsInv, Warm
      <3> QED BY <1>1, <2>1, <3>1
    <2> QED BY <2>1, <2>3, <2>4, <2>5, <2>6, <2>7, <2>8 DEF TurnsInv
  <1>14. CASE UNCHANGED vars
    <2>1. UNCHANGED <<loaded, current, module, preInit, at, waitsFor, inbox, outbox, invited>>
      BY <1>14 DEF vars
    <2> QED BY <2>1 DEF TurnsInv, Ready, Warm, Started
  <1> QED
    BY <1>3, <1>4, <1>5, <1>6, <1>7, <1>8, <1>10, <1>11, <1>12, <1>13, <1>14 DEF Next, Caller, Handler

\* No run has a module at first.
LEMMA OwnersInit == Init => OwnersInv
  BY DEF Init, OwnersInv, Past

\* A step that starts no run on a module and no module after a run.
LEMMA OwnersSame ==
    ASSUME OwnersInv, UNCHANGED <<current, myModule, myCapture, executed>>,
           \A j \in Jobs : at'[j] \in {"unsent", "sent", "module"} => at[j] \in {"unsent", "sent", "module"},
           \A j \in Jobs : Past(j)' => Past(j),
           \A j \in Jobs : at'[j] = "lost" => at[j] \in {"lost", "sent", "module"} \/ Past(j),
           \A j \in Jobs : at'[j] = "posted" => at[j] = "posted"
    PROVE  OwnersInv'
  BY DEF OwnersInv

\* A module that a run has taken is not taken by another.
LEMMA OwnersKept ==
    ASSUME Patient, TypeInv, TurnsInv, OwnersInv, [Next]_vars
    PROVE  OwnersInv'
  <1>1. /\ at \in [Jobs -> Points] /\ current \in {0} \union Generations
        /\ myModule \in [Jobs -> {0} \union Generations]
        /\ myCapture \in [Jobs -> {0} \union Generations]
        /\ executed \in [Generations -> SUBSET Jobs]
        /\ ~loaded => current = 0
    BY DEF TypeInv, TypeOK
  <1>2. ASSUME NEW j \in Jobs, NEW p \in Points, at' = [at EXCEPT ![j] = p],
               UNCHANGED <<current, myModule, myCapture, executed>>,
               p \in {"unsent", "sent", "module"} => at[j] \in {"unsent", "sent", "module"},
               p \in {"syncIn", "executing", "executed", "syncOut"} => Past(j),
               p = "lost" => at[j] \in {"lost", "sent", "module"} \/ Past(j),
               p # "posted"
        PROVE  OwnersInv'
    <2>1. \A i \in Jobs : at'[i] = (IF i = j THEN p ELSE at[i]) BY <1>1, <1>2
    <2>2. \A i \in Jobs : Past(i)' => Past(i) BY <1>2, <2>1 DEF Past
    <2> QED BY <1>2, <2>1, <2>2, OwnersSame
  <1>3. ASSUME NEW j \in Jobs, Send(j) PROVE OwnersInv'
    BY <1>2, <1>3 DEF Send, Points, history, tracks
  <1>4. CASE SendInit \/ Take \/ UNCHANGED vars
    <2>1. UNCHANGED <<current, myModule, myCapture, executed, at>>
      BY <1>4 DEF SendInit, Take, vars, history, tracks
    <2> QED BY <2>1, OwnersSame DEF Past
  <1>5. CASE OnInit
    <2>1. UNCHANGED <<myModule, myCapture, executed, at>> BY <1>5 DEF OnInit, tracks
    <2>2. CASE loaded
      <3>1. current' = current BY <1>5, <2>2 DEF OnInit, LoadRuntime, LoadFails
      <3> QED BY <2>1, <3>1, OwnersSame DEF Past
    <2>3. CASE ~loaded
      <3>1. \A j \in Jobs : at[j] = "unsent" BY <2>3 DEF TurnsInv
      <3> QED BY <2>1, <3>1 DEF OwnersInv, Past
    <2> QED BY <2>2, <2>3
  <1>6. ASSUME NEW g \in Generations, Loader(g) PROVE OwnersInv'
    <2>1. UNCHANGED <<current, myModule, myCapture, executed, at>>
      BY <1>6 DEF Loader, ModuleReady, ModuleFails, history, tracks
    <2> QED BY <2>1, OwnersSame DEF Past
  <1>7. ASSUME NEW j \in Jobs, OnRun(j) \/ OnRunUnloadable(j) PROVE OwnersInv'
    <2>1. at[j] = "sent" BY <1>7, Received DEF OnRun, OnRunUnloadable
    <2>2. loaded BY <2>1 DEF TurnsInv, Started
    <2>3. /\ current' = current /\ UNCHANGED <<myModule, myCapture, executed>>
          /\ at' = [at EXCEPT ![j] = "module"]
      BY <1>7, <2>2 DEF OnRun, OnRunUnloadable, LoadRuntime, LoadFails, history, tracks
    <2> QED BY <1>2, <2>1, <2>3 DEF Points
  <1>8. ASSUME NEW j \in Jobs, ResumeFails(j) \/ SyncedIn(j) \/ SyncFails(j) PROVE OwnersInv'
    BY <1>2, <1>8 DEF ResumeFails, Resumes, Awake, SyncedIn, SyncFails, Points, Past, history, tracks
  <1>9. ASSUME NEW j \in Jobs, Resume(j) PROVE OwnersInv'
    <2>1. /\ at[j] = "module" /\ UNCHANGED <<current, executed>>
          /\ \A i \in Jobs : i # j => at'[i] = at[i]
          /\ at'[j] \in {"executing", "lost", "syncIn"}
          /\ \A i \in Jobs : myModule'[i] = IF i = j THEN module ELSE myModule[i]
          /\ \A i \in Jobs : myCapture'[i] = IF i = j THEN current ELSE myCapture[i]
      BY <1>1, <1>9 DEF Resume, Resumes, Awake, history, tracks
    <2>2. /\ current # 0 /\ module = current
          /\ \A i \in Jobs : i # j => at[i] \in {"unsent", "posted"}
      BY <2>1 DEF TurnsInv, Started, Warm
    <2>3. myModule[j] = 0 BY <2>1 DEF OwnersInv
    <2>4. \A i \in Jobs : i # j => (myModule[i] = 0 \/ myModule[i] < current)
      BY <2>2 DEF OwnersInv
    <2>5. current \in Nat /\ \A i \in Jobs : myModule[i] \in Nat BY <1>1, Numbers
    <2>6. \A i, k \in Jobs : myModule'[i] = myModule'[k] => i = k \/ myModule'[i] = 0
      <3> SUFFICES ASSUME NEW i \in Jobs, NEW k \in Jobs, myModule'[i] = myModule'[k], i # k
                   PROVE  myModule'[i] = 0
        OBVIOUS
      <3>1. CASE i = j BY <2>1, <2>2, <2>4, <2>5, <3>1
      <3>2. CASE k = j BY <2>1, <2>2, <2>4, <2>5, <3>2
      <3>3. CASE i # j /\ k # j BY <2>1, <3>3 DEF OwnersInv
      <3> QED BY <3>1, <3>2, <3>3
    <2>7. \A g \in Generations : \A i \in executed'[g] : myModule'[i] = g
      <3> SUFFICES ASSUME NEW g \in Generations, NEW i \in executed[g] PROVE myModule'[i] = g
        BY <2>1
      <3>1. i \in Jobs /\ myModule[i] = g /\ g # 0 BY <1>1, Numbers DEF OwnersInv
      <3> QED BY <2>1, <2>3, <3>1
    <2>8. \A i \in Jobs : Past(i)' => i = j BY <2>1, <2>2 DEF Past
    <2> QED BY <2>1, <2>2, <2>6, <2>7, <2>8 DEF OwnersInv
  <1>10. ASSUME NEW j \in Jobs, ScriptEnds(j) \/ ScriptTraps(j) PROVE OwnersInv'
    <2>1. /\ at[j] = "executing" /\ UNCHANGED <<current, myModule, myCapture>>
          /\ executed' = [executed EXCEPT ![myModule[j]] = @ \union {j}]
          /\ \A i \in Jobs : i # j => at'[i] = at[i]
          /\ at'[j] \in {"syncOut", "executed", "lost"}
      BY <1>1, <1>10 DEF ScriptEnds, ScriptTraps
    <2>2. Past(j) BY <2>1 DEF Past
    <2>3. \A g \in Generations : \A i \in executed'[g] : i \in executed[g] \/ (i = j /\ g = myModule[j])
      BY <1>1, <2>1
    <2>4. \A g \in Generations : \A i \in executed'[g] : myModule'[i] = g
      BY <2>1, <2>3 DEF OwnersInv
    <2>5. \A i \in Jobs : Past(i)' => Past(i) BY <2>1, <2>2 DEF Past
    <2> QED BY <2>1, <2>2, <2>4, <2>5 DEF OwnersInv
  <1>11. ASSUME NEW j \in Jobs, PostResult(j) PROVE OwnersInv'
    <2>1. /\ at[j] \in {"executed", "syncOut"} /\ UNCHANGED <<myModule, myCapture, executed>>
          /\ current' = current + 1
          /\ \A i \in Jobs : at'[i] = (IF i = j THEN "posted" ELSE at[i])
      BY <1>1, <1>11 DEF PostResult, StartPreInit, history, tracks
    <2>2. Past(j) BY <2>1 DEF Past
    <2>3. \A i \in Jobs : i # j => at[i] \in {"unsent", "posted"}
      BY <2>1 DEF TurnsInv, Started
    <2>4. \A i \in Jobs : at'[i] \in {"unsent", "posted"} /\ ~Past(i)' BY <2>1, <2>3 DEF Past
    <2>5. current \in Nat /\ \A i \in Jobs : myModule[i] \in Nat BY <1>1, Numbers
    <2>6. \A i \in Jobs : at'[i] = "posted" => myModule'[i] < current'
      <3> SUFFICES ASSUME NEW i \in Jobs, at'[i] = "posted" PROVE myModule[i] < current + 1
        BY <2>1
      <3>1. CASE i = j
        <4>1. myModule[i] = current BY <2>2, <3>1 DEF OwnersInv
        <4> QED BY <2>5, <4>1
      <3>2. CASE i # j
        <4>1. myModule[i] < current BY <2>1, <3>2 DEF OwnersInv
        <4> QED BY <2>5, <4>1
      <3> QED BY <3>1, <3>2
    <2> QED BY <2>1, <2>4, <2>6 DEF OwnersInv
  <1> QED
    BY <1>3, <1>4, <1>5, <1>6, <1>7, <1>8, <1>9, <1>10, <1>11 DEF Next, Caller, Handler

\* Nothing has been read or printed at first.
LEMMA OwnInit == Init => OwnInv
  BY DEF Init, OwnInv, OwnOutput

\* A step that posts no result and touches nothing a handler reads.
LEMMA OwnSame ==
    ASSUME OwnInv, UNCHANGED <<current, out, notices, stdin, printed, slept, fed>>,
           \A j \in Jobs : at'[j] \in {"module", "syncIn", "executing"} =>
             at[j] \in {"module", "syncIn", "executing"} /\ busySleep' = busySleep,
           \A j \in Jobs : at'[j] \in {"unsent", "sent"} => at[j] \in {"unsent", "sent"},
           \A j \in Jobs : at'[j] \in {"syncIn", "executing"} => at[j] \in {"syncIn", "executing"},
           \A j \in Jobs : at'[j] \in {"executed", "syncOut"} => at[j] \in {"executed", "syncOut"},
           \A j \in Jobs : at'[j] = "posted" <=> at[j] = "posted",
           \A i \in DOMAIN outbox' : \/ outbox'[i].type # "result"
                                     \/ \E k \in DOMAIN outbox : outbox'[i] = outbox[k]
    PROVE  OwnInv'
  BY DEF OwnInv, OwnOutput

\* What a handler reads after an await still is its own.
LEMMA OwnKept ==
    ASSUME Patient, TypeInv, TurnsInv, OwnersInv, OwnInv, [Next]_vars
    PROVE  OwnInv'
  <1>1. /\ at \in [Jobs -> Points] /\ current \in {0} \union Generations
        /\ out \in [Generations -> SUBSET UNION {Part(j) : j \in Jobs}]
        /\ notices \in [Generations -> SUBSET Jobs]
        /\ stdin \in [Generations -> Jobs \union {NoJob}]
        /\ printed \in [Jobs -> SUBSET UNION {Part(j) : j \in Jobs}]
        /\ fed \in [Jobs -> Jobs \union {NoJob}]
        /\ outbox \in Seq(Reply)
        /\ ~loaded => current = 0
    BY DEF TypeInv, TypeOK
  <1>2. ASSUME UNCHANGED <<current, out, notices, stdin, printed, slept, fed, busySleep, at>>,
               \A i \in DOMAIN outbox' : \/ outbox'[i].type # "result"
                                         \/ \E k \in DOMAIN outbox : outbox'[i] = outbox[k]
        PROVE  OwnInv'
    BY <1>2, OwnSame
  <1>3. ASSUME NEW j \in Jobs, NEW p \in Points, at' = [at EXCEPT ![j] = p],
               UNCHANGED <<current, out, notices, stdin, printed, slept, fed, busySleep, outbox>>,
               p = "lost" \/ (p = "sent" /\ at[j] = "unsent") \/ (p = "executing" /\ at[j] = "syncIn"),
               at[j] # "posted"
        PROVE  OwnInv'
    <2>1. \A i \in Jobs : at'[i] = (IF i = j THEN p ELSE at[i]) BY <1>1, <1>3
    <2> QED BY <1>3, <2>1, OwnSame
  <1>4. CASE SendInit \/ UNCHANGED vars
    BY <1>2, <1>4 DEF SendInit, vars, history, tracks
  <1>5. ASSUME NEW j \in Jobs, Send(j) PROVE OwnInv'
    BY <1>3, <1>5 DEF Send, Points, history, tracks
  <1>6. CASE Take
    <2>1. outbox # <<>> /\ outbox' = Tail(outbox)
          /\ UNCHANGED <<current, out, notices, stdin, printed, slept, fed, busySleep, at>>
      BY <1>6 DEF Take, history, tracks
    <2>2. /\ Len(outbox) \in Nat \ {0} /\ outbox' \in Seq(Reply) /\ Len(outbox') = Len(outbox) - 1
          /\ \A i \in 1..(Len(outbox) - 1) : outbox'[i] = outbox[i + 1]
      BY <1>1, <2>1, Taken
    <2>3. DOMAIN outbox = 1..Len(outbox) /\ DOMAIN outbox' = 1..(Len(outbox) - 1) BY <1>1, <2>2
    <2>4. \A i \in DOMAIN outbox' : i + 1 \in DOMAIN outbox /\ outbox'[i] = outbox[i + 1]
      BY <2>2, <2>3
    <2> QED BY <1>2, <2>1, <2>4
  <1>7. CASE OnInit
    <2>1. UNCHANGED <<out, notices, stdin, printed, slept, fed, busySleep, at, outbox>>
      BY <1>7 DEF OnInit, tracks
    <2>2. CASE loaded
      <3>1. current' = current BY <1>7, <2>2 DEF OnInit, LoadRuntime, LoadFails
      <3> QED BY <1>2, <2>1, <3>1
    <2>3. CASE ~loaded
      <3>1. (\A j \in Jobs : at[j] = "unsent") /\ outbox = <<>> BY <2>3 DEF TurnsInv
      <3> QED BY <2>1, <3>1 DEF OwnInv, OwnOutput
    <2> QED BY <2>2, <2>3
  <1>8. ASSUME NEW g \in Generations, Loader(g) PROVE OwnInv'
    <2>1. UNCHANGED <<current, out, notices, stdin, printed, slept, fed, busySleep, at>>
      BY <1>8 DEF Loader, ModuleReady, ModuleFails, history, tracks
    <2>2. CASE ModuleReady(g)
      <3>1. outbox' = Append(outbox, Answer("ready", NoJob, {}, {})) BY <2>2 DEF ModuleReady
      <3>2. Answer("ready", NoJob, {}, {}).type = "ready" BY DEF Answer
      <3>3. \A i \in DOMAIN outbox' : \/ i \in DOMAIN outbox /\ outbox'[i] = outbox[i]
                                      \/ outbox'[i] = Answer("ready", NoJob, {}, {})
        BY <1>1, <3>1
      <3> QED BY <1>2, <2>1, <3>2, <3>3
    <2>3. CASE ModuleFails(g) BY <1>2, <2>1, <2>3 DEF ModuleFails
    <2> QED BY <1>8, <2>2, <2>3 DEF Loader
  <1>9. ASSUME NEW j \in Jobs, OnRun(j) \/ OnRunUnloadable(j) PROVE OwnInv'
    <2>1. at[j] = "sent" BY <1>9, Received DEF OnRun, OnRunUnloadable
    <2>2. loaded /\ outbox = <<>> /\ \A i \in Jobs : i # j => at[i] \in {"unsent", "posted"}
      BY <2>1 DEF TurnsInv, Started
    <2>3. OnRun(j) BY <1>9, <2>2 DEF OnRunUnloadable, LoadFails
    <2>4. /\ UNCHANGED <<current, out, notices, stdin, printed, slept, fed, outbox>>
          /\ \A i \in Jobs : at'[i] = (IF i = j THEN "module" ELSE at[i])
          /\ busySleep' = (j \in BusyJobs)
      BY <1>1, <2>2, <2>3 DEF OnRun, LoadRuntime, history, tracks
    <2>5. \A i \in Jobs : at'[i] \in {"syncIn", "executing", "executed", "syncOut"} => FALSE
      BY <2>2, <2>4
    <2>6. \A i \in Jobs : at'[i] = "module" => i = j
      BY <2>2, <2>4
    <2>7. \A i \in Jobs : at'[i] \in {"unsent", "sent"} => at[i] = at'[i]
      BY <2>4
    <2>8. \A i \in Jobs : at'[i] = "posted" => at[i] = "posted"
      BY <2>4
    <2>9. DOMAIN outbox = {} BY <2>2
    <2>10. j \notin slept /\ \A i \in Jobs : at[i] \in {"unsent", "sent"} => i \notin slept
      BY <2>1 DEF OwnInv
    <2>11. \A i \in Jobs : at[i] = "posted" => fed[i] = i
      BY DEF OwnInv
    <2> QED BY <2>4, <2>5, <2>6, <2>7, <2>8, <2>9, <2>10, <2>11 DEF OwnInv, OwnOutput
  <1>10. ASSUME NEW j \in Jobs, ResumeFails(j) \/ SyncedIn(j) \/ SyncFails(j) \/ ScriptTraps(j)
         PROVE  OwnInv'
    BY <1>3, <1>10 DEF ResumeFails, Resumes, Awake, SyncedIn, SyncFails, ScriptTraps, Points,
                       history, tracks
  <1>11. ASSUME NEW j \in Jobs, Resume(j) PROVE OwnInv'
    <2>1. /\ at[j] = "module" /\ UNCHANGED <<current, busySleep, printed, slept, fed, outbox>>
          /\ out' = [out EXCEPT ![current] = {}]
          /\ notices' = [notices EXCEPT ![current] = {}]
          /\ stdin' = [stdin EXCEPT ![current] = j]
          /\ \A i \in Jobs : i # j => at'[i] = at[i]
          /\ at'[j] \in {"executing", "lost", "syncIn"}
      BY <1>1, <1>11 DEF Resume, Resumes, Awake, history, tracks
    <2>2. /\ current # 0 /\ outbox = <<>>
          /\ \A i \in Jobs : i # j => at[i] \in {"unsent", "posted"}
      BY <2>1 DEF TurnsInv, Started, Warm
    <2>3. out'[current] = {} /\ notices'[current] = {} /\ stdin'[current] = j
      BY <1>1, <2>1, <2>2
    <2> QED BY <2>1, <2>2, <2>3 DEF OwnInv, OwnOutput
  <1>12. ASSUME NEW j \in Jobs, ScriptEnds(j) PROVE OwnInv'
    <2>1. PICK parts \in SUBSET Part(j), sleeps \in BOOLEAN :
            /\ printed' = [printed EXCEPT ![j] = parts]
            /\ out' = [out EXCEPT ![myModule[j]] = @ \union parts]
            /\ slept' = IF sleeps THEN slept \union {j} ELSE slept
            /\ notices' = NoticesAfter(j, sleeps)
      BY <1>12 DEF ScriptEnds, Captured
    <2>2. /\ at[j] = "executing" /\ UNCHANGED <<current, stdin, busySleep, outbox>>
          /\ \A i \in Jobs : i # j => at'[i] = at[i]
          /\ at'[j] \in {"syncOut", "executed"}
          /\ fed' = [fed EXCEPT ![j] = stdin[myModule[j]]]
      BY <1>1, <1>12 DEF ScriptEnds
    <2>3. /\ current # 0 /\ outbox = <<>>
          /\ \A i \in Jobs : i # j => at[i] \in {"unsent", "posted"}
      BY <2>2 DEF TurnsInv, Started, Warm
    <2>4. myModule[j] = current BY <2>2 DEF OwnersInv, Past
    <2>5. /\ out[current] = {} /\ notices[current] = {} /\ stdin[current] = j
          /\ (busySleep <=> j \in BusyJobs) /\ j \notin slept
      BY <2>2 DEF OwnInv
    <2>6. /\ printed'[j] = parts /\ fed'[j] = j
          /\ \A i \in Jobs : i # j => fed'[i] = fed[i]
      BY <1>1, <2>1, <2>2, <2>4, <2>5
    <2>7. out'[current] = parts BY <1>1, <2>1, <2>3, <2>4, <2>5
    <2>8. notices'[current] = (IF j \in slept' \ BusyJobs THEN {j} ELSE {})
      <3>1. CASE sleeps /\ ~busySleep
        <4>1. notices'[current] = {j} BY <1>1, <2>1, <2>3, <2>5, <3>1 DEF NoticesAfter
        <4>2. j \in slept' \ BusyJobs BY <2>1, <2>5, <3>1
        <4> QED BY <4>1, <4>2
      <3>2. CASE ~(sleeps /\ ~busySleep)
        <4>1. notices'[current] = {} BY <2>1, <2>5, <3>2 DEF NoticesAfter
        <4>2. j \notin slept' \ BusyJobs BY <2>1, <2>5, <3>2
        <4> QED BY <4>1, <4>2
      <3> QED BY <3>1, <3>2
    <2>9. \A i \in Jobs : i # j => (i \in slept' <=> i \in slept) BY <2>1
    <2>10. \A i \in DOMAIN outbox' : FALSE BY <2>2, <2>3
    <2>11. \A i \in Jobs : i # j => at'[i] \in {"unsent", "posted"} BY <2>2, <2>3
    <2>12. \A i \in Jobs : at'[i] = "unsent" => i \notin slept'
      <3>1. \A i \in Jobs : at'[i] = "unsent" => i # j /\ at[i] = "unsent" BY <2>2
      <3>2. \A i \in Jobs : at[i] = "unsent" => i \notin slept BY DEF OwnInv
      <3> QED BY <2>9, <3>1, <3>2
    <2>13. \A i \in Jobs : at'[i] \in {"executed", "syncOut", "posted"} => fed'[i] = i
      <3> SUFFICES ASSUME NEW i \in Jobs, at'[i] \in {"executed", "syncOut", "posted"} PROVE fed'[i] = i
        OBVIOUS
      <3>1. CASE i = j BY <2>6, <3>1
      <3>2. CASE i # j
        <4>1. at[i] = "posted" BY <2>2, <2>3, <3>2
        <4> QED BY <2>6, <3>2, <4>1 DEF OwnInv
      <3> QED BY <3>1, <3>2
    <2>14. \A i \in Jobs : at'[i] \in {"executed", "syncOut"} =>
             /\ out'[current'] = printed'[i]
             /\ notices'[current'] = (IF i \in slept' \ BusyJobs THEN {i} ELSE {})
      BY <2>2, <2>6, <2>7, <2>8, <2>11
    <2>15. \A i \in Jobs : at'[i] \notin {"sent", "module", "syncIn", "executing"} BY <2>2, <2>11
    <2> QED BY <2>10, <2>12, <2>13, <2>14, <2>15 DEF OwnInv, OwnOutput
  <1>13. ASSUME NEW j \in Jobs, PostResult(j) PROVE OwnInv'
    <2>1. /\ at[j] \in {"executed", "syncOut"}
          /\ outbox' = Append(outbox, Answer("result", j, out[myCapture[j]], notices[myCapture[j]]))
          /\ UNCHANGED <<busySleep, out, notices, stdin, printed, slept, fed>>
          /\ \A i \in Jobs : at'[i] = (IF i = j THEN "posted" ELSE at[i])
      BY <1>1, <1>13 DEF PostResult, history, tracks
    <2>2. outbox = <<>> /\ \A i \in Jobs : i # j => at[i] \in {"unsent", "posted"}
      BY <2>1 DEF TurnsInv, Started
    <2>3. myCapture[j] = current BY <2>1 DEF OwnersInv, Past
    <2> DEFINE m == Answer("result", j, out[current], notices[current])
    <2>4. \A i \in DOMAIN outbox' : outbox'[i] = m BY <2>1, <2>2, <2>3
    <2>5. /\ fed[j] = j /\ out[current] = printed[j]
          /\ notices[current] = (IF j \in slept \ BusyJobs THEN {j} ELSE {})
      BY <2>1 DEF OwnInv
    <2>6. m.type = "result" /\ m.job = j /\ m.out = printed[j]
          /\ m.notices = (IF j \in slept \ BusyJobs THEN {j} ELSE {})
      BY <2>5 DEF Answer
    <2> HIDE DEF m
    <2>7. \A i \in Jobs : at'[i] \in {"unsent", "posted"} BY <2>1, <2>2
    <2>8. \A i \in Jobs : at'[i] = "unsent" => i \notin slept'
      BY <2>1, <2>2 DEF OwnInv
    <2>9. \A i \in Jobs : at'[i] = "posted" => fed'[i] = i
      BY <2>1, <2>2, <2>5 DEF OwnInv
    <2>10. \A i \in DOMAIN outbox' :
             outbox'[i].job = j /\ outbox'[i].out = printed'[j]
             /\ outbox'[i].notices = (IF j \in slept' \ BusyJobs THEN {j} ELSE {})
      BY <2>1, <2>4, <2>6
    <2>11. OwnOutput' BY <2>10 DEF OwnOutput
    <2> QED BY <2>1, <2>7, <2>8, <2>9, <2>10, <2>11 DEF OwnInv
  <1> QED
    BY <1>4, <1>5, <1>6, <1>7, <1>8, <1>9, <1>10, <1>11, <1>12, <1>13 DEF Next, Caller, Handler

PoolInv == TypeInv /\ TurnsInv /\ OwnersInv /\ OwnInv

\* To a caller that waits for "ready" all the invariants hold together.
LEMMA PoolAlways ==
    ASSUME Patient
    PROVE  Spec => []PoolInv
  <1>1. Init => PoolInv BY TypeInit, TurnsInit, OwnersInit, OwnInit DEF PoolInv
  <1>2. PoolInv /\ [Next]_vars => PoolInv' BY TypeKept, TurnsKept, OwnersKept, OwnKept DEF PoolInv
  <1> QED BY <1>1, <1>2, PTL DEF Spec

\* A caller that waits for "ready" before each run and is told it finds the
\* module of the current generation in place: no module starts while it is invited.
THEOREM ReadyIsWarm ==
    ASSUME Patient
    PROVE  Spec => []ReadyMeansWarm
  <1>1. PoolInv => ReadyMeansWarm BY DEF PoolInv, TurnsInv, Ready, Warm, ReadyMeansWarm
  <1> QED BY <1>1, PoolAlways, PTL

\* To such a caller one run shows nothing of another: no module executes two
\* scripts, a script reads its own stdin, and a result holds what its script
\* printed, although all of it passes through globals of the worker.
THEOREM RunsIsolated ==
    ASSUME Patient
    PROVE  Spec => []Isolated
  <1>1. ASSUME PoolInv PROVE Isolated
    <2>1. FreshModule
      <3> SUFFICES ASSUME NEW g \in Generations PROVE Cardinality(executed[g]) <= 1
        BY DEF FreshModule
      <3>1. g # 0 /\ executed[g] \subseteq Jobs BY <1>1, Numbers DEF PoolInv, TypeInv, TypeOK
      <3>2. \A i, j \in executed[g] : i = j BY <1>1, <3>1 DEF PoolInv, OwnersInv
      <3>3. CASE executed[g] = {}
        <4>1. Cardinality({}) = 0 BY FS_EmptySet
        <4> QED BY <3>3, <4>1
      <3>4. CASE executed[g] # {}
        <4>1. PICK j \in executed[g] : TRUE BY <3>4
        <4>2. executed[g] = {j} BY <3>2, <4>1
        <4>3. Cardinality({j}) = 1 BY FS_Singleton
        <4> QED BY <4>2, <4>3
      <3> QED BY <3>3, <3>4
    <2>2. OwnInput /\ OwnOutput BY <1>1 DEF PoolInv, OwnInv, OwnInput
    <2> QED BY <2>1, <2>2 DEF Isolated
  <1> QED BY <1>1, PoolAlways, PTL
-----------------------------------------------------------------------------
(* What the pool relies on.                                                *)

\* What the caller sees of the worker, by what goes on in it.
View ==
    /\ ~loaded => Phase = "fresh" /\ Script = NoJob
    /\ \A j \in Jobs : Busy(j) => Phase = "running" /\ Script = j
    /\ \A j \in Jobs : at[j] = "lost" => Phase = "stuck" /\ Script = j
    /\ \A j \in Jobs : at[j] = "sent" => Phase = "warm" /\ Script = NoJob
    /\ loaded /\ (\A j \in Jobs : ~Started(j)) =>
         /\ Script = NoJob
         /\ current = 0 => Phase = "warming"
         /\ current # 0 /\ preInit[current] = "done" => Phase = "warm"
         /\ current # 0 /\ preInit[current] = "failed" => Phase = "stuck"
         /\ current # 0 /\ preInit[current] \notin {"done", "failed"} => Phase = "warming"

\* What goes on in the worker determines what its caller sees of it,
LEMMA Views == PoolInv => View
  <1> SUFFICES ASSUME PoolInv PROVE View OBVIOUS
  <1> DEFINE mine == {j \in Jobs : Busy(j) \/ at[j] = "lost"}
  <1>1. at \in [Jobs -> Points] BY DEF PoolInv, TypeInv, TypeOK
  <1>2. Script = IF mine = {} THEN NoJob ELSE CHOOSE j \in mine : TRUE BY DEF Script
  <1>3. \A j \in Jobs : Started(j) =>
          /\ loaded /\ current # 0 /\ preInit[current] = "done"
          /\ \A i \in Jobs : Started(i) => i = j
    BY DEF PoolInv, TurnsInv, Warm
  <1>4. \A j \in Jobs : Busy(j) \/ at[j] = "lost" => Started(j) BY DEF Busy, Started
  <1>5. ASSUME mine = {} PROVE Script = NoJob /\ Working = {} /\ ~\E j \in Jobs : at[j] = "lost"
    BY <1>2, <1>5 DEF Working
  <1>6. ASSUME NEW j \in Jobs, j \in mine PROVE Script = j
    <2>1. mine = {j} BY <1>3, <1>4, <1>6
    <2> QED BY <1>2, <2>1
  <1>7. ~loaded => Phase = "fresh" /\ mine = {}
    BY <1>3, <1>4 DEF Phase
  <1>8. ASSUME NEW j \in Jobs, Busy(j) PROVE Phase = "running" /\ j \in mine
    <2>1. loaded /\ j \in Working BY <1>3, <1>4, <1>8 DEF Working
    <2> QED BY <1>8, <2>1 DEF Phase
  <1>9. ASSUME NEW j \in Jobs, at[j] = "lost" PROVE Phase = "stuck" /\ j \in mine
    <2>1. loaded BY <1>3, <1>4, <1>9
    <2>2. Working = {} BY <1>3, <1>4, <1>9 DEF Working, Busy
    <2> QED BY <1>9, <2>1, <2>2 DEF Phase
  <1>10. ASSUME NEW j \in Jobs, at[j] = "sent" PROVE Phase = "warm" /\ mine = {}
    <2>1. Started(j) BY <1>10 DEF Started
    <2>2. mine = {} BY <1>3, <1>4, <1>10, <2>1 DEF Busy
    <2> QED BY <1>3, <1>5, <2>1, <2>2 DEF Phase
  <1>11. ASSUME loaded, \A j \in Jobs : ~Started(j)
         PROVE  /\ mine = {}
                /\ current = 0 => Phase = "warming"
                /\ current # 0 /\ preInit[current] = "done" => Phase = "warm"
                /\ current # 0 /\ preInit[current] = "failed" => Phase = "stuck"
                /\ current # 0 /\ preInit[current] \notin {"done", "failed"} => Phase = "warming"
    <2>1. mine = {} BY <1>4, <1>11
    <2> QED BY <1>5, <1>11, <2>1 DEF Phase
  <1> HIDE DEF mine
  <1> QED BY <1>5, <1>6, <1>7, <1>8, <1>9, <1>10, <1>11 DEF View

\* ... in the next state too.
LEMMA ViewsNext == PoolInv' => View'
  BY Views, PTL

\* The messages as the contract knows them.
LEMMA PlainOf ==
    /\ Plain(<<>>) = <<>>
    /\ \A S : \A q \in Seq(S) :
         /\ \A m \in S : Plain(Append(q, m)) = Append(Plain(q), Msg(m.type, m.job))
         /\ q # <<>> => Plain(q) # <<>> /\ Plain(Tail(q)) = Tail(Plain(q))
  <1>1. Plain(<<>>) = <<>> BY DEF Plain
  <1> SUFFICES ASSUME NEW S, NEW q \in Seq(S)
               PROVE  /\ \A m \in S : Plain(Append(q, m)) = Append(Plain(q), Msg(m.type, m.job))
                      /\ q # <<>> => Plain(q) # <<>> /\ Plain(Tail(q)) = Tail(Plain(q))
    BY <1>1
  <1> DEFINE M == {Msg(m.type, m.job) : m \in S}
  <1>2. ASSUME NEW r \in Seq(S)
        PROVE  /\ Plain(r) \in Seq(M) /\ Len(Plain(r)) = Len(r)
               /\ \A i \in 1..Len(r) : Plain(r)[i] = Msg(r[i].type, r[i].job)
    <2>1. DOMAIN r = 1..Len(r) /\ Len(r) \in Nat /\ \A i \in 1..Len(r) : r[i] \in S OBVIOUS
    <2>2. Plain(r) = [i \in 1..Len(r) |-> Msg(r[i].type, r[i].job)] BY <2>1 DEF Plain
    <2>3. \A i \in 1..Len(r) : Msg(r[i].type, r[i].job) \in M BY <2>1
    <2> HIDE DEF M
    <2> QED BY <2>1, <2>2, <2>3
  <1>3. ASSUME NEW m \in S PROVE Plain(Append(q, m)) = Append(Plain(q), Msg(m.type, m.job))
    <2>1. Append(q, m) \in Seq(S) /\ Len(Append(q, m)) = Len(q) + 1 /\ Len(q) \in Nat
          /\ Append(q, m)[Len(q) + 1] = m /\ \A i \in 1..Len(q) : Append(q, m)[i] = q[i]
      OBVIOUS
    <2>2. Msg(m.type, m.job) \in M OBVIOUS
    <2> HIDE DEF M
    <2>3. /\ Append(Plain(q), Msg(m.type, m.job)) \in Seq(M)
          /\ Len(Append(Plain(q), Msg(m.type, m.job))) = Len(q) + 1
          /\ Append(Plain(q), Msg(m.type, m.job))[Len(q) + 1] = Msg(m.type, m.job)
          /\ \A i \in 1..Len(q) : Append(Plain(q), Msg(m.type, m.job))[i] = Plain(q)[i]
      BY <1>2, <2>2
    <2>4. \A i \in 1..(Len(q) + 1) :
            Plain(Append(q, m))[i] = Append(Plain(q), Msg(m.type, m.job))[i]
      <3> DEFINE n == Len(q) + 1
      <3>1. n \in 1..n /\ \A i \in 1..n : i \in 1..Len(q) \/ i = n BY <2>1
      <3>2. \A i \in 1..n : Plain(Append(q, m))[i] = Msg(Append(q, m)[i].type, Append(q, m)[i].job)
        BY <1>2, <2>1
      <3>3. Plain(Append(q, m))[n] = Msg(m.type, m.job) BY <2>1, <3>1, <3>2
      <3>4. \A i \in 1..Len(q) : Plain(q)[i] = Msg(q[i].type, q[i].job) BY <1>2
      <3>5. \A i \in 1..Len(q) : i \in 1..n BY <2>1
      <3>6. \A i \in 1..Len(q) : Plain(Append(q, m))[i] = Plain(q)[i] BY <2>1, <3>2, <3>4, <3>5
      <3> HIDE DEF n
      <3> QED BY <2>3, <3>1, <3>3, <3>6 DEF n
    <2>5. Plain(Append(q, m)) \in Seq(M) /\ Len(Plain(Append(q, m))) = Len(q) + 1 BY <1>2, <2>1
    <2> QED BY <2>3, <2>4, <2>5, SeqEqual
  <1>4. ASSUME q # <<>> PROVE Plain(q) # <<>> /\ Plain(Tail(q)) = Tail(Plain(q))
    <2>1. /\ Tail(q) \in Seq(S) /\ Len(Tail(q)) = Len(q) - 1 /\ Len(q) \in Nat \ {0}
          /\ \A i \in 1..(Len(q) - 1) : Tail(q)[i] = q[i + 1]
      BY <1>4, Taken
    <2> HIDE DEF M
    <2>2. Plain(q) \in Seq(M) /\ Plain(q) # <<>> BY <1>2, <2>1
    <2>3. /\ Tail(Plain(q)) \in Seq(M) /\ Len(Tail(Plain(q))) = Len(q) - 1
          /\ \A i \in 1..(Len(q) - 1) : Tail(Plain(q))[i] = Plain(q)[i + 1]
      BY <1>2, <2>2, Taken
    <2>4. Plain(Tail(q)) \in Seq(M) /\ Len(Plain(Tail(q))) = Len(q) - 1 BY <1>2, <2>1
    <2>5. \A i \in 1..(Len(q) - 1) : Plain(Tail(q))[i] = Tail(Plain(q))[i]
      <3> SUFFICES ASSUME NEW i \in 1..(Len(q) - 1) PROVE Plain(Tail(q))[i] = Tail(Plain(q))[i] OBVIOUS
      <3>1. i \in 1..Len(Tail(q)) /\ i + 1 \in 1..Len(q) BY <2>1
      <3> QED BY ZenonT(30), <1>2, <2>1, <2>3, <3>1
    <2> QED BY <2>2, <2>3, <2>4, <2>5, SeqEqual
  <1> QED BY <1>3, <1>4

\* A new worker is the contract's.
LEMMA ContractInit == Patient /\ Init => Contract!Init
  <1> SUFFICES ASSUME Patient, Init PROVE Contract!Init OBVIOUS
  <1>1. PoolInv BY TypeInit, TurnsInit, OwnersInit, OwnInit DEF PoolInv
  <1>2. Phase = "fresh" /\ Script = NoJob BY <1>1, Views DEF Init, View
  <1>3. inbox = <<Msg("init", NoJob)>> /\ outbox = <<>> BY DEF Init
  <1>4. Plain(inbox) = <<Contract!Msg("init", NoJob)>> BY <1>3 DEF Plain, Msg, Contract!Msg
  <1>5. Plain(outbox) = <<>> BY <1>3, PlainOf
  <1> QED BY <1>2, <1>4, <1>5 DEF Contract!Init, Contract!Fresh

\* What a handler does between its awaits does not show; an exception does.
LEMMA StepHidden ==
    ASSUME PoolInv, PoolInv', NEW j \in Jobs, Busy(j), Busy(j)' \/ at'[j] = "lost",
           UNCHANGED <<inbox, outbox>>
    PROVE  Contract!Next \/ UNCHANGED Contract!vars
  <1>1. Phase = "running" /\ Script = j BY Views DEF View
  <1>2. \/ Phase' = "running" /\ Script' = j
        \/ Phase' = "stuck" /\ Script' = j
    BY ViewsNext DEF View
  <1>3. UNCHANGED <<Plain(inbox), Plain(outbox)>> OBVIOUS
  <1> QED BY <1>1, <1>2, <1>3 DEF Contract!Next, Contract!Break, Contract!vars

\* Every step is one the caller can count on, or does not show.
LEMMA ContractKept ==
    ASSUME Patient, PoolInv, PoolInv', [Next]_vars
    PROVE  Contract!Next \/ UNCHANGED Contract!vars
  <1>1. View /\ View' BY Views, ViewsNext
  <1>2. /\ at \in [Jobs -> Points] /\ inbox \in Seq(Request) /\ outbox \in Seq(Reply)
        /\ current \in {0} \union Generations
        /\ preInit \in [Generations -> {"none", "pending", "done", "failed"}]
        /\ ~loaded => current = 0
        /\ \A g \in Generations : preInit[g] # "none" => current # 0
        /\ \A g \in Generations : g # 0
    BY Numbers DEF PoolInv, TypeInv, TypeOK
  <1>3. TurnsInv /\ TurnsInv' BY DEF PoolInv
  <1>4. \A type, j : Contract!Msg(type, j) = Msg(type, j) BY DEF Contract!Msg, Msg
  <1>5. ASSUME NEW j \in Jobs, Send(j) PROVE Contract!Next
    <2>1. /\ invited /\ at'[j] = "sent" /\ UNCHANGED <<loaded, current, preInit>>
          /\ outbox' = outbox
      BY <1>2, <1>5 DEF Send
    <2>2. Ready /\ outbox = <<>> /\ loaded /\ current # 0 /\ preInit[current] = "done"
      BY <1>3, <2>1 DEF TurnsInv, Ready, Warm
    <2>3. \A i \in Jobs : ~Started(i) /\ at[i] # "sent" BY <1>3, <2>2 DEF TurnsInv, Started
    <2>4. inbox = <<>> BY <1>3, <2>2, <2>3 DEF TurnsInv
    <2>5. inbox' = <<Msg("run", j)>> BY <1>3, <2>1 DEF TurnsInv, Started
    <2>6. Phase = "warm" /\ Script = NoJob /\ Phase' = "warm" /\ Script' = NoJob
      BY <1>1, <2>1, <2>2, <2>3 DEF View
    <2>7. Plain(inbox) = <<>> /\ Plain(outbox) = <<>> /\ Plain(outbox') = <<>>
      BY <2>1, <2>2, <2>4, PlainOf
    <2>8. Plain(inbox') = <<Contract!Msg("run", j)>>
      BY <1>4, <2>5 DEF Plain, Msg
    <2>9. Contract!Call(j) BY <2>6, <2>7, <2>8 DEF Contract!Call
    <2> QED BY <2>9 DEF Contract!Next
  <1>6. CASE SendInit BY <1>6 DEF SendInit
  <1>7. CASE Take
    <2>1. outbox # <<>> /\ outbox' = Tail(outbox) /\ UNCHANGED <<loaded, current, preInit, at, inbox>>
      BY <1>7 DEF Take
    <2>2. Plain(outbox) # <<>> /\ Plain(outbox)' = Tail(Plain(outbox))
      BY <1>2, <2>1, PlainOf
    <2>3. Phase' = Phase /\ Script' = Script
      BY <2>1 DEF Phase, Script, Working, Busy
    <2>4. Plain(inbox)' = Plain(inbox) BY <2>1
    <2>5. Contract!Take BY <2>2, <2>3, <2>4 DEF Contract!Take
    <2> QED BY <2>5 DEF Contract!Next
  <1>8. CASE OnInit
    <2>1. inbox # <<>> /\ Head(inbox).type = "init" /\ UNCHANGED <<at, outbox>>
      BY <1>8 DEF OnInit, Receives
    <2>2. ~loaded
      <3>1. ASSUME loaded PROVE FALSE
        <4>1. PICK j \in Jobs : at[j] = "sent" BY <1>3, <2>1, <3>1 DEF TurnsInv
        <4>2. inbox = <<Msg("run", j)>> BY <1>3, <4>1 DEF TurnsInv, Started
        <4> QED BY <2>1, <4>2 DEF Msg
      <3> QED BY <3>1
    <2>3. /\ inbox = <<Msg("init", NoJob)>> /\ outbox = <<>> /\ current = 0
          /\ \A j \in Jobs : at[j] = "unsent"
      BY <1>2, <1>3, <2>2 DEF TurnsInv
    <2>4. inbox' = <<>> BY <1>8, <2>3 DEF OnInit, Receives
    <2>5. loaded' = TRUE BY <1>8, <2>2 DEF OnInit, LoadRuntime, LoadFails
    <2>6. Phase = "fresh" /\ Script = NoJob BY <1>1, <2>2 DEF View
    <2>7. \A j \in Jobs : ~Started(j)' BY <2>1, <2>3 DEF Started
    <2>8. current' = 0 \/ (current' # 0 /\ preInit'[current'] = "pending")
      <3>1. ~loaded /\ current = 0 BY <2>2, <2>3
      <3>2. 1 \in Generations BY Numbers
      <3> QED BY <1>2, <1>8, <3>1, <3>2 DEF OnInit, LoadRuntime, LoadFails, StartPreInit
    <2>9. Phase' = "warming" /\ Script' = NoJob BY <1>1, <2>5, <2>7, <2>8 DEF View
    <2>10. Plain(inbox) = <<Contract!Msg("init", NoJob)>> BY <1>4, <2>3 DEF Plain, Msg
    <2>11. Plain(inbox') = <<>> /\ Plain(outbox) = <<>> /\ Plain(outbox') = <<>>
      BY <2>1, <2>3, <2>4, PlainOf
    <2>12. Contract!HandleInit
      BY <2>6, <2>9, <2>10, <2>11 DEF Contract!HandleInit, Contract!Fresh
    <2> QED BY <2>12 DEF Contract!Next
  <1>9. ASSUME NEW g \in Generations, Loader(g) PROVE Contract!Next
    <2>1. preInit[g] = "pending" /\ UNCHANGED <<loaded, current, at, inbox>>
      BY <1>9 DEF Loader, ModuleReady, ModuleFails
    <2>2. g = current /\ current # 0 /\ loaded BY <1>2, <1>3, <2>1 DEF TurnsInv
    <2>3. \A j \in Jobs : ~Started(j) BY <1>3, <2>1, <2>2 DEF TurnsInv, Warm
    <2>4. \A j \in Jobs : ~Started(j)' BY <2>1, <2>3 DEF Started
    <2>5. Phase = "warming" /\ Script = NoJob BY <1>1, <2>1, <2>2, <2>3 DEF View
    <2>6. Plain(inbox)' = Plain(inbox) BY <2>1
    <2>7. CASE ModuleReady(g)
      <3>1. preInit'[current'] = "done" BY <1>2, <2>1, <2>2, <2>7 DEF ModuleReady
      <3>2. Phase' = "warm" /\ Script' = NoJob BY <1>1, <2>1, <2>2, <2>4, <3>1 DEF View
      <3>3. outbox' = Append(outbox, Answer("ready", NoJob, {}, {})) BY <2>7 DEF ModuleReady
      <3>4. Answer("ready", NoJob, {}, {}) \in Reply BY Messages
      <3>5. Plain(outbox') = Append(Plain(outbox), Contract!Msg("ready", NoJob))
        <4> DEFINE m == Answer("ready", NoJob, {}, {})
        <4>1. m.type = "ready" /\ m.job = NoJob BY DEF Answer
        <4>2. m \in Reply /\ outbox' = Append(outbox, m) BY <3>3, <3>4
        <4> HIDE DEF m
        <4> QED BY <1>2, <1>4, <4>1, <4>2, PlainOf
      <3>6. Contract!WarmUp BY <2>5, <2>6, <3>2, <3>5 DEF Contract!WarmUp
      <3> QED BY <3>6 DEF Contract!Next
    <2>8. CASE ModuleFails(g)
      <3>1. preInit'[current'] = "failed" BY <1>2, <2>1, <2>2, <2>8 DEF ModuleFails
      <3>2. Phase' = "stuck" /\ Script' = NoJob BY <1>1, <2>1, <2>2, <2>4, <3>1 DEF View
      <3>3. outbox' = outbox BY <2>8 DEF ModuleFails
      <3>4. Contract!Break BY <2>5, <2>6, <3>2, <3>3 DEF Contract!Break
      <3> QED BY <3>4 DEF Contract!Next
    <2> QED BY <1>9, <2>7, <2>8 DEF Loader
  <1>10. ASSUME NEW j \in Jobs, OnRun(j) \/ OnRunUnloadable(j) PROVE Contract!Next
    <2>1. at[j] = "sent" /\ inbox' = Tail(inbox)
      BY <1>10, Received DEF OnRun, OnRunUnloadable, Receives, PoolInv
    <2>2. loaded /\ inbox = <<Msg("run", j)>> BY <1>3, <2>1 DEF TurnsInv, Started
    <2>3. OnRun(j) BY <1>10, <2>2 DEF OnRunUnloadable, LoadFails
    <2>4. Busy(j)' /\ outbox' = outbox BY <1>2, <2>3 DEF OnRun, Busy
    <2>5. Phase = "warm" /\ Phase' = "running" /\ Script' = j BY <1>1, <2>1, <2>4 DEF View
    <2>6. inbox' = <<>> BY <2>1, <2>2
    <2>7. Plain(inbox) = <<Contract!Msg("run", j)>> BY <1>4, <2>2 DEF Plain, Msg
    <2>8. Plain(inbox') = <<>> BY <2>6, PlainOf
    <2>9. Contract!HandleRun BY <2>4, <2>5, <2>7, <2>8 DEF Contract!HandleRun
    <2> QED BY <2>9 DEF Contract!Next
  <1>11. ASSUME NEW j \in Jobs, \/ Resume(j) \/ ResumeFails(j) \/ SyncedIn(j) \/ SyncFails(j)
                                \/ ScriptEnds(j) \/ ScriptTraps(j)
         PROVE  Contract!Next \/ UNCHANGED Contract!vars
    <2>1. Busy(j) /\ UNCHANGED <<inbox, outbox>>
      BY <1>11 DEF Resume, Resumes, Awake, ResumeFails, SyncedIn, SyncFails, ScriptEnds, ScriptTraps, Busy
    <2>2. at'[j] \in {"syncIn", "executing", "executed", "syncOut", "lost"}
      BY <1>2, <1>11 DEF Resume, ResumeFails, SyncedIn, SyncFails, ScriptEnds, ScriptTraps
    <2> QED BY <2>1, <2>2, StepHidden DEF Busy
  <1>12. ASSUME NEW j \in Jobs, PostResult(j) PROVE Contract!Next
    <2>1. /\ at[j] \in {"executed", "syncOut"}
          /\ current' = current + 1 /\ preInit' = [preInit EXCEPT ![current + 1] = "pending"]
          /\ UNCHANGED <<loaded, inbox>>
          /\ \A i \in Jobs : at'[i] = (IF i = j THEN "posted" ELSE at[i])
      BY <1>2, <1>12 DEF PostResult, StartPreInit
    <2>2. loaded /\ \A i \in Jobs : Started(i) => i = j
      BY <1>3, <2>1 DEF TurnsInv, Started
    <2>3. \A i \in Jobs : ~Started(i)' BY <2>1, <2>2 DEF Started
    <2>4. Phase = "running" /\ Script = j BY <1>1, <2>1 DEF View, Busy
    <2>5. current' # 0 /\ preInit'[current'] = "pending"
      <3>1. current + 1 \in Generations BY <2>1, NextGeneration DEF PoolInv
      <3> QED BY <1>2, <2>1, <3>1
    <2>6. Phase' = "warming" /\ Script' = NoJob BY <1>1, <2>1, <2>2, <2>3, <2>5 DEF View
    <2> DEFINE m == Answer("result", j, out[myCapture[j]], notices[myCapture[j]])
    <2>7. outbox' = Append(outbox, m) BY <1>12 DEF PostResult
    <2>8. m \in Reply /\ m.type = "result" /\ m.job = j
      <3>1. myCapture[j] \in Generations BY <2>1 DEF PoolInv, TypeInv, TypeOK, Past
      <3>2. out[myCapture[j]] \in SUBSET UNION {Part(k) : k \in Jobs} /\ notices[myCapture[j]] \in SUBSET Jobs
        BY <3>1 DEF PoolInv, TypeInv, TypeOK
      <3>3. m \in Reply BY <3>2, Messages
      <3> QED BY <3>3 DEF Answer
    <2> HIDE DEF m
    <2>9. Plain(outbox') = Append(Plain(outbox), Contract!Msg("result", j))
      BY <1>2, <1>4, <2>7, <2>8, PlainOf
    <2>10. Plain(inbox)' = Plain(inbox) BY <2>1
    <2>11. Contract!Finish BY <2>4, <2>6, <2>9, <2>10 DEF Contract!Finish
    <2> QED BY <2>11 DEF Contract!Next
  <1>13. CASE UNCHANGED vars
    <2>1. UNCHANGED <<loaded, current, preInit, at, inbox, outbox>> BY <1>13 DEF vars
    <2>2. Phase' = Phase /\ Script' = Script
      BY <2>1 DEF Phase, Script, Working, Busy
    <2>3. UNCHANGED <<Plain(inbox), Plain(outbox)>> BY <2>1
    <2> QED BY <2>2, <2>3 DEF Contract!vars
  <1> QED
    BY <1>5, <1>6, <1>7, <1>8, <1>9, <1>10, <1>11, <1>12, <1>13 DEF Next, Caller, Handler

\* To a caller that waits for "ready" the worker is the one WorkerPool counts
\* on: it answers a run with one result and one "ready", in this order, or
\* breaks and never posts anything again.
THEOREM Contracted ==
    ASSUME Patient
    PROVE  Spec => KeepsContract
  <1>1. Init => Contract!Init BY ContractInit
  <1>2. PoolInv /\ PoolInv' /\ [Next]_vars => [Contract!Next]_(Contract!vars) BY ContractKept
  <1> QED BY <1>1, <1>2, PoolAlways, PTL DEF Spec, KeepsContract, Contract!Spec
=============================================================================
