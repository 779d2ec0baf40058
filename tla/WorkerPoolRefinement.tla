------------------------- MODULE WorkerPoolRefinement -------------------------
(***************************************************************************)
(* Every behaviour of WorkerPool is a behaviour of ScriptService, and it   *)
(* uses each worker by the rules of WorkerContract, for every number of    *)
(* jobs and workers and every choice of faults.                            *)
(***************************************************************************)
EXTENDS WorkerPoolProofs

\* While the pool is open only its own workers hold jobs.
HoldInv == all # {} => \A w \in Workers : job[w] # NoJob => w \in all

\* A worker that has just been given a job is one of the pool.
THEOREM Held == Spec => []HoldInv
<1>1. Init => HoldInv
  BY DEF Init, HoldInv
<1>2. IInv /\ HoldInv /\ [Next]_vars => HoldInv'
  <2> SUFFICES ASSUME IInv, HoldInv, [Next]_vars PROVE HoldInv'
    OBVIOUS
  <2>0. \A w \in Workers : phase[w] \in {"warm", "running"} => w \in all
    BY DEF IInv, LifeInv, Unborn, Live, Dead
  <2>1. ASSUME NEW j \in Jobs, RunNow(j) PROVE HoldInv'
    <3>1. PICK w \in Workers : w = Head(ready)
      BY <2>1, TailElements DEF IInv, TypeOK, ReadyInv, RunNow
    <3>2. w \in Elements(ready)
      BY <2>1, <3>1, TailElements DEF IInv, TypeOK, ReadyInv, RunNow
    <3>3. w \in all
      BY <3>2 DEF IInv, LifeInv, Unborn, Live, Dead, Parked
    <3> QED BY <2>1, <3>1, <3>3 DEF RunNow, Dispatch, HoldInv, IInv, TypeOK
  <2>2. ASSUME NEW j \in Jobs, RunLater(j) PROVE HoldInv'
    BY <2>2 DEF RunLater, HoldInv
  <2>3. ASSUME NEW w \in Workers, PageStep(w) PROVE HoldInv'
    <3>1. CASE OnReadyDispatch(w)
      <4>1. w \in all
        BY <3>1, Arrival DEF OnReadyDispatch, Live
      <4> QED BY <3>1, <4>1 DEF OnReadyDispatch, Dispatch, HoldInv, IInv, TypeOK
    <3>2. CASE OnReadyPark(w)
      BY <3>2 DEF OnReadyPark, HoldInv
    <3>3. CASE OnResult(w) \/ OnError(w)
      BY <3>3 DEF OnResult, OnError, HoldInv, IInv, TypeOK
    <3>4. CASE Timeout(w)
      <4>1. w \in all
        BY <3>4 DEF Timeout, IInv, LifeInv, Unborn, Live, Dead
      <4> QED BY <3>4, <4>1 DEF Timeout, Retire, HoldInv, IInv, TypeOK
    <3> QED BY <2>3, <3>1, <3>2, <3>3, <3>4 DEF PageStep
  <2>4. ASSUME NEW w \in Workers, WorkerStep(w) PROVE HoldInv'
    BY <2>4 DEF WorkerStep, HandleInit, WarmUp, WarmFail, HandleRun, Finish, Wedge, Crash, HoldInv
  <2>5. CASE Shutdown
    BY <2>5 DEF Shutdown, HoldInv
  <2>6. CASE UNCHANGED vars
    BY <2>6 DEF vars, HoldInv
  <2> QED BY <2>1, <2>2, <2>3, <2>4, <2>5, <2>6 DEF Next
<1> QED BY <1>1, <1>2, Inductive, PTL DEF Spec

InFlight == {j \in Jobs : Dispatched(j)}

\* A worker of the pool without a job leaves room for one more run.
LEMMA SpareWorker ==
  ASSUME IInv, HoldInv, NEW w \in Workers, w \in all, job[w] = NoJob
  PROVE  Cardinality(InFlight) < PoolSize
<1> DEFINE busy == {v \in all : job[v] # NoJob}
<1> DEFINE holds == [v \in busy |-> job[v]]
<1>1. IsFiniteSet(all) /\ Cardinality(all) = PoolSize
  BY DEF IInv, SizeInv, CapacityKept
<1>2. IsFiniteSet(all \ {w}) /\ Cardinality(all \ {w}) = PoolSize - 1
  BY <1>1, FS_RemoveElement
<1>3. IsFiniteSet(busy) /\ Cardinality(busy) <= PoolSize - 1
  <2>1. busy \subseteq all \ {w}
    OBVIOUS
  <2> QED BY <1>2, <2>1, FS_Subset
<1>4. InFlight = {job[v] : v \in busy}
  <2>1. ASSUME NEW j \in InFlight PROVE j \in {job[v] : v \in busy}
    <3>1. PICK v \in Workers : job[v] = j
      BY DEF InFlight, Dispatched
    <3>2. v \in busy
      BY <3>1, PoolAssumption DEF InFlight, HoldInv
    <3> QED BY <3>1, <3>2
  <2>2. ASSUME NEW v \in busy PROVE job[v] \in InFlight
    <3>1. v \in Workers /\ job[v] \in Jobs
      BY DEF IInv, TypeOK
    <3> QED BY <3>1 DEF InFlight, Dispatched
  <2> QED BY <2>1, <2>2
<1>5. IsFiniteSet(InFlight) /\ Cardinality(InFlight) <= Cardinality(busy)
  <2>1. holds \in Surjection(busy, {job[v] : v \in busy})
    BY DEF Surjection
  <2>2. /\ IsFiniteSet({job[v] : v \in busy})
        /\ Cardinality({job[v] : v \in busy}) <= Cardinality(busy)
    BY <1>3, <2>1, FS_Surjection
  <2> QED BY <1>4, <2>2
<1>6. Cardinality(busy) \in Nat /\ Cardinality(InFlight) \in Nat
  BY <1>3, <1>5, FS_CardinalityType
<1> QED BY <1>3, <1>5, <1>6, PoolAssumption

\* There is room in the service when a worker of the pool is free.
LEMMA Mapping == Service!Room <=> all # {} /\ Cardinality(InFlight) < PoolSize
  BY DEF Service!Room, InFlight, Service!Cardinality, Cardinality

\* The initial states map to the initial state of the service.
LEMMA InitMapped == Init => Service!Init
<1> SUFFICES ASSUME Init PROVE Service!Init
  OBVIOUS
<1>1. InFlight = {}
  BY PoolAssumption DEF Init, InFlight, Dispatched
<1>2. (all = {}) = (PoolSize = 0)
  <2>1. all = {} <=> PoolSize = 0
    BY PoolAssumption DEF Init
  <2> QED BY <2>1
<1> QED BY <1>1, <1>2 DEF Init, Service!Init, InFlight

\* A step of one worker is invisible.
LEMMA WorkerStepMapped ==
  ASSUME NEW w \in Workers, WorkerStep(w)
  PROVE  UNCHANGED Service!vars
<1>1. UNCHANGED <<pending, job, promise, all>>
  BY DEF WorkerStep, HandleInit, WarmUp, WarmFail, HandleRun, Finish, Wedge, Crash
<1>2. InFlight' = InFlight
  BY <1>1 DEF InFlight, Dispatched
<1> QED BY <1>1, <1>2 DEF Service!vars, InFlight

\* run() is a call of the service.
LEMMA RunMapped ==
  ASSUME IInv, HoldInv, NEW j \in Jobs, RunNow(j) \/ RunLater(j)
  PROVE  Service!CallAndBegin(j) \/ Service!CallAndWait(j)
<1>1. CASE RunNow(j)
  <2>1. PICK w \in Workers : w = Head(ready)
    BY <1>1, TailElements DEF IInv, TypeOK, ReadyInv, RunNow
  <2>2. Live(w) /\ job[w] = NoJob
    <3>1. w \in Elements(ready)
      BY <1>1, <2>1, TailElements DEF IInv, TypeOK, ReadyInv, RunNow
    <3> QED BY <3>1 DEF IInv, LifeInv, Unborn, Live, Dead, Parked, Waiting, Idle
  <2>3. Service!Room
    BY <2>2, SpareWorker, Mapping DEF Live
  <2>4. InFlight' = InFlight \union {j}
    <3>1. job' = [job EXCEPT ![w] = j]
      BY <1>1, <2>1 DEF RunNow, Dispatch
    <3> QED BY <2>2, <3>1, PoolAssumption DEF InFlight, Dispatched, IInv, TypeOK
  <2>5. pending = <<>>
    BY <1>1 DEF RunNow, IInv, ReadyInv, NoIdleWhileQueued
  <2> QED BY <1>1, <2>3, <2>4, <2>5 DEF RunNow, Service!CallAndBegin, InFlight
<1>2. CASE RunLater(j)
  <2>1. InFlight' = InFlight
    BY <1>2 DEF RunLater, InFlight, Dispatched
  <2> QED BY <1>2, <2>1 DEF RunLater, Service!CallAndWait, InFlight
<1> QED BY <1>1, <1>2

\* Clearing w._job while settling its promise ends a run.
LEMMA SettleMapped ==
  ASSUME IInv, NEW w \in Workers, job[w] \in Jobs, NEW e \in Service!Ends,
         promise' = [promise EXCEPT ![job[w]] = e],
         job' = [job EXCEPT ![w] = NoJob], pending' = pending, (all' = {}) = (all = {})
  PROVE  Service!End(job[w], e)
<1>1. job[w] \in InFlight
  BY DEF InFlight, Dispatched
<1>2. InFlight' = InFlight \ {job[w]}
  <2>1. \A v \in Workers : v # w => job[v] # job[w]
    BY DEF IInv, JobInv
  <2> QED BY <2>1, PoolAssumption DEF InFlight, Dispatched, IInv, TypeOK
<1> QED BY <1>1, <1>2 DEF Service!End, InFlight

\* The page's handlers begin a run, end one, or are invisible.
LEMMA PageStepMapped ==
  ASSUME IInv, HoldInv, NEW w \in Workers, PageStep(w)
  PROVE  Service!Next \/ UNCHANGED Service!vars
<1>1. CASE OnReadyDispatch(w)
  <2>1. Live(w) /\ job[w] = NoJob
    BY <1>1, Arrival DEF OnReadyDispatch
  <2>2. Service!Room
    BY <2>1, SpareWorker, Mapping DEF Live
  <2>3. job' = [job EXCEPT ![w] = Head(pending)] /\ Head(pending) \in Jobs
    BY <1>1 DEF OnReadyDispatch, Dispatch, IInv, TypeOK
  <2>4. InFlight' = InFlight \union {Head(pending)}
    BY <2>1, <2>3, PoolAssumption DEF InFlight, Dispatched, IInv, TypeOK
  <2>5. Service!Begin
    BY <1>1, <2>2, <2>4 DEF OnReadyDispatch, Service!Begin, InFlight
  <2> QED BY <2>5 DEF Service!Next
<1>2. CASE OnReadyPark(w)
  <2>1. UNCHANGED <<pending, job, promise, all>>
    BY <1>2 DEF OnReadyPark
  <2>2. InFlight' = InFlight
    BY <2>1 DEF InFlight, Dispatched
  <2> QED BY <2>1, <2>2 DEF Service!vars, InFlight
<1>3. CASE OnResult(w)
  <2>1. job[w] \in Jobs /\ "resolved" \in Service!Ends
    BY <1>3, Arrival DEF OnResult, Service!Ends
  <2>2. Service!End(job[w], "resolved")
    BY <1>3, <2>1, SettleMapped DEF OnResult
  <2> QED BY <2>1, <2>2 DEF Service!Next
<1>4. CASE OnError(w) /\ job[w] \in Jobs
  <2>1. Service!End(job[w], "failed")
    BY <1>4, SettleMapped, PoolAssumption DEF OnError, Rejected, Service!Ends
  <2> QED BY <1>4, <2>1 DEF Service!Next, Service!Ends
<1>5. CASE OnError(w) /\ job[w] = NoJob
  <2>1. UNCHANGED <<pending, job, promise, all>>
    BY <1>5 DEF OnError, IInv, TypeOK
  <2>2. InFlight' = InFlight
    BY <2>1 DEF InFlight, Dispatched
  <2> QED BY <2>1, <2>2 DEF Service!vars, InFlight
<1>6. CASE Timeout(w)
  <2>1. job[w] \in Jobs /\ w \in all
    BY <1>6 DEF Timeout, IInv, TypeOK, LifeInv, Unborn, Live, Dead
  <2>2. all' # {} /\ all # {}
    BY <1>6, <2>1 DEF Timeout, Retire
  <2>3. Service!End(job[w], "timedOut")
    BY <1>6, <2>1, <2>2, SettleMapped, PoolAssumption DEF Timeout, Rejected, Service!Ends
  <2> QED BY <2>1, <2>3 DEF Service!Next, Service!Ends
<1> QED BY <1>1, <1>2, <1>3, <1>4, <1>5, <1>6 DEF PageStep, IInv, TypeOK

\* shutdown() closes the service.
LEMMA ShutdownMapped ==
  ASSUME IInv, Shutdown
  PROVE  Service!Close
<1>1. InFlight' = InFlight
  BY DEF Shutdown, InFlight, Dispatched
<1>2. \A j \in Jobs : j \in Elements(pending) <=> \E i \in DOMAIN pending : pending[i] = j
  BY DEF Elements
<1> QED BY <1>1, <1>2 DEF Shutdown, Service!Close, InFlight

\* The pool implements the service.
THEOREM Refinement == Spec => ImplementsService
<1>1. Init => Service!Init
  BY InitMapped
<1>2. IInv /\ HoldInv /\ [Next]_vars => [Service!Next]_(Service!vars)
  <2> SUFFICES ASSUME IInv, HoldInv, [Next]_vars
               PROVE  Service!Next \/ UNCHANGED Service!vars
    OBVIOUS
  <2>1. ASSUME NEW j \in Jobs, RunNow(j) \/ RunLater(j) PROVE Service!Next
    BY <2>1, RunMapped DEF Service!Next
  <2>2. ASSUME NEW w \in Workers, PageStep(w) PROVE Service!Next \/ UNCHANGED Service!vars
    BY <2>2, PageStepMapped
  <2>3. ASSUME NEW w \in Workers, WorkerStep(w) PROVE UNCHANGED Service!vars
    BY <2>3, WorkerStepMapped
  <2>4. CASE Shutdown
    BY <2>4, ShutdownMapped DEF Service!Next
  <2>5. CASE UNCHANGED vars
    <3>1. InFlight' = InFlight
      BY <2>5 DEF vars, InFlight, Dispatched
    <3> QED BY <2>5, <3>1 DEF vars, Service!vars, InFlight
  <2> QED BY <2>1, <2>2, <2>3, <2>4, <2>5 DEF Next
<1> QED BY <1>1, <1>2, Inductive, Held, PTL DEF Spec, ImplementsService, Service!Spec

-------------------------------------------------------------------------------
(* What the pool asks of its workers *)

\* The messages of the pool are those of the contract.
LEMMA SameMessages ==
  ASSUME NEW w \in Workers
  PROVE  /\ Contract(w)!Msg("init", NoJob) = InitMsg
         /\ Contract(w)!Msg("ready", NoJob) = ReadyMsg
         /\ \A j \in Jobs : /\ Contract(w)!Msg("run", j) = RunMsg(j)
                            /\ Contract(w)!Msg("result", j) = ResultMsg(j)
  BY DEF Contract!Msg, InitMsg, ReadyMsg, RunMsg, ResultMsg

\* What a handler does for one worker does not show at another one.
LEMMA NotShown ==
  ASSUME NEW v \in Workers,
         phase'[v] = phase[v], script'[v] = script[v],
         inbox'[v] = inbox[v], outbox'[v] = outbox[v]
  PROVE  UNCHANGED Contract(v)!vars
  BY DEF Contract!vars

\* A parked worker is handed a run.
LEMMA RunAsked ==
  ASSUME IInv, NEW j \in Jobs, RunNow(j), NEW v \in Workers
  PROVE  Contract(v)!Next \/ UNCHANGED Contract(v)!vars
<1>1. PICK w \in Workers : w = Head(ready) /\ w \in Elements(ready)
  BY TailElements DEF IInv, TypeOK, ReadyInv, RunNow
<1>2. Waiting(w)
  BY <1>1 DEF IInv, LifeInv, Unborn, Live, Dead, Parked
<1>3. /\ inbox' = [inbox EXCEPT ![w] = Append(@, RunMsg(j))]
      /\ UNCHANGED <<phase, script, outbox>>
  BY <1>1 DEF RunNow, Dispatch
<1>4. CASE v = w
  <2>1. inbox'[w] = <<RunMsg(j)>>
    BY <1>2, <1>3 DEF IInv, TypeOK, Waiting, Silent
  <2>2. Contract(w)!Call(j)
    BY <1>2, <1>3, <2>1, SameMessages DEF Waiting, Silent, Contract!Call
  <2> QED BY <1>4, <2>2 DEF Contract!Next
<1>5. CASE v # w
  BY <1>3, <1>5, NotShown DEF IInv, TypeOK
<1> QED BY <1>4, <1>5

\* The page's handlers take what the worker says, hand it a run when "ready" is
\* the last thing it said, or end it and start its replacement.
LEMMA PageStepAllowed ==
  ASSUME IInv, NEW w \in Workers, PageStep(w), NEW v \in Workers
  PROVE  Contract(v)!Next \/ UNCHANGED Contract(v)!vars
<1>1. CASE OnReadyDispatch(w)
  <2>1. /\ Announcing(w) /\ outbox[w] = <<ReadyMsg>> /\ Tail(outbox[w]) = <<>>
    BY <1>1, Arrival DEF OnReadyDispatch
  <2>2. PICK j \in Jobs : j = Head(pending)
    BY <1>1 DEF OnReadyDispatch, IInv, TypeOK
  <2>3. /\ inbox' = [inbox EXCEPT ![w] = Append(@, RunMsg(j))]
        /\ outbox' = [outbox EXCEPT ![w] = Tail(@)]
        /\ UNCHANGED <<phase, script>>
    BY <1>1, <2>2 DEF OnReadyDispatch, Dispatch, Taken
  <2>4. CASE v = w
    <3>1. inbox'[w] = <<RunMsg(j)>> /\ outbox'[w] = <<>>
      BY <2>1, <2>3 DEF IInv, TypeOK, Announcing
    <3>2. Contract(w)!TakeAndCall(j)
      BY <2>1, <2>3, <3>1, SameMessages DEF Announcing, Contract!TakeAndCall
    <3> QED BY <2>4, <3>2 DEF Contract!Next
  <2>5. CASE v # w
    BY <2>3, <2>5, NotShown DEF IInv, TypeOK
  <2> QED BY <2>4, <2>5
<1>2. CASE OnReadyPark(w) \/ OnResult(w)
  <2>1. /\ outbox[w] # <<>>
        /\ outbox' = [outbox EXCEPT ![w] = Tail(@)]
        /\ UNCHANGED <<phase, script, inbox>>
    BY <1>2 DEF OnReadyPark, OnResult, Arrives, Taken
  <2>2. CASE v = w
    <3>1. Contract(w)!Take
      BY <2>1 DEF IInv, TypeOK, Contract!Take
    <3> QED BY <2>2, <3>1 DEF Contract!Next
  <2>3. CASE v # w
    BY <2>1, <2>3, NotShown DEF IInv, TypeOK
  <2> QED BY <2>2, <2>3
<1>3. CASE OnError(w)
  BY <1>3, NotShown DEF OnError
<1>4. CASE Timeout(w)
  <2>1. Live(w)
    BY <1>4 DEF Timeout, IInv, LifeInv, Unborn, Dead
  <2>2. PICK new \in Workers : new = spawned + 1
    BY <1>4, PoolAssumption DEF Timeout, Retire, IInv, TypeOK, Workers
  <2>3. Unborn(new) /\ new # w
    BY <2>1, <2>2, PoolAssumption DEF IInv, TypeOK, LifeInv, Live, Dead
  <2>4. /\ phase' = [phase EXCEPT ![w] = "terminated", ![new] = "fresh"]
        /\ script' = [script EXCEPT ![w] = NoJob]
        /\ inbox' = [inbox EXCEPT ![w] = <<>>, ![new] = <<InitMsg>>]
        /\ outbox' = [outbox EXCEPT ![w] = <<>>]
    BY <1>4, <2>2 DEF Timeout, Retire
  <2>5. CASE v = w
    <3>1. phase[w] \notin {"unborn", "terminated"}
      BY <2>1 DEF Live, Fresh, Warming, Announcing, Waiting, Called, Running, Stuck
    <3>2. /\ phase'[w] = "terminated" /\ script'[w] = NoJob
          /\ inbox'[w] = <<>> /\ outbox'[w] = <<>>
      BY <2>3, <2>4 DEF IInv, TypeOK
    <3>3. Contract(w)!Terminate
      BY <3>1, <3>2 DEF Contract!Terminate
    <3> QED BY <2>5, <3>3 DEF Contract!Next
  <2>6. CASE v = new
    <3>1. /\ phase'[new] = "fresh" /\ inbox'[new] = <<InitMsg>>
          /\ outbox'[new] = outbox[new] /\ script'[new] = script[new]
      BY <2>3, <2>4 DEF IInv, TypeOK
    <3>2. Contract(new)!Spawn
      BY <2>3, <3>1, SameMessages
         DEF Unborn, Silent, Contract!Spawn, Contract!Unborn, Contract!Fresh
    <3> QED BY <2>6, <3>2 DEF Contract!Next
  <2>7. CASE v # w /\ v # new
    BY <2>4, <2>7, NotShown DEF IInv, TypeOK
  <2> QED BY <2>5, <2>6, <2>7
<1> QED BY <1>1, <1>2, <1>3, <1>4 DEF PageStep

\* shutdown() ends the workers of the pool and no other.
LEMMA ShutdownAllowed ==
  ASSUME IInv, Shutdown, NEW v \in Workers
  PROVE  Contract(v)!Next \/ UNCHANGED Contract(v)!vars
<1>1. CASE v \in all
  <2>1. phase[v] \notin {"unborn", "terminated"}
    BY <1>1 DEF IInv, LifeInv, Unborn, Dead, Live, Fresh, Warming, Announcing, Waiting,
                Called, Running, Stuck
  <2>2. Contract(v)!Terminate
    BY <1>1, <2>1 DEF Shutdown, Contract!Terminate
  <2> QED BY <2>2 DEF Contract!Next
<1>2. CASE v \notin all
  BY <1>2, NotShown DEF Shutdown
<1> QED BY <1>1, <1>2

\* A worker's own step is the contract's step of that name; every way to break
\* is the same to the pool.
LEMMA WorkerStepAllowed ==
  ASSUME IInv, NEW w \in Workers, WorkerStep(w), NEW v \in Workers
  PROVE  Contract(v)!Next \/ UNCHANGED Contract(v)!vars
<1> USE DEF IInv, TypeOK
<1>0. CASE v # w
  BY <1>0, NotShown DEF WorkerStep, HandleInit, Receive, WarmUp, Post, WarmFail, HandleRun,
                        Finish, Wedge, Crash
<1> SUFFICES ASSUME v = w PROVE Contract(w)!Next \/ UNCHANGED Contract(w)!vars
  BY <1>0
<1>1. Unborn(w) \/ Live(w) \/ Dead(w)
  BY DEF LifeInv
<1>2. CASE HandleInit(w)
  <2>1. Fresh(w)
    BY <1>1, <1>2 DEF HandleInit, Unborn, Live, Dead, Fresh, Warming, Announcing, Waiting,
                      Called, Running, Stuck
  <2>2. Contract(w)!HandleInit
    BY <1>2, <2>1, SameMessages
       DEF Fresh, HandleInit, Receive, Contract!HandleInit, Contract!Fresh
  <2> QED BY <2>2 DEF Contract!Next
<1>3. CASE WarmUp(w)
  <2>1. Contract(w)!WarmUp
    BY <1>3, SameMessages DEF WarmUp, Post, Contract!WarmUp
  <2> QED BY <2>1 DEF Contract!Next
<1>4. CASE HandleRun(w)
  <2>1. Called(w)
    BY <1>1, <1>4 DEF HandleRun, Receive, Unborn, Live, Dead, Fresh, Warming, Announcing,
                      Waiting, Called, Running, Stuck, Silent
  <2>2. PICK j \in Jobs : j = job[w]
    BY <2>1 DEF Called
  <2>3. inbox[w] = <<RunMsg(j)>> /\ Head(inbox[w]).job = j /\ Tail(inbox[w]) = <<>>
    BY <2>1, <2>2 DEF Called, RunMsg
  <2>4. Contract(w)!Msg("run", j) = RunMsg(j)
    BY SameMessages
  <2>5. /\ phase[w] = "warm" /\ phase'[w] = "running" /\ script'[w] = j
        /\ inbox'[w] = <<>> /\ outbox'[w] = outbox[w]
    BY <1>4, <2>3 DEF HandleRun, Receive
  <2>6. Contract(w)!HandleRun
    BY <2>3, <2>4, <2>5 DEF Contract!HandleRun
  <2> QED BY <2>6 DEF Contract!Next
<1>5. CASE Finish(w)
  <2>1. Running(w)
    BY <1>1, <1>5 DEF Finish, Unborn, Live, Dead, Fresh, Warming, Announcing, Waiting,
                      Called, Running, Stuck
  <2>2. Contract(w)!Msg("result", script[w]) = ResultMsg(script[w])
    BY <2>1, SameMessages DEF Running
  <2>3. Contract(w)!Finish
    BY <1>5, <2>2 DEF Finish, Post, Contract!Finish
  <2> QED BY <2>3 DEF Contract!Next
<1>6. CASE WarmFail(w) \/ Wedge(w) \/ Crash(w)
  <2>1. Contract(w)!Break
    BY <1>6 DEF WarmFail, Wedge, Crash, Contract!Break
  <2> QED BY <2>1 DEF Contract!Next
<1> QED BY <1>2, <1>3, <1>4, <1>5, <1>6 DEF WorkerStep

\* The pool keeps to the contract with every worker: a run is posted only to one
\* that has said "ready" and nothing since, however runs, errors, timeouts and
\* shutdown() come together.
THEOREM ContractsKept == Spec => KeepsContract
<1>1. Init => \A w \in Workers : Contract(w)!Init
  BY SameMessages DEF Init, Contract!Init, Contract!Fresh, Contract!Unborn
<1>2. IInv /\ [Next]_vars
        => [\A w \in Workers : Contract(w)!Next \/ UNCHANGED Contract(w)!vars]_vars
  <2> SUFFICES ASSUME IInv, Next, NEW v \in Workers
               PROVE  Contract(v)!Next \/ UNCHANGED Contract(v)!vars
    OBVIOUS
  <2>1. ASSUME NEW j \in Jobs, RunLater(j) PROVE UNCHANGED Contract(v)!vars
    BY <2>1, NotShown DEF RunLater, workerVars
  <2> QED BY <2>1, RunAsked, PageStepAllowed, WorkerStepAllowed, ShutdownAllowed DEF Next
<1> QED BY <1>1, <1>2, Inductive, PTL DEF Spec, KeepsContract
===============================================================================
