--------------------------- MODULE WorkerPoolProofs ---------------------------
(***************************************************************************)
(* The safety properties of WorkerPool for every number of jobs and        *)
(* workers and every choice of faults, from one inductive invariant.       *)
(***************************************************************************)
EXTENDS WorkerPool, FiniteSetTheorems, SequenceTheorems, TLAPS

-------------------------------------------------------------------------------
(* The inductive invariant.  Where a worker's code is, what both channels   *)
(* hold and what the page has noted about the worker determine each other.  *)

Silent(w)  == inbox[w] = <<>> /\ outbox[w] = <<>>
Idle(w)    == job[w] = NoJob /\ script[w] = NoJob
Parked(w)  == w \in Elements(ready)
Healthy(w) == w \notin failing

Fresh(w) ==
    phase[w] = "fresh" /\ inbox[w] = <<InitMsg>> /\ outbox[w] = <<>> /\ Idle(w)

Warming(w) ==
    /\ phase[w] = "warming" /\ inbox[w] = <<>> /\ script[w] = NoJob
    /\ \/ job[w] = NoJob /\ outbox[w] = <<>>
       \/ job[w] \in Jobs /\ outbox[w] = <<ResultMsg(job[w])>>

Announcing(w) ==
    /\ phase[w] = "warm" /\ inbox[w] = <<>> /\ script[w] = NoJob
    /\ \/ job[w] = NoJob /\ outbox[w] = <<ReadyMsg>>
       \/ job[w] \in Jobs /\ outbox[w] = <<ResultMsg(job[w]), ReadyMsg>>

Waiting(w) == phase[w] = "warm" /\ Silent(w) /\ Idle(w)

Called(w) ==
    /\ phase[w] = "warm" /\ script[w] = NoJob /\ outbox[w] = <<>>
    /\ job[w] \in Jobs /\ inbox[w] = <<RunMsg(job[w])>>

Running(w) ==
    phase[w] = "running" /\ Silent(w) /\ job[w] \in Jobs /\ script[w] = job[w]

Stuck(w) ==
    /\ phase[w] = "stuck"
    /\ outbox[w] = <<>> \/ (job[w] \in Jobs /\ outbox[w] = <<ResultMsg(job[w])>> /\ Healthy(w))

Live(w) ==
    /\ w \in all /\ w <= spawned /\ timer[w] = job[w]
    /\ ~Healthy(w) => phase[w] = "stuck"
    /\ Parked(w) <=> Waiting(w)
    /\ Fresh(w) \/ Warming(w) \/ Announcing(w) \/ Waiting(w)
         \/ Called(w) \/ Running(w) \/ Stuck(w)

Unborn(w) ==
    /\ phase[w] = "unborn" /\ w > spawned /\ Silent(w) /\ Idle(w) /\ timer[w] = NoJob
    /\ w \notin all /\ Healthy(w) /\ ~Parked(w)

Dead(w) ==
    /\ phase[w] = "terminated" /\ w <= spawned /\ Silent(w) /\ timer[w] = NoJob
    /\ w \notin all /\ ~Parked(w)

LifeInv == \A w \in Workers : Unborn(w) \/ Live(w) \/ Dead(w)

Distinct(s) == \A i, k \in DOMAIN s : s[i] = s[k] => i = k

\* A job is in one place, and exactly the open ones are in a place.
JobInv ==
    /\ Distinct(pending)
    /\ \A v, w \in Workers : job[v] = job[w] /\ job[v] \in Jobs => v = w
    /\ \A w \in Workers : job[w] \notin Elements(pending)
    /\ \A j \in Jobs : promise[j] = "open" <=> j \in Elements(pending) \/ Dispatched(j)

ReadyInv == Distinct(ready) /\ NoIdleWhileQueued

SizeInv == IsFiniteSet(all) /\ CapacityKept

IInv == TypeOK /\ LifeInv /\ JobInv /\ ReadyInv /\ SizeInv

-------------------------------------------------------------------------------
(* Facts about sequences *)

\* What Append adds to the elements of a sequence.
LEMMA AppendElements ==
  ASSUME NEW S, NEW s \in Seq(S), NEW e \in S
  PROVE  /\ Append(s, e) \in Seq(S)
         /\ Append(s, e) # <<>>
         /\ Elements(Append(s, e)) = Elements(s) \union {e}
         /\ Distinct(s) /\ e \notin Elements(s) => Distinct(Append(s, e))
<1> DEFINE t == Append(s, e)
<1>1. t \in Seq(S) /\ Len(s) \in Nat /\ Len(t) = Len(s) + 1 /\ DOMAIN s = 1..Len(s) /\ DOMAIN t = 1..Len(t)
  OBVIOUS
<1>2. t[Len(t)] = e /\ \A i \in DOMAIN s : i \in DOMAIN t /\ t[i] = s[i]
  BY <1>1
<1>3. t # <<>>
  BY <1>1
<1> HIDE DEF t
<1>4. Elements(t) \subseteq Elements(s) \union {e}
  BY <1>1, <1>2 DEF Elements
<1>5. Elements(s) \union {e} \subseteq Elements(t)
  BY <1>1, <1>2 DEF Elements
<1>6. ASSUME Distinct(s), e \notin Elements(s)
      PROVE  Distinct(t)
  BY <1>1, <1>2, <1>6 DEF Elements, Distinct
<1> QED BY <1>1, <1>3, <1>4, <1>5, <1>6 DEF t

\* What Tail removes from the elements of a sequence without repetitions.
LEMMA TailElements ==
  ASSUME NEW S, NEW s \in Seq(S), s # <<>>, Distinct(s)
  PROVE  /\ Head(s) \in S
         /\ Head(s) \in Elements(s)
         /\ Tail(s) \in Seq(S)
         /\ Elements(Tail(s)) = Elements(s) \ {Head(s)}
         /\ Distinct(Tail(s))
<1>1. Len(s) \in Nat /\ Len(s) > 0 /\ DOMAIN s = 1..Len(s)
  OBVIOUS
<1>2. Head(s) = s[1] /\ Head(s) \in S /\ Tail(s) \in Seq(S)
  BY <1>1
<1>3. DOMAIN Tail(s) = 1..(Len(s) - 1) /\ \A i \in DOMAIN Tail(s) : Tail(s)[i] = s[i + 1]
  BY <1>1
<1>4. Head(s) \in Elements(s)
  BY <1>1, <1>2 DEF Elements
<1>5. Distinct(Tail(s))
  BY <1>1, <1>3 DEF Distinct
<1>6. Elements(Tail(s)) \subseteq Elements(s) \ {Head(s)}
  BY <1>1, <1>2, <1>3 DEF Elements, Distinct
<1>7. ASSUME NEW e \in Elements(s) \ {Head(s)}  PROVE e \in Elements(Tail(s))
  <2>1. PICK i \in DOMAIN s : e = s[i] /\ i # 1
    BY <1>2 DEF Elements
  <2>2. i - 1 \in DOMAIN Tail(s) /\ Tail(s)[i - 1] = e
    BY <2>1, <1>1, <1>3
  <2> QED BY <2>2 DEF Elements
<1> QED BY <1>2, <1>4, <1>5, <1>6, <1>7

\* The empty sequence has no elements.
LEMMA EmptyElements == Elements(<<>>) = {} /\ Distinct(<<>>)
  BY DEF Elements, Distinct

\* Removing what is not there changes nothing.
LEMMA WithoutAbsent ==
  ASSUME NEW s, NEW e, e \notin Elements(s)
  PROVE  Without(s, e) = s
  BY DEF Without

\* Appending to a sequence of one element.
LEMMA AppendToOne ==
  ASSUME NEW S, NEW m \in S, NEW n \in S
  PROVE  Append(<<m>>, n) = <<m, n>>
<1> DEFINE t == Append(<<m>>, n)
<1> DEFINE u == <<m, n>>
<1>0. <<m>> \in Seq(S)
  OBVIOUS
<1>1. t \in Seq(S) /\ Len(t) = 2 /\ t[1] = m /\ t[2] = n
  BY <1>0
<1>2. u \in Seq(S) /\ Len(u) = 2 /\ u[1] = m /\ u[2] = n
  OBVIOUS
<1>3. \A i \in 1..Len(t) : t[i] = u[i]
  BY <1>1, <1>2
<1> QED BY <1>1, <1>2, <1>3, SeqEqual

\* The messages the program sends.
LEMMA Messages ==
  /\ ReadyMsg \in Message /\ InitMsg \in Message
  /\ \A j \in Jobs : RunMsg(j) \in Message /\ ResultMsg(j) \in Message
  BY DEF Message

\* Posting to and taking from a channel keeps it a sequence of messages.
LEMMA ChannelType ==
  ASSUME NEW f \in [Workers -> Seq(Message)], NEW w \in Workers, NEW m \in Message
  PROVE  /\ [f EXCEPT ![w] = Append(@, m)] \in [Workers -> Seq(Message)]
         /\ f[w] # <<>> => [f EXCEPT ![w] = Tail(@)] \in [Workers -> Seq(Message)]
  OBVIOUS

-------------------------------------------------------------------------------
(* The initial state *)

\* The constructor establishes the invariant.
LEMMA InitInv == Init => IInv
<1> SUFFICES ASSUME Init PROVE IInv
  OBVIOUS
<1> USE PoolAssumption
<1>1. all \subseteq Workers
  BY DEF Init, Workers
<1>2. TypeOK
  <2>1. inbox \in [Workers -> Seq(Message)] /\ outbox \in [Workers -> Seq(Message)]
    BY Messages DEF Init
  <2>2. spawned \in PoolSize..MaxWorkers
    BY DEF Init
  <2>3. phase \in [Workers -> Phases] /\ promise \in [Jobs -> PromiseStates]
    BY DEF Init, Phases, PromiseStates
  <2>4. ready \in Seq(Workers) /\ pending \in Seq(Jobs)
    BY DEF Init
  <2> QED BY <1>1, <2>1, <2>2, <2>3, <2>4 DEF Init, TypeOK
<1>3. LifeInv
  BY EmptyElements DEF Init, LifeInv, Unborn, Live, Fresh, Idle, Silent, Parked, Healthy, Waiting, Workers
<1>4. JobInv
  BY EmptyElements DEF Init, JobInv, Dispatched
<1>5. ReadyInv
  BY EmptyElements DEF Init, ReadyInv, NoIdleWhileQueued
<1>6. SizeInv
  BY FS_Interval DEF Init, SizeInv, CapacityKept
<1> QED BY <1>2, <1>3, <1>4, <1>5, <1>6 DEF IInv

-------------------------------------------------------------------------------
(* The steps of the workers *)

\* A worker's own step touches nothing the page keeps.
LEMMA WorkerStepPage ==
  ASSUME IInv, NEW w \in Workers, WorkerStep(w)
  PROVE  JobInv' /\ ReadyInv' /\ SizeInv'
<1>1. UNCHANGED <<ready, pending, all, spawned, job, timer, promise>>
  BY DEF WorkerStep, HandleInit, WarmUp, WarmFail, HandleRun, Finish, Wedge, Crash
<1> QED BY <1>1 DEF IInv, JobInv, ReadyInv, SizeInv, Distinct, Elements, Dispatched,
             NoIdleWhileQueued, CapacityKept

\* A worker's own step keeps every worker in a legal state.
LEMMA WorkerStepLife ==
  ASSUME IInv, NEW w \in Workers, WorkerStep(w)
  PROVE  TypeOK' /\ LifeInv'
<1> USE DEF IInv, LifeInv
<1>0. UNCHANGED <<ready, pending, all, spawned, job, timer, promise>>
  BY DEF WorkerStep, HandleInit, WarmUp, WarmFail, HandleRun, Finish, Wedge, Crash
<1>1. Unborn(w) \/ Live(w) \/ Dead(w)
  OBVIOUS
<1>2. ASSUME NEW v \in Workers, v # w,
             phase'[v] = phase[v], script'[v] = script[v],
             inbox'[v] = inbox[v], outbox'[v] = outbox[v],
             v \in failing' <=> v \in failing
      PROVE  (Unborn(v) \/ Live(v) \/ Dead(v))'
  <2>1. Unborn(v) \/ Live(v) \/ Dead(v)
    OBVIOUS
  <2> QED BY <1>0, <1>2, <2>1 DEF Unborn, Live, Dead, Fresh, Warming, Announcing, Waiting,
        Called, Running, Stuck, Silent, Idle, Parked, Healthy, Elements
<1>3. CASE HandleInit(w)
  <2>1. Live(w) /\ Fresh(w)
    BY <1>1, <1>3 DEF HandleInit, Unborn, Live, Dead, Fresh, Warming, Announcing, Waiting, Called, Running, Stuck
  <2>2. TypeOK'
    BY <1>0, <1>3 DEF TypeOK, HandleInit, Receive, Phases
  <2>3. Live(w)' /\ Warming(w)'
    BY <1>0, <1>3, <2>1 DEF TypeOK, HandleInit, Receive, Live, Fresh, Warming, Waiting,
       Silent, Idle, Parked, Healthy, Elements
  <2> QED BY <1>2, <1>3, <2>2, <2>3 DEF HandleInit, Receive, TypeOK
<1>4. CASE WarmUp(w)
  <2>1. Live(w) /\ Warming(w)
    BY <1>1, <1>4 DEF WarmUp, Post, Unborn, Live, Dead, Fresh, Warming, Announcing,
       Waiting, Called, Running, Stuck, Silent
  <2>2. TypeOK'
    BY <1>0, <1>4, <2>1, Messages, ChannelType DEF TypeOK, WarmUp, Post, Phases
  <2>3. outbox'[w] = IF job[w] = NoJob THEN <<ReadyMsg>> ELSE <<ResultMsg(job[w]), ReadyMsg>>
    <3>1. outbox'[w] = Append(outbox[w], ReadyMsg)
      BY <1>4 DEF WarmUp, Post, TypeOK
    <3>2. CASE job[w] = NoJob
      <4>1. outbox[w] = <<>>
        BY <2>1, <3>2, PoolAssumption DEF Warming
      <4>2. Append(<<>>, ReadyMsg) = <<ReadyMsg>>
        OBVIOUS
      <4> QED BY <3>1, <3>2, <4>1, <4>2
    <3>3. CASE job[w] \in Jobs
      <4>1. job[w] # NoJob /\ outbox[w] = <<ResultMsg(job[w])>>
        BY <2>1, <3>3, PoolAssumption DEF Warming
      <4>2. Append(<<ResultMsg(job[w])>>, ReadyMsg) = <<ResultMsg(job[w]), ReadyMsg>>
        BY <3>3, AppendToOne, Messages
      <4> QED BY <3>1, <4>1, <4>2
    <3> QED BY <3>2, <3>3 DEF TypeOK
  <2>4. Live(w)' /\ Announcing(w)'
    BY <1>0, <1>4, <2>1, <2>3, PoolAssumption DEF TypeOK, WarmUp, Live, Waiting, Silent, Idle,
       Parked, Healthy, Elements, Warming, Announcing
  <2> QED BY <1>2, <1>4, <2>2, <2>4 DEF WarmUp, Post, TypeOK
<1>5. CASE WarmFail(w)
  <2>1. Live(w) /\ Warming(w)
    BY <1>1, <1>5 DEF WarmFail, Unborn, Live, Dead, Fresh, Warming, Announcing,
       Waiting, Called, Running, Stuck, Silent
  <2>2. TypeOK'
    BY <1>0, <1>5, <2>1 DEF TypeOK, WarmFail, Phases
  <2>3. Live(w)' /\ Stuck(w)'
    BY <1>0, <1>5, <2>1 DEF TypeOK, WarmFail, Warming, Stuck, Live, Waiting, Silent, Idle,
       Parked, Healthy, Elements
  <2> QED BY <1>2, <1>5, <2>2, <2>3 DEF WarmFail, TypeOK
<1>6. CASE HandleRun(w)
  <2>1. Live(w) /\ Called(w)
    BY <1>1, <1>6 DEF HandleRun, Receive, RunMsg, InitMsg, Unborn, Live, Dead, Fresh, Warming, Announcing,
       Waiting, Called, Running, Stuck, Silent
  <2>2. TypeOK'
    BY <1>0, <1>6, <2>1, ChannelType, Messages DEF TypeOK, HandleRun, Receive, RunMsg, InitMsg, Phases, Called
  <2>3. Live(w)' /\ Running(w)'
    BY <1>0, <1>6, <2>1 DEF TypeOK, HandleRun, Receive, RunMsg, InitMsg, Called, Running, Live, Waiting, Silent, Idle,
       Parked, Healthy, Elements
  <2> QED BY <1>2, <1>6, <2>2, <2>3 DEF HandleRun, Receive, RunMsg, InitMsg, TypeOK
<1>7. CASE Finish(w)
  <2>1. Live(w) /\ Running(w)
    BY <1>1, <1>7 DEF Finish, Post, Unborn, Live, Dead, Fresh, Warming, Announcing,
       Waiting, Called, Running, Stuck, Silent
  <2>2. TypeOK'
    BY <1>0, <1>7, <2>1, Messages, ChannelType DEF TypeOK, Finish, Post, Phases, Running, Silent
  <2>3. Live(w)' /\ Warming(w)'
    BY <1>0, <1>7, <2>1 DEF TypeOK, Finish, Post, Running, Warming, Live, Waiting, Silent, Idle,
       Parked, Healthy, Elements
  <2> QED BY <1>2, <1>7, <2>2, <2>3 DEF Finish, Post, TypeOK
<1>8. CASE Wedge(w)
  <2>1. Live(w) /\ Running(w)
    BY <1>1, <1>8 DEF Wedge, Unborn, Live, Dead, Fresh, Warming, Announcing,
       Waiting, Called, Running, Stuck, Silent
  <2>2. TypeOK'
    BY <1>0, <1>8, <2>1 DEF TypeOK, Wedge, Phases
  <2>3. Live(w)' /\ Stuck(w)'
    BY <1>0, <1>8, <2>1 DEF TypeOK, Wedge, Running, Stuck, Live, Waiting, Silent, Idle,
       Parked, Healthy, Elements
  <2> QED BY <1>2, <1>8, <2>2, <2>3 DEF Wedge, TypeOK
<1>9. CASE Crash(w)
  <2>1. Live(w) /\ (Fresh(w) \/ Running(w))
    BY <1>1, <1>9 DEF Crash, Unborn, Live, Dead, Fresh, Warming, Announcing,
       Waiting, Called, Running, Stuck, Silent
  <2>2. TypeOK'
    BY <1>0, <1>9, <2>1 DEF TypeOK, Crash, Phases
  <2>3. Live(w)' /\ Stuck(w)'
    BY <1>0, <1>9, <2>1 DEF TypeOK, Crash, Fresh, Running, Stuck, Live, Waiting, Silent, Idle,
       Parked, Healthy, Elements
  <2> QED BY <1>2, <1>9, <2>2, <2>3 DEF Crash, TypeOK
<1> QED BY <1>3, <1>4, <1>5, <1>6, <1>7, <1>8, <1>9 DEF WorkerStep

-------------------------------------------------------------------------------
(* The steps of the page *)

\* Which state a worker is in when the page handles one of its messages.
LEMMA Arrival ==
  ASSUME IInv, NEW w \in Workers
  PROVE  /\ Arrives(w, "ready") => Live(w) /\ Announcing(w) /\ job[w] = NoJob
                                    /\ outbox[w] = <<ReadyMsg>> /\ Tail(outbox[w]) = <<>>
         /\ Arrives(w, "result") =>
               /\ Live(w) /\ job[w] \in Jobs /\ Head(outbox[w]) = ResultMsg(job[w])
               /\ Warming(w) \/ Announcing(w) \/ (Stuck(w) /\ Healthy(w))
               /\ Tail(outbox[w]) = IF Announcing(w) THEN <<ReadyMsg>> ELSE <<>>
<1>1. Unborn(w) \/ Live(w) \/ Dead(w)
  BY DEF IInv, LifeInv
<1>2. outbox[w] # <<>> => Live(w) /\ (Warming(w) \/ Announcing(w) \/ (Stuck(w) /\ Healthy(w)))
  BY <1>1 DEF Unborn, Live, Dead, Fresh, Warming, Announcing, Waiting, Called, Running, Stuck, Silent
<1>3. CASE outbox[w] = <<>>
  BY <1>3 DEF Arrives
<1>4. CASE outbox[w] = <<ReadyMsg>> /\ job[w] = NoJob /\ Live(w) /\ Announcing(w)
  BY <1>4 DEF Arrives, ReadyMsg
<1>5. CASE /\ outbox[w] = <<ResultMsg(job[w]), ReadyMsg>>
           /\ job[w] \in Jobs /\ Live(w) /\ Announcing(w)
  BY <1>5 DEF Arrives, ResultMsg
<1>6. CASE /\ outbox[w] = <<ResultMsg(job[w])>> /\ job[w] \in Jobs /\ Live(w)
           /\ ~Announcing(w) /\ (Warming(w) \/ (Stuck(w) /\ Healthy(w)))
  BY <1>6 DEF Arrives, ResultMsg
<1> QED BY <1>2, <1>3, <1>4, <1>5, <1>6 DEF Warming, Announcing, Stuck

\* The page's handlers for one worker leave the other workers as they are.
LEMMA OthersLive ==
  ASSUME IInv, NEW w \in Workers, NEW v \in Workers, v # w,
         job'[v] = job[v], timer'[v] = timer[v], phase'[v] = phase[v], script'[v] = script[v],
         inbox'[v] = inbox[v], outbox'[v] = outbox[v],
         v \in all' <=> v \in all, v \in failing' <=> v \in failing,
         v \in Elements(ready') <=> v \in Elements(ready),
         spawned' = spawned
  PROVE  (Unborn(v) \/ Live(v) \/ Dead(v))'
<1>1. Unborn(v) \/ Live(v) \/ Dead(v)
  BY DEF IInv, LifeInv
<1> QED BY <1>1 DEF Unborn, Live, Dead, Fresh, Warming, Announcing, Waiting,
        Called, Running, Stuck, Silent, Idle, Parked, Healthy

\* run() that finds a parked worker.
LEMMA RunNowInv ==
  ASSUME IInv, NEW j \in Jobs, RunNow(j)
  PROVE  IInv'
<1>w. PICK w \in Workers : w = Head(ready)
  BY TailElements DEF IInv, TypeOK, ReadyInv, RunNow
<1>0. /\ job' = [job EXCEPT ![w] = j] /\ timer' = [timer EXCEPT ![w] = j]
      /\ inbox' = [inbox EXCEPT ![w] = Append(@, RunMsg(j))]
      /\ promise[j] = "none" /\ promise' = [promise EXCEPT ![j] = "open"]
      /\ UNCHANGED <<pending, all, spawned, phase, script, outbox, failing>>
  BY <1>w DEF RunNow, Dispatch
<1>1. /\ w \in Elements(ready) /\ ready' \in Seq(Workers)
      /\ Elements(ready') = Elements(ready) \ {w} /\ Distinct(ready')
  BY <1>w, TailElements DEF IInv, TypeOK, ReadyInv, RunNow
<1>2. pending = <<>>
  BY DEF RunNow, IInv, ReadyInv, NoIdleWhileQueued
<1>3. Live(w) /\ Waiting(w)
  BY <1>1 DEF IInv, LifeInv, Unborn, Live, Dead, Parked
<1>4. TypeOK'
  <2>1. inbox' \in [Workers -> Seq(Message)]
    BY <1>0, <1>1, ChannelType, Messages DEF IInv, TypeOK
  <2>2. promise' \in [Jobs -> PromiseStates]
    BY <1>0 DEF IInv, TypeOK, PromiseStates
  <2> QED BY <1>0, <1>1, <2>1, <2>2 DEF IInv, TypeOK
<1>5. LifeInv'
  <2>1. job'[w] = j /\ timer'[w] = j /\ inbox'[w] = <<RunMsg(j)>>
    BY <1>0, <1>1, <1>3 DEF IInv, TypeOK, Waiting, Silent
  <2>2. Called(w)' /\ ~Waiting(w)'
    BY <1>0, <1>3, <2>1 DEF Waiting, Called, Silent, Idle
  <2>3. Live(w)'
    BY <1>0, <1>1, <1>3, <2>1, <2>2 DEF Live, Healthy, Parked, Waiting
  <2>4. ASSUME NEW v \in Workers, v # w PROVE (Unborn(v) \/ Live(v) \/ Dead(v))'
    BY <1>0, <1>1, <2>4, OthersLive DEF IInv, TypeOK
  <2> QED BY <2>3, <2>4 DEF LifeInv
<1>6. JobInv'
  <2>1. \A v \in Workers : job'[v] = IF v = w THEN j ELSE job[v]
    BY <1>0 DEF IInv, TypeOK
  <2>2. \A v \in Workers : job[v] # j
    BY <1>0 DEF IInv, JobInv, Dispatched
  <2>3. job[w] = NoJob
    BY <1>3 DEF Waiting, Idle
  <2>4. \A i \in Jobs : promise'[i] = "open" <=> i \in Elements(pending') \/ Dispatched(i)'
    BY <1>0, <1>1, <1>2, <2>1, <2>3, EmptyElements, PoolAssumption
       DEF IInv, TypeOK, JobInv, Dispatched
  <2> QED BY <1>0, <1>1, <1>2, <2>1, <2>2, <2>4, EmptyElements DEF IInv, JobInv
<1>7. ReadyInv'
  BY <1>1, <1>2 DEF IInv, RunNow, ReadyInv, NoIdleWhileQueued
<1>8. SizeInv'
  BY DEF IInv, RunNow, SizeInv, CapacityKept
<1> QED BY <1>4, <1>5, <1>6, <1>7, <1>8 DEF IInv

\* run() that has to wait.
LEMMA RunLaterInv ==
  ASSUME IInv, NEW j \in Jobs, RunLater(j)
  PROVE  IInv'
<1>1. j \notin Elements(pending) /\ \A w \in Workers : job[w] # j
  BY DEF IInv, JobInv, Dispatched, RunLater
<1>2. /\ pending' \in Seq(Jobs) /\ Elements(pending') = Elements(pending) \union {j}
      /\ Distinct(pending')
  BY <1>1, AppendElements DEF IInv, TypeOK, JobInv, RunLater
<1>3. TypeOK'
  BY <1>2 DEF IInv, TypeOK, RunLater, PromiseStates, workerVars
<1>4. LifeInv'
  BY DEF IInv, LifeInv, RunLater, workerVars, Unborn, Live, Dead, Fresh, Warming,
     Announcing, Waiting, Called, Running, Stuck, Silent, Idle, Parked, Healthy
<1>5. JobInv'
  <2>1. \A i \in Jobs : promise'[i] = "open" <=> i \in Elements(pending') \/ Dispatched(i)'
    BY <1>2 DEF IInv, TypeOK, JobInv, RunLater, Dispatched
  <2> QED BY <1>1, <1>2, <2>1 DEF IInv, JobInv, RunLater
<1>6. ReadyInv' /\ SizeInv'
  BY DEF IInv, RunLater, ReadyInv, NoIdleWhileQueued, SizeInv, CapacityKept
<1> QED BY <1>3, <1>4, <1>5, <1>6 DEF IInv

\* A worker reports ready and takes the oldest queued job.
LEMMA OnReadyDispatchInv ==
  ASSUME IInv, NEW w \in Workers, OnReadyDispatch(w)
  PROVE  IInv'
<1>w. PICK j \in Jobs : j = Head(pending)
  BY TailElements DEF IInv, TypeOK, JobInv, OnReadyDispatch
<1>0. /\ job' = [job EXCEPT ![w] = j] /\ timer' = [timer EXCEPT ![w] = j]
      /\ inbox' = [inbox EXCEPT ![w] = Append(@, RunMsg(j))]
      /\ outbox[w] # <<>> /\ outbox' = [outbox EXCEPT ![w] = Tail(@)]
      /\ UNCHANGED <<ready, all, spawned, promise, phase, script, failing>>
  BY <1>w DEF OnReadyDispatch, Dispatch, Taken, Arrives
<1>1. /\ j \in Elements(pending) /\ pending' \in Seq(Jobs)
      /\ Elements(pending') = Elements(pending) \ {j} /\ Distinct(pending')
  BY <1>w, TailElements DEF IInv, TypeOK, JobInv, OnReadyDispatch
<1>2. Live(w) /\ Announcing(w) /\ job[w] = NoJob /\ Tail(outbox[w]) = <<>>
  BY Arrival DEF OnReadyDispatch
<1>4. TypeOK'
  BY <1>0, <1>1, ChannelType, Messages DEF IInv, TypeOK
<1>5. LifeInv'
  <2>1. job'[w] = j /\ timer'[w] = j /\ inbox'[w] = <<RunMsg(j)>> /\ outbox'[w] = <<>>
    BY <1>0, <1>2 DEF IInv, TypeOK, Announcing
  <2>2. Called(w)' /\ ~Waiting(w)' /\ ~Waiting(w)
    <3>1. Called(w)'
      BY <1>0, <1>2, <2>1 DEF Called, Announcing
    <3>2. ~Waiting(w)'
      BY <2>1 DEF Waiting, Silent
    <3>3. ~Waiting(w)
      BY <1>0 DEF Waiting, Silent
    <3> QED BY <3>1, <3>2, <3>3
  <2>3. Live(w)'
    BY <1>0, <1>1, <1>2, <2>1, <2>2 DEF Live, Healthy, Parked
  <2>4. ASSUME NEW v \in Workers, v # w PROVE (Unborn(v) \/ Live(v) \/ Dead(v))'
    BY <1>0, <1>1, <2>4, OthersLive DEF IInv, TypeOK
  <2> QED BY <2>3, <2>4 DEF LifeInv
<1>6. JobInv'
  <2>1. \A v \in Workers : job'[v] = IF v = w THEN j ELSE job[v]
    BY <1>0 DEF IInv, TypeOK
  <2>2. \A v \in Workers : job[v] # j
    BY <1>1 DEF IInv, JobInv
  <2>4. \A i \in Jobs : promise'[i] = "open" <=> i \in Elements(pending') \/ Dispatched(i)'
    BY <1>0, <1>1, <1>2, <2>1, PoolAssumption DEF IInv, JobInv, Dispatched
  <2> QED BY <1>0, <1>1, <2>1, <2>2, <2>4 DEF IInv, JobInv
<1>7. ReadyInv'
  BY <1>0 DEF IInv, OnReadyDispatch, ReadyInv, NoIdleWhileQueued
<1>8. SizeInv'
  BY <1>0 DEF IInv, SizeInv, CapacityKept
<1> QED BY <1>4, <1>5, <1>6, <1>7, <1>8 DEF IInv

\* A worker reports ready and is parked.
LEMMA OnReadyParkInv ==
  ASSUME IInv, NEW w \in Workers, OnReadyPark(w)
  PROVE  IInv'
<1>0. /\ outbox[w] # <<>> /\ outbox' = [outbox EXCEPT ![w] = Tail(@)]
      /\ ready' = Append(ready, w)
      /\ UNCHANGED <<pending, all, spawned, job, timer, promise, phase, script, inbox, failing>>
  BY DEF OnReadyPark, Taken, Arrives
<1>2. Live(w) /\ Announcing(w) /\ job[w] = NoJob /\ Tail(outbox[w]) = <<>>
  BY Arrival DEF OnReadyPark
<1>3. w \notin Elements(ready) /\ outbox'[w] = <<>>
  BY <1>0, <1>2 DEF IInv, TypeOK, Live, Announcing, Waiting, Silent, Parked
<1>1. /\ ready' \in Seq(Workers) /\ Elements(ready') = Elements(ready) \union {w}
      /\ Distinct(ready')
  BY <1>0, <1>3, AppendElements DEF IInv, TypeOK, ReadyInv
<1>4. TypeOK'
  BY <1>0, <1>1, ChannelType, Messages DEF IInv, TypeOK
<1>5. LifeInv'
  <2>1. Waiting(w)'
    BY <1>0, <1>2, <1>3 DEF Waiting, Silent, Idle, Announcing
  <2>2. Live(w)'
    BY <1>0, <1>1, <1>2, <2>1 DEF Live, Healthy, Parked
  <2>3. ASSUME NEW v \in Workers, v # w PROVE (Unborn(v) \/ Live(v) \/ Dead(v))'
    BY <1>0, <1>1, <2>3, OthersLive DEF IInv, TypeOK
  <2> QED BY <2>2, <2>3 DEF LifeInv
<1>6. JobInv' /\ SizeInv'
  BY <1>0 DEF IInv, JobInv, SizeInv, CapacityKept, Dispatched
<1>7. ReadyInv'
  BY <1>0, <1>1 DEF OnReadyPark, ReadyInv, NoIdleWhileQueued
<1> QED BY <1>4, <1>5, <1>6, <1>7 DEF IInv

\* What settling the promise of w's job does to the bookkeeping of jobs.
LEMMA SettleInv ==
  ASSUME IInv, NEW w \in Workers, job[w] \in Jobs,
         NEW r \in PromiseStates \ {"open"}, promise' = [promise EXCEPT ![job[w]] = r],
         job' = [job EXCEPT ![w] = NoJob], pending' = pending
  PROVE  JobInv' /\ promise' \in [Jobs -> PromiseStates]
<1>1. \A v \in Workers : job'[v] = IF v = w THEN NoJob ELSE job[v]
  BY DEF IInv, TypeOK
<1>2. \A i \in Jobs : promise'[i] = IF i = job[w] THEN r ELSE promise[i]
  BY DEF IInv, TypeOK
<1>3. \A i \in Jobs : promise'[i] = "open" <=> i \in Elements(pending') \/ Dispatched(i)'
  <2>1. job[w] \notin Elements(pending) /\ \A v \in Workers : v # w => job[v] # job[w]
    BY DEF IInv, JobInv
  <2>2. \A i \in Jobs : Dispatched(i)' <=> Dispatched(i) /\ i # job[w]
    BY <1>1, <2>1, PoolAssumption DEF Dispatched
  <2> QED BY <1>2, <2>1, <2>2 DEF IInv, JobInv
<1>4. NoJob \notin Elements(pending)
  BY PoolAssumption DEF IInv, TypeOK, Elements
<1> QED BY <1>1, <1>2, <1>3, <1>4, PoolAssumption DEF IInv, TypeOK, JobInv

\* A result settles the job of its worker.
LEMMA OnResultInv ==
  ASSUME IInv, NEW w \in Workers, OnResult(w)
  PROVE  IInv'
<1>0. /\ outbox[w] # <<>> /\ outbox' = [outbox EXCEPT ![w] = Tail(@)]
      /\ job' = [job EXCEPT ![w] = NoJob] /\ timer' = [timer EXCEPT ![w] = NoJob]
      /\ promise' = [promise EXCEPT ![job[w]] = "resolved"]
      /\ UNCHANGED <<ready, pending, all, spawned, phase, script, inbox, failing>>
  BY DEF OnResult, Taken, Arrives, ClearTimer
<1>1. /\ Live(w) /\ job[w] \in Jobs
      /\ Warming(w) \/ Announcing(w) \/ (Stuck(w) /\ Healthy(w))
      /\ Tail(outbox[w]) = IF Announcing(w) THEN <<ReadyMsg>> ELSE <<>>
  BY Arrival DEF OnResult
<1>2. JobInv' /\ promise' \in [Jobs -> PromiseStates]
  BY <1>0, <1>1, SettleInv DEF PromiseStates
<1>3. TypeOK'
  BY <1>0, <1>2, ChannelType, Messages DEF IInv, TypeOK
<1>4. LifeInv'
  <2>1. job'[w] = NoJob /\ timer'[w] = NoJob /\ outbox'[w] = IF Announcing(w) THEN <<ReadyMsg>> ELSE <<>>
    BY <1>0, <1>1 DEF IInv, TypeOK
  <2>2. (Warming(w) \/ Announcing(w) \/ Stuck(w))'
    BY <1>0, <1>1, <2>1 DEF Warming, Announcing, Stuck
  <2>3. ~Waiting(w)
    BY <1>0 DEF Waiting, Silent
  <2>4. ~Waiting(w)'
    <3>1. CASE phase[w] = "warm"
      <4>1. Announcing(w) /\ outbox'[w] = <<ReadyMsg>>
        BY <1>1, <2>1, <3>1 DEF Warming, Stuck
      <4> QED BY <4>1 DEF Waiting, Silent
    <3>2. CASE phase[w] # "warm"
      BY <1>0, <3>2 DEF Waiting
    <3> QED BY <3>1, <3>2
  <2>5. Live(w)'
    BY <1>0, <1>1, <2>1, <2>2, <2>3, <2>4 DEF Live, Healthy, Parked
  <2>6. ASSUME NEW v \in Workers, v # w PROVE (Unborn(v) \/ Live(v) \/ Dead(v))'
    BY <1>0, <2>6, OthersLive DEF IInv, TypeOK
  <2> QED BY <2>5, <2>6 DEF LifeInv
<1>5. ReadyInv' /\ SizeInv'
  BY <1>0 DEF IInv, ReadyInv, NoIdleWhileQueued, SizeInv, CapacityKept
<1> QED BY <1>2, <1>3, <1>4, <1>5 DEF IInv

\* An error event rejects the job of its worker, if it has one.
LEMMA OnErrorInv ==
  ASSUME IInv, NEW w \in Workers, OnError(w)
  PROVE  IInv'
<1>0. /\ w \in failing /\ failing' = failing \ {w}
      /\ job' = [job EXCEPT ![w] = NoJob] /\ timer' = [timer EXCEPT ![w] = NoJob]
      /\ promise' = IF job[w] = NoJob THEN promise ELSE [promise EXCEPT ![job[w]] = "failed"]
      /\ UNCHANGED <<ready, pending, all, spawned, phase, script, inbox, outbox>>
  BY DEF OnError, ClearTimer, Rejected
<1>1. (Live(w) /\ Stuck(w) /\ outbox[w] = <<>>) \/ Dead(w)
  BY <1>0 DEF IInv, LifeInv, Unborn, Live, Healthy, Stuck, Fresh, Warming, Announcing, Waiting,
     Called, Running
<1>2. JobInv' /\ promise' \in [Jobs -> PromiseStates]
  <2>1. CASE job[w] = NoJob
    <3>1. job' = job /\ promise' = promise
      BY <1>0, <2>1 DEF IInv, TypeOK
    <3> QED BY <1>0, <3>1 DEF IInv, TypeOK, JobInv, Dispatched
  <2>2. CASE job[w] \in Jobs
    BY <1>0, <2>2, SettleInv, PoolAssumption DEF PromiseStates
  <2> QED BY <2>1, <2>2 DEF IInv, TypeOK
<1>3. TypeOK'
  BY <1>0, <1>2 DEF IInv, TypeOK
<1>4. LifeInv'
  <2>1. job'[w] = NoJob /\ timer'[w] = NoJob
    BY <1>0 DEF IInv, TypeOK
  <2>2. ASSUME Live(w), Stuck(w), outbox[w] = <<>> PROVE Live(w)'
    <3>1. Stuck(w)' /\ ~Waiting(w) /\ ~Waiting(w)'
      BY <1>0, <2>1, <2>2 DEF Stuck, Waiting
    <3> QED BY <1>0, <2>1, <2>2, <3>1 DEF Live, Healthy, Parked
  <2>3. ASSUME Dead(w) PROVE Dead(w)'
    BY <1>0, <2>1, <2>3 DEF Dead, Silent, Parked
  <2>4. ASSUME NEW v \in Workers, v # w PROVE (Unborn(v) \/ Live(v) \/ Dead(v))'
    BY <1>0, <2>4, OthersLive DEF IInv, TypeOK
  <2> QED BY <1>1, <2>2, <2>3, <2>4 DEF LifeInv
<1>5. ReadyInv' /\ SizeInv'
  BY <1>0 DEF IInv, ReadyInv, NoIdleWhileQueued, SizeInv, CapacityKept
<1> QED BY <1>2, <1>3, <1>4, <1>5 DEF IInv

\* A timeout rejects the job of its worker and replaces the worker.
LEMMA TimeoutInv ==
  ASSUME IInv, NEW w \in Workers, Timeout(w)
  PROVE  IInv'
<1>w. PICK new \in Workers : new = spawned + 1
  BY PoolAssumption DEF IInv, TypeOK, Timeout, Retire, Workers
<1>1. Live(w) /\ job[w] \in Jobs /\ ~Parked(w) /\ new # w
  <2>1. Unborn(w) \/ Live(w) \/ Dead(w)
    BY DEF IInv, LifeInv
  <2>2. Live(w) /\ job[w] \in Jobs
    BY <2>1 DEF Timeout, Unborn, Live, Dead, IInv, TypeOK
  <2> QED BY <1>w, <2>2, PoolAssumption DEF Live, Waiting, Idle, IInv, TypeOK, Workers
<1>2. Unborn(new)
  BY <1>w DEF IInv, LifeInv, Live, Dead, TypeOK, Workers
<1>0. /\ job' = [job EXCEPT ![w] = NoJob] /\ timer' = [timer EXCEPT ![w] = NoJob]
      /\ promise' = [promise EXCEPT ![job[w]] = "timedOut"]
      /\ spawned' = new /\ all' = (all \ {w}) \union {new} /\ ready' = ready
      /\ phase' = [phase EXCEPT ![w] = "terminated", ![new] = "fresh"]
      /\ script' = [script EXCEPT ![w] = NoJob]
      /\ inbox' = [inbox EXCEPT ![w] = <<>>, ![new] = <<InitMsg>>]
      /\ outbox' = [outbox EXCEPT ![w] = <<>>]
      /\ UNCHANGED <<pending, failing>>
  BY <1>w, <1>1, WithoutAbsent, PoolAssumption
     DEF Timeout, ClearTimer, Retire, Rejected, Parked
<1>3. JobInv' /\ promise' \in [Jobs -> PromiseStates]
  BY <1>0, <1>1, SettleInv DEF PromiseStates
<1>4. TypeOK'
  <2>1. inbox' \in [Workers -> Seq(Message)] /\ outbox' \in [Workers -> Seq(Message)]
    <3>1. <<InitMsg>> \in Seq(Message) /\ <<>> \in Seq(Message)
      BY Messages
    <3> QED BY <1>0, <3>1 DEF IInv, TypeOK
  <2>2. spawned' \in PoolSize..MaxWorkers
    BY <1>0, <1>w, PoolAssumption DEF IInv, TypeOK, Workers
  <2>3. phase' \in [Workers -> Phases]
    BY <1>0 DEF IInv, TypeOK, Phases
  <2> QED BY <1>0, <1>3, <2>1, <2>2, <2>3 DEF IInv, TypeOK
<1>5. LifeInv'
  <2>1. Dead(w)'
    <3>1. /\ phase'[w] = "terminated" /\ inbox'[w] = <<>> /\ outbox'[w] = <<>>
          /\ timer'[w] = NoJob
      BY <1>0, <1>1 DEF IInv, TypeOK
    <3> QED BY <1>0, <1>1, <1>w, <3>1 DEF Dead, Silent, Parked, Live, IInv, TypeOK, Workers
  <2>2. Live(new)'
    <3>1. /\ phase'[new] = "fresh" /\ inbox'[new] = <<InitMsg>> /\ outbox'[new] = <<>>
          /\ timer'[new] = NoJob /\ job'[new] = NoJob /\ script'[new] = NoJob
      BY <1>0, <1>1, <1>2 DEF IInv, TypeOK, Unborn, Silent, Idle
    <3>2. Fresh(new)' /\ ~Waiting(new)'
      BY <3>1 DEF Fresh, Waiting, Idle
    <3> QED BY <1>0, <1>2, <3>1, <3>2 DEF Live, Healthy, Parked, Unborn, Workers
  <2>3. ASSUME NEW v \in Workers, v # w, v # new PROVE (Unborn(v) \/ Live(v) \/ Dead(v))'
    <3>1. Unborn(v) \/ Live(v) \/ Dead(v)
      BY DEF IInv, LifeInv
    <3>2. /\ job'[v] = job[v] /\ timer'[v] = timer[v] /\ phase'[v] = phase[v]
          /\ script'[v] = script[v] /\ inbox'[v] = inbox[v] /\ outbox'[v] = outbox[v]
          /\ v \in all' <=> v \in all
      BY <1>0, <2>3 DEF IInv, TypeOK
    <3>3. (v > spawned => v > spawned') /\ (v <= spawned => v <= spawned')
      BY <1>0, <1>w, <2>3 DEF IInv, TypeOK, Workers
    <3> QED BY <1>0, <3>1, <3>2, <3>3 DEF Unborn, Live, Dead, Fresh, Warming, Announcing, Waiting,
        Called, Running, Stuck, Silent, Idle, Parked, Healthy
  <2> QED BY <2>1, <2>2, <2>3 DEF LifeInv
<1>6. ReadyInv'
  BY <1>0 DEF IInv, ReadyInv, NoIdleWhileQueued
<1>7. SizeInv'
  <2>1. w \in all /\ new \notin all
    BY <1>1, <1>2 DEF Live, Unborn
  <2>2. IsFiniteSet(all \ {w}) /\ Cardinality(all \ {w}) = Cardinality(all) - 1
    BY <2>1, FS_RemoveElement DEF IInv, SizeInv
  <2>3. IsFiniteSet(all') /\ Cardinality(all') = Cardinality(all \ {w}) + 1
    BY <1>0, <2>1, <2>2, FS_AddElement
  <2> QED BY <2>1, <2>2, <2>3, FS_CardinalityType DEF IInv, SizeInv, CapacityKept
<1> QED BY <1>3, <1>4, <1>5, <1>6, <1>7 DEF IInv

\* shutdown() terminates every worker and empties the queue.
LEMMA ShutdownInv ==
  ASSUME IInv, Shutdown
  PROVE  IInv'
<1>0. \A w \in all : w \in Workers
  BY DEF IInv, TypeOK
<1>1. TypeOK'
  BY <1>0 DEF IInv, TypeOK, Shutdown, Phases, PromiseStates
<1>2. LifeInv'
  <2>1. ASSUME NEW w \in Workers, w \in all PROVE Dead(w)'
    <3>1. Live(w)
      BY <2>1 DEF IInv, LifeInv, Unborn, Dead
    <3> QED BY <2>1, <3>1, EmptyElements DEF Shutdown, Dead, Live, Silent, Parked
  <2>2. ASSUME NEW w \in Workers, w \notin all PROVE (Unborn(w) \/ Dead(w))'
    <3>1. Unborn(w) \/ Dead(w)
      BY <2>2 DEF IInv, LifeInv, Live
    <3> QED BY <2>2, <3>1, EmptyElements DEF Shutdown, Dead, Unborn, Silent, Parked, Idle, Healthy
  <2> QED BY <2>1, <2>2 DEF LifeInv
<1>3. JobInv'
  BY EmptyElements DEF IInv, TypeOK, JobInv, Shutdown, Dispatched
<1>4. ReadyInv'
  BY EmptyElements DEF Shutdown, ReadyInv, NoIdleWhileQueued
<1>5. SizeInv'
  BY FS_EmptySet DEF Shutdown, SizeInv, CapacityKept
<1> QED BY <1>1, <1>2, <1>3, <1>4, <1>5 DEF IInv

-------------------------------------------------------------------------------
(* The theorems *)

\* The invariant holds in every reachable state.
THEOREM Inductive == Spec => []IInv
<1>1. Init => IInv
  BY InitInv
<1>2. IInv /\ [Next]_vars => IInv'
  <2> SUFFICES ASSUME IInv, [Next]_vars PROVE IInv'
    OBVIOUS
  <2>1. ASSUME NEW j \in Jobs, RunNow(j) PROVE IInv'
    BY <2>1, RunNowInv
  <2>2. ASSUME NEW j \in Jobs, RunLater(j) PROVE IInv'
    BY <2>2, RunLaterInv
  <2>3. ASSUME NEW w \in Workers, PageStep(w) PROVE IInv'
    BY <2>3, OnReadyDispatchInv, OnReadyParkInv, OnResultInv, OnErrorInv, TimeoutInv DEF PageStep
  <2>4. ASSUME NEW w \in Workers, WorkerStep(w) PROVE IInv'
    BY <2>4, WorkerStepPage, WorkerStepLife DEF IInv
  <2>5. CASE Shutdown
    BY <2>5, ShutdownInv
  <2>6. CASE UNCHANGED vars
    BY <2>6 DEF vars, IInv, TypeOK, LifeInv, JobInv, ReadyInv, SizeInv, Unborn, Live, Dead, Fresh,
       Warming, Announcing, Waiting, Called, Running, Stuck, Silent, Idle, Parked, Healthy,
       Elements, Distinct, Dispatched, NoIdleWhileQueued, CapacityKept
  <2> QED BY <2>1, <2>2, <2>3, <2>4, <2>5, <2>6 DEF Next
<1> QED BY <1>1, <1>2, PTL DEF Spec

\* Every variable keeps its type.
THEOREM TypeCorrect == Spec => []TypeOK
<1>1. IInv => TypeOK
  BY DEF IInv
<1> QED BY <1>1, Inductive, PTL

\* The result the page handles is always the one of w._job.
THEOREM ResultMatched == Spec => []ResultFindsItsJob
<1>1. IInv => ResultFindsItsJob
  <2> SUFFICES ASSUME IInv, NEW w \in Workers, Arrives(w, "result")
               PROVE  job[w] # NoJob /\ Head(outbox[w]).job = job[w]
    BY DEF ResultFindsItsJob
  <2>1. job[w] \in Jobs /\ Head(outbox[w]) = ResultMsg(job[w])
    BY Arrival
  <2> QED BY <2>1, PoolAssumption DEF ResultMsg
<1> QED BY <1>1, Inductive, PTL

\* No timeout outlives the run it was armed for, no run is without one.
THEOREM TimerMatched == Spec => []TimerIsForCurrentJob
<1>1. IInv => TimerIsForCurrentJob
  BY DEF IInv, LifeInv, Unborn, Live, Dead, TimerIsForCurrentJob
<1> QED BY <1>1, Inductive, PTL

\* What is in #ready can be dispatched to.
THEOREM ParkedReady == Spec => []ParkedIsIdle
<1>1. IInv => ParkedIsIdle
  <2> SUFFICES ASSUME IInv PROVE ParkedIsIdle
    OBVIOUS
  <2>1. ASSUME NEW w \in Elements(ready) PROVE w \in all /\ Waiting(w)
    <3>1. w \in Workers
      BY <2>1 DEF IInv, TypeOK, Elements
    <3> QED BY <2>1, <3>1 DEF IInv, LifeInv, Unborn, Live, Dead, Parked
  <2> QED BY <2>1 DEF ParkedIsIdle, Waiting, Silent, Idle, IInv, ReadyInv, Distinct
<1> QED BY <1>1, Inductive, PTL

\* No worker idles while a job is queued.
THEOREM NeverIdleWhileQueued == Spec => []NoIdleWhileQueued
<1>1. IInv => NoIdleWhileQueued
  BY DEF IInv, ReadyInv
<1> QED BY <1>1, Inductive, PTL

\* No job is lost and none runs twice.
THEOREM JobsConserved == Spec => []JobInOnePlace
<1>1. IInv => JobInOnePlace
  <2> SUFFICES ASSUME IInv, NEW j \in Jobs,
                      NEW queued, queued = {i \in DOMAIN pending : pending[i] = j},
                      NEW held, held = {w \in Workers : job[w] = j}
               PROVE  /\ promise[j] = "open" <=> queued \union held # {}
                      /\ \A i, k \in queued : i = k
                      /\ \A v, w \in held : v = w
                      /\ queued = {} \/ held = {}
    BY DEF JobInOnePlace
  <2>1. (j \in Elements(pending) <=> queued # {}) /\ (Dispatched(j) <=> held # {})
    BY DEF Elements, Dispatched
  <2>2. \A i, k \in queued : i = k
    BY DEF IInv, JobInv, Distinct
  <2>3. \A v, w \in held : v = w
    BY DEF IInv, JobInv
  <2>4. queued = {} \/ held = {}
    BY <2>1 DEF IInv, JobInv
  <2> QED BY <2>1, <2>2, <2>3, <2>4 DEF IInv, JobInv
<1> QED BY <1>1, Inductive, PTL

\* A script that executes belongs to an open run.
THEOREM NoGhost == Spec => []NoGhostScript
<1>1. IInv => NoGhostScript
  BY PoolAssumption DEF IInv, LifeInv, JobInv, Dispatched, NoGhostScript, Unborn, Live, Dead, Fresh, Warming,
     Announcing, Waiting, Called, Running, Stuck
<1> QED BY <1>1, Inductive, PTL

\* The pool keeps the size it was built with until it is shut down.
THEOREM Capacity == Spec => []CapacityKept
<1>1. IInv => CapacityKept
  BY DEF IInv, SizeInv
<1> QED BY <1>1, Inductive, PTL

\* The tables of the pool are consistent.
THEOREM Consistent == Spec => []PoolConsistent
<1>1. ParkedIsIdle /\ NoIdleWhileQueued /\ JobInOnePlace /\ CapacityKept => PoolConsistent
  BY DEF PoolConsistent
<1> QED BY <1>1, ParkedReady, NeverIdleWhileQueued, JobsConserved, Capacity, PTL

\* What belongs to one run never reaches another.
THEOREM Separate == Spec => []RunsSeparate
<1>1. ResultFindsItsJob /\ TimerIsForCurrentJob /\ NoGhostScript => RunsSeparate
  BY DEF RunsSeparate
<1> QED BY <1>1, ResultMatched, TimerMatched, NoGhost, PTL

\* Jobs reach the workers in the order of the queue.
THEOREM FirstComeFirstServed == Spec => NoOvertaking
<1> DEFINE InOrder ==
      \A j \in Jobs : ~Dispatched(j) /\ Dispatched(j)' => pending = <<>> \/ Head(pending) = j
<1>1. IInv /\ [Next]_vars => [InOrder]_vars
  <2> SUFFICES ASSUME IInv, Next PROVE InOrder
    BY DEF vars
  <2>1. ASSUME NEW i \in Jobs, RunNow(i) PROVE InOrder
    BY <2>1 DEF IInv, ReadyInv, NoIdleWhileQueued, RunNow
  <2>2. ASSUME NEW i \in Jobs, RunLater(i) PROVE InOrder
    BY <2>2 DEF RunLater, Dispatched
  <2>3. ASSUME NEW w \in Workers, PageStep(w) PROVE InOrder
    <3>1. CASE OnReadyDispatch(w)
      <4>1. job' = [job EXCEPT ![w] = Head(pending)]
        BY <3>1 DEF OnReadyDispatch, Dispatch
      <4> QED BY <4>1 DEF IInv, TypeOK, Dispatched
    <3>2. CASE OnReadyPark(w)
      BY <3>2 DEF OnReadyPark, Dispatched
    <3>3. CASE OnResult(w) \/ OnError(w) \/ Timeout(w)
      <4>1. job' = [job EXCEPT ![w] = NoJob]
        BY <3>3 DEF OnResult, OnError, Timeout
      <4> QED BY <4>1, PoolAssumption DEF IInv, TypeOK, Dispatched
    <3> QED BY <2>3, <3>1, <3>2, <3>3 DEF PageStep
  <2>4. ASSUME NEW w \in Workers, WorkerStep(w) PROVE InOrder
    BY <2>4 DEF WorkerStep, HandleInit, WarmUp, WarmFail, HandleRun, Finish, Wedge, Crash, Dispatched
  <2>5. CASE Shutdown
    BY <2>5 DEF Shutdown, Dispatched
  <2> QED BY <2>1, <2>2, <2>3, <2>4, <2>5 DEF Next
<1> QED BY <1>1, Inductive, PTL DEF Spec, NoOvertaking

\* A settled promise and a terminated worker stay as they are.
THEOREM SettledForever == Spec => SettledOnce
<1> DEFINE Final ==
      /\ \A j \in Jobs : Settled(j) => promise'[j] = promise[j]
      /\ \A w \in Workers : phase[w] = "terminated" => phase'[w] = "terminated"
<1>1. IInv /\ [Next]_vars => [Final]_vars
  <2> SUFFICES ASSUME IInv, Next PROVE Final
    BY DEF vars
  <2>1. ASSUME NEW i \in Jobs, RunNow(i) \/ RunLater(i) PROVE Final
    BY <2>1 DEF RunNow, RunLater, workerVars, Settled, IInv, TypeOK
  <2>2. ASSUME NEW w \in Workers, PageStep(w) PROVE Final
    <3>1. \A j \in Jobs : Settled(j) => promise'[j] = promise[j]
      <4>1. job[w] \in Jobs => promise[job[w]] = "open"
        BY DEF IInv, JobInv, Dispatched
      <4> QED BY <2>2, <4>1 DEF PageStep, OnReadyDispatch, OnReadyPark, OnResult, OnError, Timeout,
                 Rejected, Settled, IInv, TypeOK
    <3>2. CASE Timeout(w)
      <4>1. ASSUME NEW v \in Workers, phase[v] = "terminated" PROVE phase'[v] = "terminated"
        <5>1. v <= spawned
          BY <4>1 DEF IInv, LifeInv, Unborn, Live, Dead
        <5>2. v # spawned + 1
          BY <5>1 DEF IInv, TypeOK, Workers
        <5> QED BY <3>2, <4>1, <5>2 DEF Timeout, Retire, IInv, TypeOK
      <4> QED BY <3>1, <4>1
    <3>3. CASE ~Timeout(w)
      BY <2>2, <3>1, <3>3 DEF PageStep, OnReadyDispatch, OnReadyPark, OnResult, OnError
    <3> QED BY <3>2, <3>3
  <2>3. ASSUME NEW w \in Workers, WorkerStep(w) PROVE Final
    BY <2>3 DEF WorkerStep, HandleInit, WarmUp, WarmFail, HandleRun, Finish, Wedge, Crash, IInv, TypeOK
  <2>4. CASE Shutdown
    BY <2>4 DEF Shutdown, IInv, TypeOK, JobInv, Settled
  <2> QED BY <2>1, <2>2, <2>3, <2>4 DEF Next
<1> QED BY <1>1, Inductive, PTL DEF Spec, SettledOnce
===============================================================================
