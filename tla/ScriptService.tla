---------------------------- MODULE ScriptService ----------------------------
(***************************************************************************)
(* What a pool promises its callers, without workers, messages or timers:  *)
(* runs begin in the order of their calls, at most Width at a time, and    *)
(* each ends once.  WorkerPool implements this.                            *)
(***************************************************************************)
EXTENDS Naturals, Sequences, FiniteSets

CONSTANTS
    Jobs,   \* the calls of run()
    Width   \* how many scripts may be in flight at once

VARIABLES
    queue,    \* the runs that have not begun, oldest first
    inFlight, \* the runs that have begun and not ended
    outcome,  \* what the caller's promise says
    closed    \* no run begins any more

vars == <<queue, inFlight, outcome, closed>>

Ends == {"resolved", "timedOut", "failed"}

Init ==
    /\ queue = <<>>
    /\ inFlight = {}
    /\ outcome = [j \in Jobs |-> "none"]
    /\ closed = (Width = 0)

Room == ~closed /\ Cardinality(inFlight) < Width

\* A call that begins at once: nobody may be waiting.
CallAndBegin(j) ==
    /\ outcome[j] = "none"
    /\ queue = <<>>
    /\ Room
    /\ outcome' = [outcome EXCEPT ![j] = "open"]
    /\ inFlight' = inFlight \union {j}
    /\ UNCHANGED <<queue, closed>>

\* A call that has to wait.
CallAndWait(j) ==
    /\ outcome[j] = "none"
    /\ outcome' = [outcome EXCEPT ![j] = "open"]
    /\ queue' = Append(queue, j)
    /\ UNCHANGED <<inFlight, closed>>

Begin ==
    /\ queue # <<>>
    /\ Room
    /\ inFlight' = inFlight \union {Head(queue)}
    /\ queue' = Tail(queue)
    /\ UNCHANGED <<outcome, closed>>

End(j, e) ==
    /\ j \in inFlight
    /\ inFlight' = inFlight \ {j}
    /\ outcome' = [outcome EXCEPT ![j] = e]
    /\ UNCHANGED <<queue, closed>>

\* What waits is rejected; what is in flight is abandoned.
Close ==
    /\ closed' = TRUE
    /\ queue' = <<>>
    /\ outcome' = [j \in Jobs |->
                     IF \E i \in DOMAIN queue : queue[i] = j THEN "shutDown" ELSE outcome[j]]
    /\ UNCHANGED inFlight

Next ==
    \/ \E j \in Jobs : CallAndBegin(j) \/ CallAndWait(j) \/ \E e \in Ends : End(j, e)
    \/ Begin
    \/ Close

Spec == Init /\ [][Next]_vars

Fairness ==
    /\ WF_vars(Begin)
    /\ \A j \in Jobs : WF_vars(\E e \in Ends : End(j, e))

FairSpec == Spec /\ Fairness
===============================================================================
