---------------------------- MODULE WorkerContract ----------------------------
(***************************************************************************)
(* One worker as its caller sees it: the messages it answers and the order *)
(* it answers them in.  ZshWorker implements it, and WorkerPool uses its   *)
(* workers by no other rules.                                              *)
(***************************************************************************)
EXTENDS Naturals, Sequences

CONSTANTS Jobs, NoJob

VARIABLES
    phase,   \* "unborn", "fresh", "warming", "warm", "running", "stuck", "terminated"
    script,  \* the job whose "run" message is being worked on
    inbox,   \* [type, job] messages to the worker
    outbox   \* [type, job] messages from the worker

vars == <<phase, script, inbox, outbox>>

Msg(type, j) == [type |-> type, job |-> j]

Unborn == phase = "unborn" /\ inbox = <<>> /\ outbox = <<>>
Fresh  == phase = "fresh" /\ inbox = <<Msg("init", NoJob)>> /\ outbox = <<>>

Init == (Unborn \/ Fresh) /\ script = NoJob

-------------------------------------------------------------------------------
(* The caller *)

Spawn == Unborn /\ Fresh' /\ UNCHANGED script

\* A "run" is posted to a worker that has said "ready" and nothing since.
Call(j) ==
    /\ phase = "warm"
    /\ inbox = <<>> /\ outbox = <<>>
    /\ inbox' = <<Msg("run", j)>>
    /\ UNCHANGED <<phase, script, outbox>>

Take ==
    /\ outbox # <<>>
    /\ outbox' = Tail(outbox)
    /\ UNCHANGED <<phase, script, inbox>>

\* The last "ready" is taken and answered with a "run" in one handler.
TakeAndCall(j) ==
    /\ phase = "warm"
    /\ inbox = <<>> /\ outbox = <<Msg("ready", NoJob)>>
    /\ outbox' = <<>>
    /\ inbox' = <<Msg("run", j)>>
    /\ UNCHANGED <<phase, script>>

Terminate ==
    /\ phase \notin {"unborn", "terminated"}
    /\ phase' = "terminated"
    /\ script' = NoJob
    /\ inbox' = <<>> /\ outbox' = <<>>

-------------------------------------------------------------------------------
(* The worker *)

HandleInit ==
    /\ Fresh
    /\ phase' = "warming"
    /\ inbox' = <<>>
    /\ UNCHANGED <<script, outbox>>

WarmUp ==
    /\ phase = "warming"
    /\ phase' = "warm"
    /\ outbox' = Append(outbox, Msg("ready", NoJob))
    /\ UNCHANGED <<script, inbox>>

HandleRun ==
    \E j \in Jobs :
        /\ phase = "warm"
        /\ inbox = <<Msg("run", j)>>
        /\ phase' = "running"
        /\ script' = j
        /\ inbox' = <<>>
        /\ UNCHANGED outbox

Finish ==
    /\ phase = "running"
    /\ phase' = "warming"
    /\ outbox' = Append(outbox, Msg("result", script))
    /\ script' = NoJob
    /\ UNCHANGED inbox

\* Nothing is ever posted again.
Break ==
    /\ phase \in {"fresh", "warming", "running"}
    /\ phase' = "stuck"
    /\ UNCHANGED <<script, inbox, outbox>>

Next ==
    \/ Spawn \/ Take \/ Terminate
    \/ \E j \in Jobs : Call(j) \/ TakeAndCall(j)
    \/ HandleInit \/ WarmUp \/ HandleRun \/ Finish \/ Break

Spec == Init /\ [][Next]_vars
===============================================================================
