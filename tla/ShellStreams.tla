---------------------------- MODULE ShellStreams ----------------------------
(***************************************************************************)
(* How the commands of one script share descriptors 0 and 1 and the stdin  *)
(* and stdout FILEs.  There is no fork(): pipeline stages and command      *)
(* substitutions run in the shell itself, one after another, and sed, awk, *)
(* bc and the sbase tools are functions it calls.                          *)
(*                                                                         *)
(* Everything that is read or written is a sequence of items (lines),      *)
(* numbered in the order of writing; meant says which channel an item was  *)
(* written for.  A frame is a piece of the script with descriptors of its  *)
(* own.  It says what the script gives to the commands in it (in, out) and *)
(* what the shell puts back after it (fd0, fd1).                           *)
(*                                                                         *)
(* A tool is abstracted to the way it uses the streams:                    *)
(*   "sed", "awk"  read stdin as a FILE                                    *)
(*   "file"        so do the sbase tools cut, grep, head, sort, ...        *)
(*   "fd"          cat, tail, tee and bc read descriptor 0                 *)
(*   "zsh"         the shell's own read, echo, print, ...                  *)
(***************************************************************************)
EXTENDS Naturals, Sequences, SequencesExt

CONSTANTS
    Channels,  \* the temporary files and pipes of a run
    Input,     \* /dev/stdin
    Output,    \* /dev/stdout
    Closed,    \* what descriptor 0 is after close(0)
    Kept,      \* the shell has nothing to put back
    InputSize, \* the number of items of Input
    MaxItems,  \* bounds the items of a run
    MaxFrames, \* bounds the nesting
    Tools      \* the kinds of tools the script calls

Embedded == {"sed", "awk", "file", "fd"}
Streaming == {"sed", "awk", "file"}

ASSUME StreamsAssumption ==
    /\ {Input, Output, Closed, Kept} \cap Channels = {}
    /\ Input # Output /\ Closed \notin {Input, Output} /\ Kept \notin {Input, Output, Closed}
    /\ InputSize \in Nat /\ MaxItems \in Nat /\ MaxFrames \in Nat
    /\ InputSize <= MaxItems
    /\ Tools \subseteq Embedded \cup {"zsh"}

Sources == Channels \cup {Input}
Sinks == Channels \cup {Output}

VARIABLES
    fd0,    \* what descriptor 0 refers to
    fd1,    \* what descriptor 1 refers to
    data,   \* what has been written to each channel
    pos,    \* the read offset of each channel
    frames, \* the frames that are open, the script itself first
    tool,   \* the kind of the tool that executes, or "none"
    told,   \* whether it has been told that its input has ended
    buf,    \* the stdin FILE: what it has read and not handed out
    eof,    \*   its end-of-file and error flags
    pend,   \* the stdout FILE: what has not been written yet
    meant,  \* the channel each item was written for
    got,    \* what has been handed to commands whose input is the channel
    left    \* whether a tool has left something in the stdin FILE

descriptors == <<fd0, fd1, frames>>
stdio == <<buf, eof, pend>>
ghosts == <<meant, got, left>>
vars == <<fd0, fd1, data, pos, frames, tool, told, buf, eof, pend, meant, got, left>>

Script == [kind |-> "script", fd0 |-> Kept, fd1 |-> Kept, in |-> Input, out |-> Output]

Init ==
    /\ fd0 = Input /\ fd1 = Output
    /\ data = [c \in Sources \cup Sinks |->
                 IF c = Input THEN [i \in 1..InputSize |-> i] ELSE <<>>]
    /\ pos = [c \in Sources |-> 0]
    /\ frames = <<Script>>
    /\ tool = "none" /\ told = FALSE
    /\ buf = <<>> /\ eof = FALSE /\ pend = <<>>
    /\ meant = [i \in 1..InputSize |-> Input]
    /\ got = [c \in Sources |-> <<>>]
    /\ left = FALSE

Scope == Last(frames)

\* A channel no frame has used.
Unused(c) == /\ c \in Channels
             /\ data[c] = <<>> /\ pos[c] = 0
             /\ \A i \in 1..Len(frames) : c \notin {frames[i].in, frames[i].out}

-----------------------------------------------------------------------------
(* The shell.                                                              *)

\* fixfds(): what the shell saved goes back to descriptors 0 and 1.
Restored0 == IF Scope.fd0 = Kept THEN fd0 ELSE Scope.fd0
Restored1 == IF Scope.fd1 = Kept THEN fd1 ELSE Scope.fd1

\* A frame takes the place of the first ones of fs.
Enter(fs, f) ==
    /\ Len(fs) < MaxFrames
    /\ frames' = Append(fs, f)

\* A command with a here-string or another file as its input.
Redirect(c) ==
    /\ tool = "none"
    /\ Unused(c)
    /\ \E n \in 0..(MaxItems - Len(meant)) :
         /\ data' = [data EXCEPT ![c] = [i \in 1..n |-> Len(meant) + i]]
         /\ meant' = meant \o [i \in 1..n |-> c]
    /\ Enter(frames, [kind |-> "input", fd0 |-> fd0, fd1 |-> Kept, in |-> c, out |-> Scope.out])
    /\ fd0' = c
    /\ UNCHANGED <<fd1, pos, tool, told, stdio, got, left>>

\* The first stage of a pipeline: a temporary file is its output.
Pipeline(c) ==
    /\ tool = "none"
    /\ Unused(c)
    /\ Enter(frames, [kind |-> "stage", fd0 |-> Kept, fd1 |-> fd1, in |-> Scope.in, out |-> c])
    /\ fd1' = c
    /\ UNCHANGED <<fd0, data, pos, tool, told, stdio, ghosts>>

\* The end of a stage, and the next one, which is not the last.
NextStage(c) ==
    /\ tool = "none"
    /\ Scope.kind = "stage"
    /\ Unused(c)
    /\ Enter(Front(frames), [kind |-> "stage", fd0 |-> Restored0, fd1 |-> Restored1,
                             in |-> Scope.out, out |-> c])
    /\ fd0' = Scope.out
    /\ fd1' = c
    /\ UNCHANGED <<data, pos, tool, told, stdio, ghosts>>

\* Mutation of LastStage: the last stage keeps the temporary file as its output.
LastStageUnrestored ==
    /\ tool = "none"
    /\ Scope.kind = "stage"
    /\ Enter(Front(frames), [kind |-> "input", fd0 |-> Restored0, fd1 |-> Kept,
                             in |-> Scope.out, out |-> Last(Front(frames)).out])
    /\ fd0' = Scope.out
    /\ UNCHANGED <<fd1, data, pos, tool, told, stdio, ghosts>>

\* The end of a stage, and the last one.
LastStage ==
    /\ tool = "none"
    /\ Scope.kind = "stage"
    /\ Enter(Front(frames), [kind |-> "input", fd0 |-> Restored0, fd1 |-> Kept,
                             in |-> Scope.out, out |-> Last(Front(frames)).out])
    /\ fd0' = Scope.out
    /\ fd1' = Restored1
    /\ UNCHANGED <<data, pos, tool, told, stdio, ghosts>>

\* The end of a command with an input of its own.
EndInput ==
    /\ tool = "none"
    /\ Scope.kind = "input"
    /\ frames' = Front(frames)
    /\ fd0' = Restored0
    /\ UNCHANGED <<fd1, data, pos, tool, told, stdio, ghosts>>

\* getoutput(): a pipe is the output of the substituted command.  With
\* descriptor 0 closed, dup(1) would be 0; that is beyond this model.
Substitute(c) ==
    /\ tool = "none"
    /\ fd0 # Closed
    /\ Unused(c)
    /\ Enter(frames, [kind |-> "subst", fd0 |-> Kept, fd1 |-> fd1, in |-> Scope.in, out |-> c])
    /\ fd1' = c
    /\ UNCHANGED <<fd0, data, pos, tool, told, stdio, ghosts>>

\* fflush(stdout), dup2(oldout, 1), readoutput().
EndSubstitute ==
    /\ tool = "none"
    /\ Scope.kind = "subst"
    /\ data' = [data EXCEPT ![fd1] = @ \o pend]
    /\ pend' = <<>>
    /\ fd1' = Restored1
    /\ got' = [got EXCEPT ![Scope.out] = data'[Scope.out]]
    /\ pos' = [pos EXCEPT ![Scope.out] = Len(data'[Scope.out])]
    /\ frames' = Front(frames)
    /\ UNCHANGED <<fd0, tool, told, buf, eof, meant, left>>

-----------------------------------------------------------------------------
(* The tools.                                                              *)

\* fflush() of the stdin FILE: what it has not handed out is given back by
\* moving the offset of whatever descriptor 0 is now.  The seek fails, and
\* its failure is ignored, on /dev/stdin and before the start of a file.
GiveBack ==
    /\ buf' = <<>>
    /\ pos' = IF fd0 \in Channels /\ Len(buf) <= pos[fd0]
              THEN [pos EXCEPT ![fd0] = @ - Len(buf)] ELSE pos

\* Mutation of Begin: the builtin drops the buffer and not the flags.
BeginUncleared(t) ==
    /\ tool = "none"
    /\ tool' = t
    /\ told' = FALSE
    /\ IF t \in Embedded THEN GiveBack ELSE UNCHANGED <<buf, pos>>
    /\ UNCHANGED <<descriptors, data, eof, pend, ghosts>>

\* A builtin is entered; the embedded ones reset stdin first.
Begin(t) ==
    /\ tool = "none"
    /\ tool' = t
    /\ told' = FALSE
    /\ IF t \in Embedded
       THEN GiveBack /\ eof' = FALSE
       ELSE UNCHANGED <<buf, pos, eof>>
    /\ UNCHANGED <<descriptors, data, pend, ghosts>>

Unread == IF fd0 = Closed THEN <<>>
          ELSE SubSeq(data[fd0], pos[fd0] + 1, Len(data[fd0]))

\* The command reads the items s.
Hand(s) == got' = [got EXCEPT ![Scope.in] = @ \o s]

\* getc() and getline() on stdin: from the buffer,
GetBuffered ==
    /\ tool \in Streaming /\ ~told
    /\ buf # <<>>
    /\ Hand(<<Head(buf)>>)
    /\ buf' = Tail(buf)
    /\ UNCHANGED <<descriptors, data, pos, tool, told, eof, pend, meant, left>>

\* after filling it from descriptor 0,
GetFill ==
    /\ tool \in Streaming /\ ~told
    /\ buf = <<>> /\ ~eof
    /\ \E n \in 1..Len(Unread) :
         /\ buf' = SubSeq(Unread, 2, n)
         /\ pos' = [pos EXCEPT ![fd0] = @ + n]
    /\ Hand(<<Head(Unread)>>)
    /\ UNCHANGED <<descriptors, data, tool, told, eof, pend, meant, left>>

\* or the end, which the FILE remembers.
GetEnd ==
    /\ tool \in Streaming /\ ~told
    /\ buf = <<>>
    /\ eof \/ Unread = <<>>
    /\ eof' = TRUE
    /\ told' = TRUE
    /\ UNCHANGED <<descriptors, data, pos, tool, buf, pend, ghosts>>

\* read(0, ...): zsh's read takes one item, a tool as many as it asks for.
ReadDescriptor ==
    /\ tool \in {"fd", "zsh"} /\ ~told
    /\ \E n \in 1..Len(Unread) :
         /\ tool = "zsh" => n = 1
         /\ Hand(SubSeq(Unread, 1, n))
         /\ pos' = [pos EXCEPT ![fd0] = @ + n]
    /\ UNCHANGED <<descriptors, data, tool, told, stdio, meant, left>>

ReadEnd ==
    /\ tool \in {"fd", "zsh"} /\ ~told
    /\ Unread = <<>>
    /\ told' = TRUE
    /\ UNCHANGED <<descriptors, data, pos, tool, stdio, ghosts>>

NewItem == Len(meant) + 1

\* printf() or fwrite() on stdout, which may have to empty its buffer.
Put ==
    /\ tool # "none"
    /\ NewItem <= MaxItems
    /\ meant' = Append(meant, Scope.out)
    /\ \/ /\ pend' = Append(pend, NewItem)
          /\ UNCHANGED data
       \/ /\ pend' = <<>>
          /\ data' = [data EXCEPT ![fd1] = @ \o Append(pend, NewItem)]
    /\ UNCHANGED <<descriptors, pos, tool, told, buf, eof, got, left>>

\* Mutation of WriteAll: what stdout holds is overtaken by what is written directly.
WriteAllUnflushed ==
    /\ tool = "fd"
    /\ NewItem <= MaxItems
    /\ meant' = Append(meant, Scope.out)
    /\ data' = [data EXCEPT ![fd1] = Append(@, NewItem)]
    /\ UNCHANGED <<descriptors, pos, tool, told, stdio, got, left>>

\* writeall(1, ...), which flushes stdout first.
WriteAll ==
    /\ tool = "fd"
    /\ NewItem <= MaxItems
    /\ meant' = Append(meant, Scope.out)
    /\ data' = [data EXCEPT ![fd1] = @ \o Append(pend, NewItem)]
    /\ pend' = <<>>
    /\ UNCHANGED <<descriptors, pos, tool, told, buf, eof, got, left>>

\* The builtin is left; stdout is flushed by its wrapper or by the shell.
Leave ==
    /\ tool # "none"
    /\ tool' = "none"
    /\ told' = FALSE
    /\ data' = [data EXCEPT ![fd1] = @ \o pend]
    /\ pend' = <<>>
    /\ left' = (left \/ buf' # <<>>)
    /\ UNCHANGED <<fd1, frames, eof, meant, got>>

\* The tool returns, or exits through longjmp(), and leaves stdin alone.
Return ==
    /\ UNCHANGED <<fd0, pos, buf>>
    /\ Leave

\* An sbase tool ends with fshut(stdin).
Shut ==
    /\ tool = "file"
    /\ GiveBack
    /\ Leave
    /\ UNCHANGED fd0

\* Mutation of Close: sed closes its output file as well, which is stdout.
CloseBoth ==
    /\ tool = "sed"
    /\ GiveBack
    /\ fd0' = Closed
    /\ fd1' = Closed
    /\ tool' = "none"
    /\ told' = FALSE
    /\ data' = [data EXCEPT ![fd1] = @ \o pend]
    /\ pend' = <<>>
    /\ left' = left
    /\ UNCHANGED <<frames, eof, meant, got>>

\* sed ends with the command q: finish_file() is fclose(stdin).
Close ==
    /\ tool = "sed"
    /\ GiveBack
    /\ fd0' = Closed
    /\ Leave

Next ==
    \/ \E c \in Channels : Redirect(c) \/ Pipeline(c) \/ NextStage(c) \/ Substitute(c)
    \/ LastStage \/ EndInput \/ EndSubstitute
    \/ \E t \in Tools : Begin(t)
    \/ GetBuffered \/ GetFill \/ GetEnd \/ ReadDescriptor \/ ReadEnd
    \/ Put \/ WriteAll
    \/ Return \/ Shut \/ Close

Spec == Init /\ [][Next]_vars

-----------------------------------------------------------------------------
(* Properties.                                                             *)

Increasing(s) == \A i, j \in 1..Len(s) : i < j => s[i] < s[j]

Frame == [kind : {"script", "input", "stage", "subst"},
          fd0 : Sources \cup {Closed, Kept}, fd1 : Sinks \cup {Kept},
          in : Sources, out : Sinks]

\* Every variable holds values of its kind, and no offset passes the end of
\* its channel.
TypeOK ==
    /\ fd0 \in Sources \cup {Closed}
    /\ fd1 \in Sinks
    /\ data \in [Sources \cup Sinks -> Seq(1..MaxItems)]
    /\ pos \in [Sources -> 0..MaxItems]
    /\ \A c \in Sources : pos[c] <= Len(data[c])
    /\ frames \in Seq(Frame) \ {<<>>}
    /\ tool \in Tools \cup {"none"}
    /\ told \in BOOLEAN /\ eof \in BOOLEAN /\ left \in BOOLEAN
    /\ buf \in Seq(1..MaxItems)
    /\ pend \in Seq(1..MaxItems)
    /\ meant \in Seq(Sources \cup Sinks) /\ Len(meant) <= MaxItems
    /\ got \in [Sources -> Seq(1..MaxItems)]

\* A command reads only what was written for the channel the script gives it
\* as input, whatever an earlier command has left in the one stdin FILE
\* (embed/embed_stdin.h:26-31).
OwnInput ==
    \A c \in Sources : \A i \in 1..Len(got[c]) : meant[got[c][i]] = c

\* As long as no tool has left input in the FILE, no item reaches two
\* commands and none is overtaken: what a tool has read too much of goes back
\* (sbase-src/libutil/fshut.c:16).
EachItemOnce == ~left => \A c \in Sources : Increasing(got[c])

\* A tool that is told that its input has ended has the whole of it behind
\* it: no end-of-file flag of an earlier command is left, and a stage runs
\* after its predecessor has written everything.
EndIsEnd ==
    told /\ fd0 # Closed => fd0 = Scope.in /\ pos[fd0] = Len(data[fd0])

\* What a command gets from its input is that input, once, in order and to its end.
InputRight == OwnInput /\ EachItemOnce /\ EndIsEnd

\* Between two commands everything that was written has arrived where the
\* script sends it, in order, and stdout's buffer is empty.
OutputArrives ==
    /\ \A c \in Sinks : \A i \in 1..Len(data[c]) : meant[data[c][i]] = c
    /\ \A c \in Sinks : Increasing(data[c])
    /\ tool = "none" => /\ pend = <<>>
                        /\ \A n \in 1..Len(meant) : Contains(data[meant[n]], n)

\* No redirection escapes its command: the descriptors are those of the frame
\* the shell is in, through any nesting of stages, substitutions and
\* redirections.  A tool may have closed descriptor 0.
ScopedDescriptors ==
    /\ fd0 \in {Scope.in, Closed}
    /\ fd1 = Scope.out
=============================================================================
