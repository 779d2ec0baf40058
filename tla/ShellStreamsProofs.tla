------------------------- MODULE ShellStreamsProofs -------------------------
(***************************************************************************)
(* Proofs about ShellStreams, for any number of channels, items and frames *)
(* and any tools.                                                          *)
(*                                                                         *)
(* Nested says how a frame relates to the one around it: what the shell    *)
(* will put back is what the outer frame gives to its commands.  It makes  *)
(* ScopedDescriptors inductive.                                            *)
(*                                                                         *)
(* StreamInv adds where the items are: an item is in its channel, or in    *)
(* the buffer of stdout and behind what its channel has (WrittenInv); what *)
(* has been handed out, or is still in the stdin FILE of a tool, was       *)
(* written for its reader (HandedInv); and while no tool has left anything *)
(* in that FILE, it holds the piece of the channel before the offset, so   *)
(* the offset less its length is where the readers are (OnceInv).  It      *)
(* makes InputRight and OutputArrives inductive.                           *)
(***************************************************************************)
EXTENDS ShellStreams, FiniteSetTheorems, SequenceTheorems, TLAPS

Nests(g, f) ==
    /\ IF f.fd0 = Kept THEN f.in = g.in ELSE f.fd0 \in {g.in, Closed}
    /\ IF f.fd1 = Kept THEN f.out = g.out ELSE f.fd1 = g.out
    /\ f.kind = "input" => f.fd1 = Kept
    /\ f.kind = "subst" => f.fd0 = Kept
    /\ f.kind = "stage" => f.out # g.out /\ f.out \in Channels
    /\ f.kind # "script"

Nested(fs) ==
    /\ fs \in Seq(Frame) /\ fs # <<>>
    /\ fs[1].kind = "script"
    /\ \A i \in 1..Len(fs) : fs[i].in # fs[i].out
    /\ \A i \in 2..Len(fs) : Nests(fs[i - 1], fs[i])

DescriptorInv == Nested(frames) /\ ScopedDescriptors

\* The first and the last element of a nonempty sequence of frames.
LEMMA Ends ==
    ASSUME NEW S, NEW s \in Seq(S), s # <<>>
    PROVE  /\ Len(s) \in Nat \ {0}
           /\ Last(s) = s[Len(s)] /\ Last(s) \in S
           /\ Front(s) \in Seq(S) /\ Len(Front(s)) = Len(s) - 1
           /\ \A i \in 1..(Len(s) - 1) : Front(s)[i] = s[i]
  <1>1. Len(s) \in Nat /\ Len(s) # 0 OBVIOUS
  <1>2. Last(s) = s[Len(s)] /\ Last(s) \in S BY <1>1 DEF Last
  <1>3. Front(s) = SubSeq(s, 1, Len(s) - 1) BY DEF Front
  <1>4. /\ Len(s) - 1 \in Nat
        /\ \A i \in 1..(Len(s) - 1) : s[i] \in S
    BY <1>1
  <1>5. \A m, n \in Int : (\A i \in m..n : s[i] \in S) =>
          /\ SubSeq(s, m, n) \in Seq(S)
          /\ Len(SubSeq(s, m, n)) = IF m <= n THEN n - m + 1 ELSE 0
          /\ \A i \in 1..(n - m + 1) : SubSeq(s, m, n)[i] = s[m + i - 1]
    BY SubSeqProperties
  <1>6. ASSUME NEW n \in Nat, \A i \in 1..n : s[i] \in S
        PROVE  /\ SubSeq(s, 1, n) \in Seq(S)
               /\ Len(SubSeq(s, 1, n)) = n
               /\ \A i \in 1..n : SubSeq(s, 1, n)[i] = s[i]
    <2>1. 1 \in Int /\ n \in Int OBVIOUS
    <2>2. /\ SubSeq(s, 1, n) \in Seq(S)
          /\ Len(SubSeq(s, 1, n)) = IF 1 <= n THEN n - 1 + 1 ELSE 0
          /\ \A i \in 1..(n - 1 + 1) : SubSeq(s, 1, n)[i] = s[1 + i - 1]
      BY <1>5, <1>6, <2>1, Zenon
    <2>3. n - 1 + 1 = n /\ (~(1 <= n) => n = 0) /\ \A i \in 1..n : 1 + i - 1 = i OBVIOUS
    <2> QED BY <2>2, <2>3
  <1>7. /\ SubSeq(s, 1, Len(s) - 1) \in Seq(S)
        /\ Len(SubSeq(s, 1, Len(s) - 1)) = Len(s) - 1
        /\ \A i \in 1..(Len(s) - 1) : SubSeq(s, 1, Len(s) - 1)[i] = s[i]
    BY <1>4, <1>6, Zenon
  <1> QED BY <1>1, <1>2, <1>3, <1>7

\* A frame may be opened inside the last one.
LEMMA Entering ==
    ASSUME NEW fs, Nested(fs), NEW f \in Frame, Nests(Last(fs), f), f.in # f.out
    PROVE  Nested(Append(fs, f)) /\ Last(Append(fs, f)) = f
  <1> DEFINE gs == Append(fs, f)
  <1>1. fs \in Seq(Frame) /\ fs # <<>> BY DEF Nested
  <1>2. /\ Len(fs) \in Nat \ {0} /\ Last(fs) = fs[Len(fs)]
    BY <1>1, Ends
  <1>3. /\ gs \in Seq(Frame) /\ gs # <<>> /\ Len(gs) = Len(fs) + 1
        /\ gs[Len(fs) + 1] = f
        /\ \A i \in 1..Len(fs) : gs[i] = fs[i]
    BY <1>1, <1>2
  <1>4. Last(gs) = f BY <1>3 DEF Last
  <1>5. \A i \in 1..Len(gs) : gs[i].in # gs[i].out
    BY <1>2, <1>3 DEF Nested
  <1>6. ASSUME NEW i \in 2..Len(gs) PROVE Nests(gs[i - 1], gs[i])
    <2>1. CASE i = Len(fs) + 1 BY <2>1, <1>2, <1>3
    <2>2. CASE i \in 2..Len(fs) BY <2>2, <1>2, <1>3 DEF Nested
    <2> QED BY <2>1, <2>2, <1>2, <1>3
  <1> HIDE DEF gs
  <1>7. gs[1].kind = "script" BY <1>2, <1>3 DEF Nested
  <1>8. Nested(gs) BY <1>3, <1>5, <1>6, <1>7 DEF Nested
  <1> QED BY <1>4, <1>8 DEF gs

\* When the last frame is not the script it may be closed.
LEMMA Leaving ==
    ASSUME NEW fs, Nested(fs), Last(fs).kind # "script"
    PROVE  Nested(Front(fs)) /\ Nests(Last(Front(fs)), Last(fs))
  <1> DEFINE gs == Front(fs)
  <1>1. fs \in Seq(Frame) /\ fs # <<>> BY DEF Nested
  <1>2. /\ Len(fs) \in Nat \ {0} /\ Last(fs) = fs[Len(fs)]
        /\ gs \in Seq(Frame) /\ Len(gs) = Len(fs) - 1
        /\ \A i \in 1..(Len(fs) - 1) : gs[i] = fs[i]
    BY <1>1, Ends
  <1>3. Len(fs) # 1 BY <1>2 DEF Nested
  <1>4. gs # <<>> /\ Len(gs) >= 1 BY <1>2, <1>3
  <1>5. Last(gs) = fs[Len(fs) - 1]
    <2>1. Last(gs) = gs[Len(gs)] BY <1>2, <1>4, Ends
    <2> QED BY <2>1, <1>2, <1>4
  <1>6. Nests(fs[Len(fs) - 1], fs[Len(fs)]) BY <1>2, <1>3 DEF Nested
  <1>7. \A i \in 1..Len(gs) : gs[i].in # gs[i].out BY <1>2 DEF Nested
  <1>8. \A i \in 2..Len(gs) : Nests(gs[i - 1], gs[i])
    <2> SUFFICES ASSUME NEW i \in 2..Len(gs) PROVE Nests(gs[i - 1], gs[i]) OBVIOUS
    <2>1. gs[i] = fs[i] /\ gs[i - 1] = fs[i - 1] BY <1>2
    <2>2. i \in 2..Len(fs) BY <1>2
    <2> QED BY <2>1, <2>2 DEF Nested
  <1>9. gs[1].kind = "script" BY <1>2, <1>4 DEF Nested
  <1> HIDE DEF gs
  <1>10. Nested(gs) BY <1>2, <1>4, <1>7, <1>8, <1>9 DEF Nested
  <1> QED BY <1>2, <1>5, <1>6, <1>10 DEF gs

\* What Enter does to the frames.
LEMMA EnterNests ==
    ASSUME NEW fs, Nested(fs), NEW f \in Frame, Nests(Last(fs), f), f.in # f.out,
           Enter(fs, f)
    PROVE  Nested(frames') /\ Last(frames') = f
  BY Entering DEF Enter

\* The last of some nested frames has two different descriptors.
LEMMA FrameFacts ==
    ASSUME NEW fs, Nested(fs)
    PROVE  /\ Last(fs) \in Frame
           /\ Last(fs).in # Last(fs).out
           /\ Last(fs).in \in Sources /\ Last(fs).out \in Sinks
  <1>1. fs \in Seq(Frame) /\ fs # <<>> BY DEF Nested
  <1>2. Last(fs) = fs[Len(fs)] /\ Last(fs) \in Frame /\ Len(fs) \in 1..Len(fs)
    BY <1>1, Ends
  <1> QED BY <1>2 DEF Nested, Frame

\* A channel nobody has used is neither descriptor of the current frame.
LEMMA Fresh ==
    ASSUME Nested(frames), NEW c, Unused(c)
    PROVE  c # Scope.in /\ c # Scope.out /\ c \in Channels
  <1>1. frames \in Seq(Frame) /\ frames # <<>> BY DEF Nested
  <1>2. Scope = frames[Len(frames)] /\ Len(frames) \in 1..Len(frames)
    BY <1>1, Ends DEF Scope, Last
  <1> QED BY <1>2 DEF Unused

\* Nor has the frame around it.
LEMMA Escapes ==
    ASSUME Nested(frames), Scope.kind # "script", NEW c, Unused(c)
    PROVE  c # Last(Front(frames)).out
  <1>1. frames \in Seq(Frame) /\ frames # <<>> BY DEF Nested
  <1>2. /\ Len(frames) \in Nat \ {0} /\ Scope = frames[Len(frames)]
        /\ Front(frames) \in Seq(Frame) /\ Len(Front(frames)) = Len(frames) - 1
        /\ \A i \in 1..(Len(frames) - 1) : Front(frames)[i] = frames[i]
    BY <1>1, Ends DEF Scope
  <1>3. Len(frames) # 1 BY <1>2 DEF Nested
  <1>4. Len(Front(frames)) \in 1..(Len(frames) - 1) /\ Front(frames) # <<>> BY <1>2, <1>3
  <1>5. Last(Front(frames)) = frames[Len(frames) - 1] BY <1>2, <1>4, Ends
  <1>6. Len(frames) - 1 \in 1..Len(frames) BY <1>2, <1>3
  <1> QED BY <1>5, <1>6 DEF Unused

\* No redirection escapes its command: the descriptors are those of the frame
\* the shell is in, whatever the tools do to them.
LEMMA DescriptorsKept == DescriptorInv /\ [Next]_vars => DescriptorInv'
  <1> SUFFICES ASSUME DescriptorInv, [Next]_vars PROVE DescriptorInv' OBVIOUS
  <1> USE StreamsAssumption
  <1> DEFINE outer == Front(frames)
  <1>1. /\ Nested(frames) /\ Scope \in Frame /\ Scope.in # Scope.out
        /\ Scope.in \in Sources /\ Scope.out \in Sinks
        /\ fd0 \in {Scope.in, Closed} /\ fd1 = Scope.out
        /\ Kept \notin Sources \cup Sinks \cup {Closed}
    BY FrameFacts DEF DescriptorInv, ScopedDescriptors, Scope, Sources, Sinks
  <1>2. ASSUME Scope.kind # "script"
        PROVE  /\ Nested(outer) /\ Nests(Last(outer), Scope)
               /\ Last(outer) \in Frame /\ Last(outer).in # Last(outer).out
               /\ Last(outer).in \in Sources /\ Last(outer).out \in Sinks
    BY <1>1, <1>2, Leaving, FrameFacts DEF Scope
  <1>3. ASSUME Scope.kind # "script"
        PROVE  Restored0 \in {Last(outer).in, Closed} /\ Restored1 = Last(outer).out
    BY <1>1, <1>2, <1>3 DEF Restored0, Restored1, Nests
  <1>4. ASSUME NEW c, Unused(c) PROVE c # Scope.in /\ c # Scope.out /\ c \in Channels
    BY <1>1, <1>4, Fresh
  <1>5. ASSUME NEW f, Nested(frames'), Last(frames') = f, fd0' \in {f.in, Closed}, fd1' = f.out
        PROVE  DescriptorInv'
    BY <1>5 DEF DescriptorInv, ScopedDescriptors, Scope
  <1> HIDE DEF outer
  <1>6. ASSUME NEW c \in Channels, Redirect(c) PROVE DescriptorInv'
    <2> DEFINE f == [kind |-> "input", fd0 |-> fd0, fd1 |-> Kept, in |-> c, out |-> Scope.out]
    <2>1. c # Scope.out BY <1>4, <1>6 DEF Redirect
    <2>2. f \in Frame BY <1>1 DEF Frame, Sources
    <2>3. Nests(Last(frames), f) BY <1>1 DEF Nests, Scope
    <2>4. Enter(frames, f) /\ fd0' = c /\ fd1' = fd1 BY <1>6 DEF Redirect
    <2>5. f.in = c /\ f.out = Scope.out OBVIOUS
    <2> HIDE DEF f
    <2> QED BY <1>1, <1>5, <2>1, <2>2, <2>3, <2>4, <2>5, EnterNests
  <1>7. ASSUME NEW c \in Channels, Pipeline(c) PROVE DescriptorInv'
    <2> DEFINE f == [kind |-> "stage", fd0 |-> Kept, fd1 |-> fd1, in |-> Scope.in, out |-> c]
    <2>1. c # Scope.out /\ c # Scope.in BY <1>4, <1>7 DEF Pipeline
    <2>2. f \in Frame BY <1>1 DEF Frame, Sinks
    <2>3. Nests(Last(frames), f) BY <1>1, <2>1 DEF Nests, Scope
    <2>4. Enter(frames, f) /\ fd1' = c /\ fd0' = fd0 BY <1>7 DEF Pipeline
    <2>5. f.in = Scope.in /\ f.out = c OBVIOUS
    <2> HIDE DEF f
    <2> QED BY <1>1, <1>5, <2>1, <2>2, <2>3, <2>4, <2>5, EnterNests
  <1>8. ASSUME NEW c \in Channels, Substitute(c) PROVE DescriptorInv'
    <2> DEFINE f == [kind |-> "subst", fd0 |-> Kept, fd1 |-> fd1, in |-> Scope.in, out |-> c]
    <2>1. c # Scope.out /\ c # Scope.in BY <1>4, <1>8 DEF Substitute
    <2>2. f \in Frame BY <1>1 DEF Frame, Sinks
    <2>3. Nests(Last(frames), f) BY <1>1, <2>1 DEF Nests, Scope
    <2>4. Enter(frames, f) /\ fd1' = c /\ fd0' = fd0 BY <1>8 DEF Substitute
    <2>5. f.in = Scope.in /\ f.out = c OBVIOUS
    <2> HIDE DEF f
    <2> QED BY <1>1, <1>5, <2>1, <2>2, <2>3, <2>4, <2>5, EnterNests
  <1>9. ASSUME NEW c \in Channels, NextStage(c) PROVE DescriptorInv'
    <2> DEFINE f == [kind |-> "stage", fd0 |-> Restored0, fd1 |-> Restored1,
                     in |-> Scope.out, out |-> c]
    <2>1. Scope.kind = "stage" /\ Unused(c) BY <1>9 DEF NextStage
    <2>2. c # Scope.out /\ Scope.out \in Sources
      BY <1>1, <1>2, <1>4, <2>1 DEF Nests, Sources, Sinks
    <2>3. /\ Nested(outer) /\ Last(outer) \in Frame
          /\ Restored0 \in {Last(outer).in, Closed} /\ Restored1 = Last(outer).out
          /\ Last(outer).in \in Sources /\ Last(outer).out \in Sinks
      BY <1>2, <1>3, <2>1
    <2>4. c # Last(outer).out
      BY <1>1, <2>1, Escapes DEF outer
    <2>5. f \in Frame BY <2>2, <2>3, <1>9 DEF Frame, Sinks
    <2>6. Nests(Last(outer), f)
      <3>1. Restored0 # Kept /\ Restored1 # Kept BY <1>1, <2>3
      <3> QED BY <3>1, <2>3, <2>4, <1>9 DEF Nests
    <2>7. Enter(outer, f) /\ fd0' = Scope.out /\ fd1' = c BY <1>9 DEF NextStage, outer
    <2>8. f.in = Scope.out /\ f.out = c OBVIOUS
    <2> HIDE DEF f
    <2> QED BY <1>5, <2>2, <2>3, <2>5, <2>6, <2>7, <2>8, EnterNests
  <1>10. ASSUME LastStage PROVE DescriptorInv'
    <2> DEFINE f == [kind |-> "input", fd0 |-> Restored0, fd1 |-> Kept,
                     in |-> Scope.out, out |-> Last(outer).out]
    <2>1. Scope.kind = "stage" BY <1>10 DEF LastStage
    <2>2. /\ Nested(outer) /\ Last(outer) \in Frame
          /\ Restored0 \in {Last(outer).in, Closed} /\ Restored1 = Last(outer).out
          /\ Last(outer).in \in Sources /\ Last(outer).out \in Sinks
      BY <1>2, <1>3, <2>1
    <2>3. Scope.out # Last(outer).out /\ Scope.out \in Sources
      BY <1>1, <1>2, <2>1 DEF Nests, Sources
    <2>4. f \in Frame BY <2>2, <2>3 DEF Frame
    <2>5. Nests(Last(outer), f) BY <1>1, <2>2 DEF Nests
    <2>6. Enter(outer, f) /\ fd0' = Scope.out /\ fd1' = Restored1
      BY <1>10 DEF LastStage, outer
    <2>7. f.in = Scope.out /\ f.out = Last(outer).out OBVIOUS
    <2> HIDE DEF f
    <2> QED BY <1>5, <2>2, <2>3, <2>4, <2>5, <2>6, <2>7, EnterNests
  <1>11. ASSUME EndInput PROVE DescriptorInv'
    <2>1. Scope.kind = "input" BY <1>11 DEF EndInput
    <2>2. frames' = outer /\ fd0' = Restored0 /\ fd1' = fd1 BY <1>11 DEF EndInput, outer
    <2>3. fd1 = Last(outer).out BY <1>1, <1>2, <2>1 DEF Nests
    <2> QED BY <1>2, <1>3, <1>5, <2>1, <2>2, <2>3
  <1>12. ASSUME EndSubstitute PROVE DescriptorInv'
    <2>1. Scope.kind = "subst" BY <1>12 DEF EndSubstitute
    <2>2. frames' = outer /\ fd0' = fd0 /\ fd1' = Restored1
      BY <1>12 DEF EndSubstitute, outer
    <2>3. fd0 \in {Last(outer).in, Closed} BY <1>1, <1>2, <2>1 DEF Nests
    <2> QED BY <1>2, <1>3, <1>5, <2>1, <2>2, <2>3
  <1>13. ASSUME frames' = frames, fd1' = fd1, fd0' \in {fd0, Closed} PROVE DescriptorInv'
    BY <1>1, <1>13 DEF DescriptorInv, ScopedDescriptors, Scope
  <1>14. ASSUME NEW t \in Tools, Begin(t) PROVE DescriptorInv'
    BY <1>13, <1>14 DEF Begin, descriptors
  <1>15. CASE GetBuffered \/ GetFill \/ GetEnd \/ ReadDescriptor \/ ReadEnd \/ Put \/ WriteAll
    BY <1>13, <1>15
       DEF GetBuffered, GetFill, GetEnd, ReadDescriptor, ReadEnd, Put, WriteAll, descriptors
  <1>16. CASE Return \/ Shut \/ Close
    BY <1>13, <1>16 DEF Return, Shut, Close, Leave
  <1>17. CASE UNCHANGED vars
    BY <1>13, <1>17 DEF vars
  <1> QED
    BY <1>6, <1>7, <1>8, <1>9, <1>10, <1>11, <1>12, <1>14, <1>15, <1>16, <1>17 DEF Next

\* The script starts on its own descriptors.
LEMMA DescriptorsInit == Init => DescriptorInv
  <1> SUFFICES ASSUME Init PROVE DescriptorInv OBVIOUS
  <1>1. frames = <<Script>> BY DEF Init
  <1>2. /\ Script \in Frame /\ Script.kind = "script"
        /\ Script.in = Input /\ Script.out = Output
    BY DEF Script, Frame, Sources, Sinks
  <1>3. Input # Output BY StreamsAssumption
  <1> HIDE DEF Script
  <1>4. /\ frames \in Seq(Frame) /\ frames # <<>> /\ Len(frames) = 1
        /\ frames[1] = Script /\ Scope = Script
    BY <1>1, <1>2 DEF Scope, Last
  <1>5. Nested(frames) BY <1>2, <1>3, <1>4 DEF Nested
  <1> QED BY <1>2, <1>4, <1>5 DEF DescriptorInv, ScopedDescriptors, Init

\* No redirection escapes its command (bin/setup:103-136, :282-402), however
\* deeply stages, substitutions and redirections are nested.
THEOREM Scoped == Spec => []ScopedDescriptors
  <1>1. DescriptorInv => ScopedDescriptors BY DEF DescriptorInv
  <1> QED BY <1>1, DescriptorsInit, DescriptorsKept, PTL DEF Spec

-----------------------------------------------------------------------------
(* The items: what is written, and what is handed out.                     *)

\* Nothing that has been written is lost, is in two places or is out of order:
\* with the channels d, the buffer p of stdout, the intended channels m and
\* descriptor 1 at f, an item is in its channel, or still in the buffer and
\* behind whatever f has.
WrittenTo(d, p, m, f) ==
    /\ d \in [Sources \cup Sinks -> Seq(Nat)]
    /\ p \in Seq(Nat)
    /\ m \in Seq(Sources \cup Sinks)
    /\ \A c \in Sources \cup Sinks : Increasing(d[c])
    /\ \A c \in Sources \cup Sinks : \A i \in 1..Len(d[c]) : d[c][i] \in 1..Len(m) /\ m[d[c][i]] = c
    /\ Increasing(p)
    /\ \A i \in 1..Len(p) : p[i] \in 1..Len(m) /\ m[p[i]] = f
    /\ \A i \in 1..Len(d[f]) : \A j \in 1..Len(p) : d[f][i] < p[j]
    /\ \A n \in 1..Len(m) : Contains(d[m[n]], n) \/ Contains(p, n)

WrittenInv ==
    /\ WrittenTo(data, pend, meant, fd1)
    /\ Len(meant) <= MaxItems
    /\ tool = "none" => pend = <<>>

\* What has been handed out was written for its reader, and so was what a
\* tool has in its buffer.  What stdout has in its buffer is younger.
HandedInv ==
    /\ pos \in [Sources -> Nat] /\ \A c \in Sources : pos[c] <= Len(data[c])
    /\ got \in [Sources -> Seq(Nat)]
    /\ buf \in Seq(Nat)
    /\ \A c \in Sources : \A i \in 1..Len(got[c]) : got[c][i] \in 1..Len(meant) /\ meant[got[c][i]] = c
    /\ \A c \in Sources : c = fd1 =>
         \A i \in 1..Len(got[c]) : \A j \in 1..Len(pend) : got[c][i] < pend[j]
    /\ \A i \in 1..Len(buf) : buf[i] \in 1..Len(meant)
    /\ tool \in Embedded => \A i \in 1..Len(buf) : meant[buf[i]] = Scope.in

\* The flags belong to the tool that executes.
FlagsInv ==
    /\ tool \in Tools \cup {"none"} /\ told \in BOOLEAN /\ eof \in BOOLEAN /\ left \in BOOLEAN
    /\ tool \in Embedded /\ eof => told
    /\ tool = "none" => ~told
    /\ EndIsEnd

\* What has been handed out of channel c comes before its item p + 1.
Behind(c, p) ==
    \A i \in 1..Len(got[c]), k \in (p + 1)..Len(data[c]) : got[c][i] < data[c][k]

\* Where the readers of channel c are: its offset, less what the FILE still has.
Reached(c) == IF c = fd0 THEN pos[c] - Len(buf) ELSE pos[c]

\* The buffer is the piece of its channel before the offset.
OnceInv ==
    ~left => /\ tool \notin Streaming => buf = <<>>
             /\ buf # <<>> => /\ fd0 \in Sources
                              /\ Len(buf) <= pos[fd0]
                              /\ \A i \in 1..Len(buf) : buf[i] = data[fd0][pos[fd0] - Len(buf) + i]
             /\ \A c \in Sources : Increasing(got[c]) /\ Behind(c, Reached(c))

StreamInv == DescriptorInv /\ WrittenInv /\ HandedInv /\ FlagsInv /\ OnceInv

\* A step that hands s to the command, from the buffer or from the channel.
Reads(s) ==
    /\ s \in Seq(Nat) /\ buf' \in Seq(Nat)
    /\ got' = [got EXCEPT ![Scope.in] = @ \o s]
    /\ pos' \in [Sources -> Nat] /\ \A c \in Sources : pos'[c] <= Len(data[c])
    /\ \A i \in 1..Len(s) : s[i] \in 1..Len(meant) /\ meant[s[i]] = Scope.in
    /\ \A i \in 1..Len(buf') : buf'[i] \in 1..Len(meant)
    /\ tool \in Embedded => \A i \in 1..Len(buf') : meant[buf'[i]] = Scope.in
    /\ UNCHANGED <<descriptors, data, tool, told, eof, pend, meant, left>>
    /\ ~left => /\ fd0 \in Sources
                /\ Len(buf') <= pos'[fd0]
                /\ pos'[fd0] - Len(buf') = Reached(fd0) + Len(s)
                /\ Reached(fd0) \in Nat
                /\ \A i \in 1..Len(s) : s[i] = data[fd0][Reached(fd0) + i]
                /\ \A i \in 1..Len(buf') : buf'[i] = data[fd0][pos'[fd0] - Len(buf') + i]
                /\ \A c \in Sources : c # fd0 => pos'[c] = pos[c]
                /\ tool \notin Streaming => buf' = <<>>

\* What a step adds to a channel or to the buffer is new, or comes from the
\* buffer; what is there stays.
Grows ==
    /\ Len(meant) <= Len(meant') /\ \A i \in 1..Len(meant) : meant'[i] = meant[i]
    /\ \A c \in Sources \cup Sinks :
         /\ Len(data[c]) <= Len(data'[c])
         /\ \A i \in 1..Len(data[c]) : data'[c][i] = data[c][i]
         /\ \A k \in 1..Len(data'[c]) :
              k > Len(data[c]) => data'[c][k] > Len(meant) \/ (c = fd1 /\ Contains(pend, data'[c][k]))
    /\ \A j \in 1..Len(pend') : pend'[j] > Len(meant) \/ (fd1' = fd1 /\ Contains(pend, pend'[j]))

\* The elements of s \o t are those of s and those of t, in this order.
LEMMA Concatenated ==
    ASSUME NEW S, NEW s \in Seq(S), NEW t \in Seq(S)
    PROVE  /\ s \o t \in Seq(S)
           /\ Len(s \o t) = Len(s) + Len(t)
           /\ \A i \in 1..Len(s) : (s \o t)[i] = s[i]
           /\ \A j \in 1..Len(t) : (s \o t)[Len(s) + j] = t[j]
           /\ \A k \in 1..Len(s \o t) : \/ k \in 1..Len(s) /\ (s \o t)[k] = s[k]
                                        \/ \E j \in 1..Len(t) : k = Len(s) + j /\ (s \o t)[k] = t[j]
  <1> DEFINE u == s \o t
  <1>1. /\ u \in Seq(S) /\ Len(u) = Len(s) + Len(t)
        /\ \A i \in 1..(Len(s) + Len(t)) : u[i] = IF i <= Len(s) THEN s[i] ELSE t[i - Len(s)]
    BY ConcatProperties
  <1>2. Len(s) \in Nat /\ Len(t) \in Nat OBVIOUS
  <1> HIDE DEF u
  <1>3. \A i \in 1..Len(s) : u[i] = s[i] BY <1>1, <1>2
  <1>4. ASSUME NEW j \in 1..Len(t) PROVE u[Len(s) + j] = t[j]
    <2>1. Len(s) + j \in 1..(Len(s) + Len(t)) /\ ~(Len(s) + j <= Len(s)) /\ Len(s) + j - Len(s) = j
      BY <1>2
    <2> QED BY <1>1, <2>1
  <1>5. ASSUME NEW k \in 1..Len(u)
        PROVE  \/ k \in 1..Len(s) /\ u[k] = s[k]
               \/ \E j \in 1..Len(t) : k = Len(s) + j /\ u[k] = t[j]
    <2>1. CASE k <= Len(s) BY <2>1, <1>1, <1>2, <1>3
    <2>2. CASE ~(k <= Len(s))
      <3>1. k - Len(s) \in 1..Len(t) /\ k = Len(s) + (k - Len(s)) BY <2>2, <1>1, <1>2
      <3>2. u[k] = t[k - Len(s)] BY <3>1, <1>4
      <3> QED BY <3>1, <3>2
    <2> QED BY <2>1, <2>2
  <1> QED BY <1>1, <1>3, <1>4, <1>5 DEF u

\* What a sequence of items has after another one was added to it.
LEMMA ItemsConcatenated ==
    \A s, t \in Seq(Nat) :
        /\ s \o t \in Seq(Nat)
        /\ Len(s \o t) = Len(s) + Len(t)
        /\ \A i \in 1..Len(s) : (s \o t)[i] = s[i]
        /\ \A j \in 1..Len(t) : (s \o t)[Len(s) + j] = t[j]
        /\ \A k \in 1..Len(s \o t) : \/ k \in 1..Len(s) /\ (s \o t)[k] = s[k]
                                     \/ \E j \in 1..Len(t) : k = Len(s) + j /\ (s \o t)[k] = t[j]
  BY Concatenated

\* Increasing sequences may be joined where the second begins after the first ends.
LEMMA IncreasingJoined ==
    ASSUME NEW s \in Seq(Nat), NEW t \in Seq(Nat), Increasing(s), Increasing(t),
           \A i \in 1..Len(s) : \A j \in 1..Len(t) : s[i] < t[j]
    PROVE  Increasing(s \o t)
  <1> DEFINE u == s \o t
  <1>1. /\ Len(u) = Len(s) + Len(t) /\ Len(s) \in Nat /\ Len(t) \in Nat
        /\ \A k \in 1..Len(u) : \/ k \in 1..Len(s) /\ u[k] = s[k]
                                \/ \E j \in 1..Len(t) : k = Len(s) + j /\ u[k] = t[j]
    BY ItemsConcatenated
  <1> HIDE DEF u
  <1>2. ASSUME NEW i \in 1..Len(u), NEW k \in 1..Len(u), i < k PROVE u[i] < u[k]
    <2>1. CASE i \in 1..Len(s) /\ u[i] = s[i] /\ k \in 1..Len(s) /\ u[k] = s[k]
      BY <1>2, <2>1 DEF Increasing
    <2>2. ASSUME i \in 1..Len(s), u[i] = s[i], NEW j \in 1..Len(t), u[k] = t[j] PROVE u[i] < u[k]
      BY <2>2
    <2>3. ASSUME NEW j \in 1..Len(t), i = Len(s) + j, u[i] = t[j],
                 NEW l \in 1..Len(t), k = Len(s) + l, u[k] = t[l]
          PROVE  u[i] < u[k]
      <3>1. j < l BY <1>1, <1>2, <2>3
      <3> QED BY <2>3, <3>1 DEF Increasing
    <2>4. ASSUME NEW j \in 1..Len(t), i = Len(s) + j, k \in 1..Len(s) PROVE FALSE
      BY <1>1, <1>2, <2>4
    <2> QED BY <1>1, <2>1, <2>2, <2>3, <2>4
  <1> QED BY <1>2 DEF Increasing, u

\* An increasing sequence has no more elements than there are values.
LEMMA IncreasingShort ==
    ASSUME NEW n \in Nat, NEW s \in Seq(1..n), Increasing(s)
    PROVE  Len(s) <= n
  <1>1. Len(s) \in Nat /\ s \in [1..Len(s) -> 1..n] BY LenProperties
  <1>2. \A i, j \in 1..Len(s) : s[i] = s[j] => i = j
    <2> SUFFICES ASSUME NEW i \in 1..Len(s), NEW j \in 1..Len(s), s[i] = s[j] PROVE i = j
      OBVIOUS
    <2>1. s[i] \in Nat /\ s[j] \in Nat BY <1>1
    <2>2. ~(i < j) /\ ~(j < i) BY <2>1 DEF Increasing
    <2> QED BY <1>1, <2>2
  <1>3. s \in Injection(1..Len(s), 1..n) BY <1>1, <1>2 DEF Injection, IsInjective
  <1>4. /\ IsFiniteSet(1..n) /\ Cardinality(1..n) = n /\ Cardinality(1..Len(s)) = Len(s)
    <2>1. \A m \in Nat : IsFiniteSet(1..m) /\ Cardinality(1..m) = IF 1 > m THEN 0 ELSE m - 1 + 1
      BY FS_Interval
    <2>2. \A m \in Nat : (IF 1 > m THEN 0 ELSE m - 1 + 1) = m OBVIOUS
    <2> QED BY <1>1, <2>1, <2>2
  <1>5. Cardinality(1..Len(s)) <= Cardinality(1..n) BY <1>3, <1>4, FS_Injection
  <1> QED BY <1>4, <1>5

\* printf() adds an item to the buffer.
LEMMA PutWrites ==
    ASSUME NEW d, NEW p, NEW m, NEW f \in Sinks, WrittenTo(d, p, m, f)
    PROVE  WrittenTo(d, Append(p, Len(m) + 1), Append(m, f), f)
  <1> DEFINE n == Len(m) + 1
             q == Append(p, n)
             l == Append(m, f)
  <1>1. /\ d \in [Sources \cup Sinks -> Seq(Nat)] /\ p \in Seq(Nat) /\ m \in Seq(Sources \cup Sinks)
        /\ f \in Sources \cup Sinks
    BY DEF WrittenTo
  <1>2. Len(m) \in Nat /\ Len(p) \in Nat /\ n \in Nat BY <1>1
  <1>3. /\ q \in Seq(Nat) /\ Len(q) = Len(p) + 1 /\ q[Len(p) + 1] = n
        /\ \A i \in 1..Len(p) : q[i] = p[i]
    BY <1>1, <1>2
  <1>4. /\ l \in Seq(Sources \cup Sinks) /\ Len(l) = n /\ l[n] = f
        /\ \A i \in 1..Len(m) : l[i] = m[i]
    BY <1>1
  <1> HIDE DEF q, l
  <1>5. \A i \in 1..Len(q) : i \in 1..Len(p) \/ i = Len(p) + 1 BY <1>2, <1>3
  <1>6. \A i \in 1..Len(m) : i < n /\ i \in 1..Len(l) BY <1>2, <1>4
  <1>7. \A c \in Sources \cup Sinks : \A i \in 1..Len(d[c]) : d[c][i] \in 1..Len(l) /\ l[d[c][i]] = c
    BY <1>4, <1>6 DEF WrittenTo
  <1>8. ASSUME NEW i \in 1..Len(q), NEW j \in 1..Len(q), i < j PROVE q[i] < q[j]
    <2>1. CASE j \in 1..Len(p)
      <3>1. i \in 1..Len(p) BY <1>2, <1>8, <2>1
      <3> QED BY <1>3, <1>8, <2>1, <3>1 DEF WrittenTo, Increasing
    <2>2. CASE j = Len(p) + 1
      <3>1. i \in 1..Len(p) BY <1>2, <1>8, <2>2
      <3>2. q[i] \in 1..Len(m) BY <1>3, <3>1 DEF WrittenTo
      <3> QED BY <1>3, <1>6, <2>2, <3>2
    <2> QED BY <1>5, <2>1, <2>2
  <1>9. ASSUME NEW i \in 1..Len(q) PROVE q[i] \in 1..Len(l) /\ l[q[i]] = f
    <2>1. CASE i \in 1..Len(p)
      <3>1. q[i] \in 1..Len(m) /\ m[q[i]] = f BY <1>3, <2>1 DEF WrittenTo
      <3>2. l[q[i]] = m[q[i]] /\ q[i] \in 1..Len(l) BY <1>4, <1>6, <3>1
      <3> QED BY <3>1, <3>2
    <2>2. CASE i = Len(p) + 1 BY <1>2, <1>3, <1>4, <2>2
    <2> QED BY <1>5, <2>1, <2>2
  <1>10. ASSUME NEW i \in 1..Len(d[f]), NEW j \in 1..Len(q) PROVE d[f][i] < q[j]
    <2>1. CASE j \in 1..Len(p) BY <1>3, <2>1 DEF WrittenTo
    <2>2. CASE j = Len(p) + 1
      <3>1. d[f][i] \in 1..Len(m) BY <1>1 DEF WrittenTo
      <3> QED BY <1>3, <1>6, <2>2, <3>1
    <2> QED BY <1>5, <2>1, <2>2
  <1>11. ASSUME NEW k \in 1..Len(l) PROVE Contains(d[l[k]], k) \/ Contains(q, k)
    <2>1. CASE k \in 1..Len(m)
      <3>1. Contains(d[m[k]], k) \/ Contains(p, k) BY <2>1 DEF WrittenTo
      <3>2. Contains(p, k) => Contains(q, k) BY <1>2, <1>3 DEF Contains
      <3> QED BY <1>4, <2>1, <3>1, <3>2
    <2>2. CASE k = n
      <3>1. Len(p) + 1 \in 1..Len(q) BY <1>2, <1>3
      <3> QED BY <1>3, <2>2, <3>1 DEF Contains
    <2> QED BY <1>2, <1>4, <2>1, <2>2
  <1>12. Increasing(q) BY <1>8 DEF Increasing
  <1> HIDE DEF n
  <1>13. WrittenTo(d, q, l, f)
    BY <1>1, <1>3, <1>4, <1>7, <1>9, <1>10, <1>11, <1>12 DEF WrittenTo
  <1> QED BY <1>13 DEF n, q, l

\* Emptying the buffer, after which descriptor 1 may become g.
LEMMA FlushWrites ==
    ASSUME NEW d, NEW p, NEW m, NEW f \in Sinks, NEW g, WrittenTo(d, p, m, f)
    PROVE  WrittenTo([d EXCEPT ![f] = @ \o p], <<>>, m, g)
  <1> DEFINE u == d[f] \o p
             e == [d EXCEPT ![f] = @ \o p]
  <1>1. /\ d \in [Sources \cup Sinks -> Seq(Nat)] /\ p \in Seq(Nat) /\ m \in Seq(Sources \cup Sinks)
        /\ f \in Sources \cup Sinks /\ d[f] \in Seq(Nat)
    BY DEF WrittenTo
  <1>2. /\ u \in Seq(Nat) /\ Len(u) = Len(d[f]) + Len(p)
        /\ \A i \in 1..Len(d[f]) : u[i] = d[f][i]
        /\ \A j \in 1..Len(p) : u[Len(d[f]) + j] = p[j]
        /\ \A k \in 1..Len(u) : \/ k \in 1..Len(d[f]) /\ u[k] = d[f][k]
                                \/ \E j \in 1..Len(p) : k = Len(d[f]) + j /\ u[k] = p[j]
    BY <1>1, ItemsConcatenated
  <1>3. Increasing(u) BY <1>1, IncreasingJoined DEF WrittenTo
  <1>4. /\ e \in [Sources \cup Sinks -> Seq(Nat)] /\ e[f] = u
        /\ \A c \in Sources \cup Sinks : c # f => e[c] = d[c]
    BY <1>1, <1>2
  <1> HIDE DEF u, e
  <1>5. \A k \in 1..Len(u) : u[k] \in 1..Len(m) /\ m[u[k]] = f
    <2> SUFFICES ASSUME NEW k \in 1..Len(u) PROVE u[k] \in 1..Len(m) /\ m[u[k]] = f OBVIOUS
    <2>1. CASE k \in 1..Len(d[f]) /\ u[k] = d[f][k] BY <1>1, <2>1 DEF WrittenTo
    <2>2. ASSUME NEW j \in 1..Len(p), u[k] = p[j] PROVE u[k] \in 1..Len(m) /\ m[u[k]] = f
      BY <2>2 DEF WrittenTo
    <2> QED BY <1>2, <2>1, <2>2
  <1>6. \A c \in Sources \cup Sinks : Increasing(e[c])
    BY <1>3, <1>4 DEF WrittenTo
  <1>7. \A c \in Sources \cup Sinks : \A i \in 1..Len(e[c]) : e[c][i] \in 1..Len(m) /\ m[e[c][i]] = c
    <2> SUFFICES ASSUME NEW c \in Sources \cup Sinks
                 PROVE  \A i \in 1..Len(e[c]) : e[c][i] \in 1..Len(m) /\ m[e[c][i]] = c
      OBVIOUS
    <2>1. CASE c = f BY <1>4, <1>5, <2>1
    <2>2. CASE c # f BY <1>4, <2>2 DEF WrittenTo
    <2> QED BY <2>1, <2>2
  <1>8. ASSUME NEW n \in 1..Len(m) PROVE Contains(e[m[n]], n)
    <2>1. Contains(d[m[n]], n) \/ Contains(p, n) BY DEF WrittenTo
    <2>2. Len(d[f]) \in Nat /\ Len(p) \in Nat BY <1>1
    <2>3. m[n] \in Sources \cup Sinks BY <1>1
    <2>4. ASSUME Contains(d[m[n]], n), m[n] = f PROVE Contains(u, n)
      <3>1. PICK i \in 1..Len(d[f]) : d[f][i] = n BY <2>4 DEF Contains
      <3>2. i \in 1..Len(u) BY <1>2, <2>2
      <3> QED BY <1>2, <3>1, <3>2 DEF Contains
    <2>5. ASSUME Contains(p, n) PROVE m[n] = f /\ Contains(u, n)
      <3>1. PICK j \in 1..Len(p) : p[j] = n BY <2>5 DEF Contains
      <3>2. Len(d[f]) + j \in 1..Len(u) /\ u[Len(d[f]) + j] = n BY SMTT(20), <1>2, <2>2, <3>1
      <3>3. m[n] = f BY <3>1 DEF WrittenTo
      <3> QED BY <3>2, <3>3 DEF Contains
    <2> QED BY <1>4, <2>1, <2>3, <2>4, <2>5
  <1>9. /\ <<>> \in Seq(Nat) /\ Len(<<>>) = 0 /\ Increasing(<<>>)
        /\ \A i \in 1..Len(<<>>) : FALSE
    BY DEF Increasing
  <1>10. WrittenTo(e, <<>>, m, g)
    BY <1>1, <1>4, <1>6, <1>7, <1>8, <1>9 DEF WrittenTo
  <1> QED BY <1>10 DEF e

\* With an empty buffer descriptor 1 may become anything.
LEMMA TurnWrites ==
    ASSUME NEW d, NEW m, NEW f, NEW g, WrittenTo(d, <<>>, m, f)
    PROVE  WrittenTo(d, <<>>, m, g)
  <1>1. Len(<<>>) = 0 OBVIOUS
  <1> QED BY <1>1 DEF WrittenTo

\* A file with n items of its own.
LEMMA FileWrites ==
    ASSUME NEW d, NEW m, NEW f, WrittenTo(d, <<>>, m, f),
           NEW c \in Channels, d[c] = <<>>, NEW n \in Nat
    PROVE  WrittenTo([d EXCEPT ![c] = [i \in 1..n |-> Len(m) + i]], <<>>, m \o [i \in 1..n |-> c], f)
  <1> DEFINE t == [i \in 1..n |-> Len(m) + i]
             x == [i \in 1..n |-> c]
             e == [d EXCEPT ![c] = t]
             l == m \o x
  <1>1. /\ d \in [Sources \cup Sinks -> Seq(Nat)] /\ m \in Seq(Sources \cup Sinks) /\ Len(m) \in Nat
        /\ c \in Sources \cup Sinks
    BY DEF WrittenTo, Sources
  <1>2. /\ t \in Seq(Nat) /\ Len(t) = n /\ \A i \in 1..n : t[i] = Len(m) + i BY <1>1
  <1>3. /\ x \in Seq(Sources \cup Sinks) /\ Len(x) = n /\ \A i \in 1..n : x[i] = c BY <1>1
  <1> HIDE DEF t, x
  <1>4. /\ l \in Seq(Sources \cup Sinks) /\ Len(l) = Len(m) + n
        /\ \A i \in 1..Len(m) : l[i] = m[i]
        /\ \A j \in 1..n : l[Len(m) + j] = c
        /\ \A k \in 1..Len(l) : k \in 1..Len(m) \/ \E j \in 1..n : k = Len(m) + j
    <2>1. /\ l \in Seq(Sources \cup Sinks) /\ Len(l) = Len(m) + Len(x)
          /\ \A i \in 1..Len(m) : l[i] = m[i]
          /\ \A j \in 1..Len(x) : l[Len(m) + j] = x[j]
          /\ \A k \in 1..Len(l) : \/ k \in 1..Len(m) /\ l[k] = m[k]
                                  \/ \E j \in 1..Len(x) : k = Len(m) + j /\ l[k] = x[j]
      <3> HIDE DEF l
      <3>1. m \in Seq(Sources \cup Sinks) /\ x \in Seq(Sources \cup Sinks) BY <1>1, <1>3
      <3> QED BY <3>1, Concatenated DEF l
    <2> HIDE DEF l
    <2> QED BY <1>3, <2>1
  <1>5. /\ e \in [Sources \cup Sinks -> Seq(Nat)] /\ e[c] = t
        /\ \A b \in Sources \cup Sinks : b # c => e[b] = d[b]
    BY <1>1, <1>2
  <1> HIDE DEF e, l
  <1>6. Increasing(t) BY <1>1, <1>2 DEF Increasing
  <1>7. \A i \in 1..n : Len(m) + i \in 1..Len(l) BY <1>1, <1>4
  <1>8. \A i \in 1..Len(t) : t[i] \in 1..Len(l) /\ l[t[i]] = c BY <1>2, <1>4, <1>7
  <1>9. \A i \in 1..Len(m) : i \in 1..Len(l) BY <1>1, <1>4
  <1>10. \A b \in Sources \cup Sinks : Increasing(e[b]) BY <1>5, <1>6 DEF WrittenTo
  <1>11. \A b \in Sources \cup Sinks : \A i \in 1..Len(e[b]) : e[b][i] \in 1..Len(l) /\ l[e[b][i]] = b
    <2> SUFFICES ASSUME NEW b \in Sources \cup Sinks
                 PROVE  \A i \in 1..Len(e[b]) : e[b][i] \in 1..Len(l) /\ l[e[b][i]] = b
      OBVIOUS
    <2>1. CASE b = c BY <1>5, <1>8, <2>1
    <2>2. CASE b # c
      <3>1. \A i \in 1..Len(d[b]) : d[b][i] \in 1..Len(m) /\ m[d[b][i]] = b BY DEF WrittenTo
      <3>2. \A i \in 1..Len(m) : i \in 1..Len(l) /\ l[i] = m[i] BY <1>4, <1>9
      <3>3. \A i \in 1..Len(d[b]) : d[b][i] \in 1..Len(l) /\ l[d[b][i]] = b BY <3>1, <3>2
      <3> QED BY <1>5, <2>2, <3>3
    <2> QED BY <2>1, <2>2
  <1>12. Len(<<>>) = 0 /\ Len(d[c]) = 0 OBVIOUS
  <1>13. ASSUME NEW k \in 1..Len(l) PROVE Contains(e[l[k]], k)
    <2>1. CASE k \in 1..Len(m)
      <3>1. Contains(d[m[k]], k) BY <1>12, <2>1 DEF WrittenTo, Contains
      <3>2. m[k] # c BY <1>12, <3>1 DEF Contains
      <3>3. m[k] \in Sources \cup Sinks BY <1>1, <2>1
      <3> QED BY <1>4, <1>5, <2>1, <3>1, <3>2, <3>3
    <2>2. ASSUME NEW j \in 1..n, k = Len(m) + j PROVE Contains(e[l[k]], k)
      BY <1>2, <1>4, <1>5, <2>2 DEF Contains
    <2> QED BY <1>4, <2>1, <2>2
  <1>14. WrittenTo(e, <<>>, l, f)
    BY <1>1, <1>4, <1>5, <1>10, <1>11, <1>12, <1>13 DEF WrittenTo
  <1> QED BY <1>14 DEF t, x, e, l

\* Nothing that is written is lost or overtaken, whichever way it is written.
LEMMA WritesKept ==
    ASSUME DescriptorInv, WrittenInv, fd1 \in Sinks, [Next]_vars
    PROVE  WrittenInv'
  <1> USE StreamsAssumption
  <1>1. /\ WrittenTo(data, pend, meant, fd1) /\ Len(meant) <= MaxItems
        /\ meant \in Seq(Sources \cup Sinks) /\ Len(meant) \in Nat
        /\ fd1 = Scope.out
    BY DEF WrittenInv, WrittenTo, DescriptorInv, ScopedDescriptors
  <1>2. ASSUME UNCHANGED <<data, pend, meant>>, fd1' = fd1 \/ pend = <<>>,
               tool' = tool \/ tool' # "none" \/ pend = <<>>
        PROVE  WrittenInv'
    <2>1. WrittenTo(data, pend, meant, fd1') BY <1>1, <1>2, TurnWrites
    <2> QED BY <1>1, <1>2, <2>1 DEF WrittenInv
  <1>3. ASSUME data' = [data EXCEPT ![fd1] = @ \o pend], pend' = <<>>, meant' = meant
        PROVE  WrittenInv'
    <2>1. WrittenTo([data EXCEPT ![fd1] = @ \o pend], <<>>, meant, fd1') BY <1>1, FlushWrites
    <2> QED BY <1>1, <1>3, <2>1 DEF WrittenInv
  <1>4. ASSUME meant' = Append(meant, fd1), NewItem <= MaxItems,
               tool' # "none", fd1' = fd1
        PROVE  /\ WrittenTo(data, Append(pend, NewItem), meant', fd1)
               /\ Len(meant') <= MaxItems
    BY <1>1, <1>4, PutWrites DEF NewItem
  <1>5. ASSUME NEW c \in Channels, Redirect(c) PROVE WrittenInv'
    <2>1. pend = <<>> /\ pend' = pend /\ data[c] = <<>>
      BY <1>5 DEF Redirect, stdio, WrittenInv, Unused
    <2>2. PICK n \in 0..(MaxItems - Len(meant)) :
                 /\ data' = [data EXCEPT ![c] = [i \in 1..n |-> Len(meant) + i]]
                 /\ meant' = meant \o [i \in 1..n |-> c]
      BY <1>5 DEF Redirect
    <2>3. n \in Nat /\ Len(meant) + n <= MaxItems BY <1>1, <2>2
    <2>4. WrittenTo(data', <<>>, meant', fd1) BY <1>1, <2>1, <2>2, <2>3, FileWrites
    <2>5. Len(meant') = Len(meant) + n
      <3> DEFINE x == [i \in 1..n |-> c]
      <3>1. c \in Sources \cup Sinks BY DEF Sources
      <3>2. x \in Seq(Sources \cup Sinks) /\ Len(x) = n BY <2>3, <3>1
      <3> HIDE DEF x
      <3>3. Len(meant \o x) = Len(meant) + Len(x) BY ZenonT(30), <1>1, <3>2, Concatenated
      <3> QED BY <2>2, <3>2, <3>3 DEF x
    <2>6. fd1' = fd1 BY <1>5 DEF Redirect
    <2> QED BY <2>1, <2>3, <2>4, <2>5, <2>6 DEF WrittenInv
  <1>6. ASSUME NEW c \in Channels, Pipeline(c) \/ NextStage(c) \/ Substitute(c) PROVE WrittenInv'
    BY <1>2, <1>6 DEF Pipeline, NextStage, Substitute, stdio, ghosts, WrittenInv
  <1>7. CASE LastStage \/ EndInput
    BY <1>2, <1>7 DEF LastStage, EndInput, stdio, ghosts, WrittenInv
  <1>8. CASE EndSubstitute
    BY <1>3, <1>8 DEF EndSubstitute
  <1>9. ASSUME NEW t \in Tools, Begin(t) PROVE WrittenInv'
    <2>1. tool = "none" /\ UNCHANGED <<data, pend, meant>> /\ fd1' = fd1
      BY <1>9 DEF Begin, descriptors, ghosts
    <2>2. pend = <<>> BY <2>1 DEF WrittenInv
    <2> QED BY <1>2, <2>1, <2>2
  <1>10. CASE GetBuffered \/ GetFill \/ GetEnd \/ ReadDescriptor \/ ReadEnd
    BY <1>2, <1>10
       DEF GetBuffered, GetFill, GetEnd, ReadDescriptor, ReadEnd, descriptors, stdio, ghosts
  <1>11. CASE Put
    <2>1. /\ meant' = Append(meant, fd1) /\ NewItem <= MaxItems /\ tool' # "none" /\ fd1' = fd1
      BY <1>1, <1>11 DEF Put, descriptors
    <2>2. CASE pend' = Append(pend, NewItem) /\ UNCHANGED data
      BY <1>4, <2>1, <2>2 DEF WrittenInv
    <2>3. CASE pend' = <<>> /\ data' = [data EXCEPT ![fd1] = @ \o Append(pend, NewItem)]
      BY <1>4, <2>1, <2>3, FlushWrites DEF WrittenInv
    <2> QED BY <1>11, <2>2, <2>3 DEF Put
  <1>12. CASE WriteAll
    <2>1. /\ meant' = Append(meant, fd1) /\ NewItem <= MaxItems /\ tool' # "none" /\ fd1' = fd1
          /\ pend' = <<>> /\ data' = [data EXCEPT ![fd1] = @ \o Append(pend, NewItem)]
      BY <1>1, <1>12 DEF WriteAll, descriptors
    <2> QED BY <1>4, <2>1, FlushWrites DEF WrittenInv
  <1>13. CASE Return \/ Shut \/ Close
    BY <1>3, <1>13 DEF Return, Shut, Close, Leave
  <1>14. CASE UNCHANGED vars
    BY <1>2, <1>14 DEF vars
  <1> QED
    BY <1>5, <1>6, <1>7, <1>8, <1>9, <1>10, <1>11, <1>12, <1>13, <1>14 DEF Next

\* Nothing has been written at first.
LEMMA WritesInit == Init => WrittenInv
  <1> SUFFICES ASSUME Init PROVE WrittenInv OBVIOUS
  <1> USE StreamsAssumption
  <1> DEFINE t == [i \in 1..InputSize |-> i]
             x == [i \in 1..InputSize |-> Input]
  <1>1. /\ t \in Seq(Nat) /\ Len(t) = InputSize /\ \A i \in 1..InputSize : t[i] = i
        /\ x \in Seq(Sources \cup Sinks) /\ Len(x) = InputSize /\ \A i \in 1..InputSize : x[i] = Input
    BY DEF Sources
  <1>2. /\ meant = x /\ pend = <<>> /\ <<>> \in Seq(Nat) /\ Len(<<>>) = 0
        /\ data = [c \in Sources \cup Sinks |-> IF c = Input THEN t ELSE <<>>]
    BY DEF Init
  <1> HIDE DEF t, x
  <1>3. /\ data \in [Sources \cup Sinks -> Seq(Nat)] /\ data[Input] = t /\ Input \in Sources
        /\ \A c \in Sources \cup Sinks : c # Input => data[c] = <<>>
    BY <1>1, <1>2 DEF Sources
  <1>4. Increasing(t) /\ Increasing(<<>>) BY <1>1, <1>2 DEF Increasing
  <1>5. /\ \A c \in Sources \cup Sinks : Increasing(data[c])
        /\ \A c \in Sources \cup Sinks : \A i \in 1..Len(data[c]) :
             data[c][i] \in 1..Len(meant) /\ meant[data[c][i]] = c
    BY <1>1, <1>2, <1>3, <1>4
  <1>6. \A n \in 1..Len(meant) : Contains(data[meant[n]], n)
    BY <1>1, <1>2, <1>3 DEF Contains
  <1>7. \A i \in 1..Len(pend) : FALSE BY <1>2
  <1>8. pend \in Seq(Nat) /\ Increasing(pend) /\ meant \in Seq(Sources \cup Sinks) BY <1>1, <1>2, <1>4
  <1>9. WrittenTo(data, pend, meant, fd1) BY <1>3, <1>5, <1>6, <1>7, <1>8 DEF WrittenTo
  <1> QED BY <1>1, <1>2, <1>9 DEF WrittenInv

\* Channels and the record of what was meant only grow.
LEMMA Growth ==
    ASSUME DescriptorInv, WrittenInv, fd1 \in Sinks, [Next]_vars
    PROVE  Grows
  <1> USE StreamsAssumption
  <1>1. /\ data \in [Sources \cup Sinks -> Seq(Nat)] /\ pend \in Seq(Nat) /\ fd1 \in Sources \cup Sinks
        /\ meant \in Seq(Sources \cup Sinks) /\ Len(meant) \in Nat /\ fd1 = Scope.out
        /\ \A c \in Sources \cup Sinks : data[c] \in Seq(Nat) /\ Len(data[c]) \in Nat
    BY DEF WrittenInv, WrittenTo, DescriptorInv, ScopedDescriptors
  <1>2. \A j \in 1..Len(pend) : Contains(pend, pend[j]) BY DEF Contains
  <1>3. Len(<<>>) = 0 OBVIOUS
  <1>4. ASSUME UNCHANGED <<data, pend, meant>>, fd1' = fd1 \/ pend = <<>> PROVE Grows
    BY <1>1, <1>2, <1>3, <1>4 DEF Grows
  <1>5. ASSUME NEW new, new \in Seq(Nat), data' = [data EXCEPT ![fd1] = @ \o new],
               \A j \in 1..Len(new) : new[j] > Len(meant) \/ Contains(pend, new[j]),
               pend' = <<>>, NEW x \in Sources \cup Sinks, meant' \in {meant, Append(meant, x)}
        PROVE  Grows
    <2> DEFINE u == data[fd1] \o new
    <2>1. /\ u \in Seq(Nat) /\ Len(u) = Len(data[fd1]) + Len(new)
          /\ \A i \in 1..Len(data[fd1]) : u[i] = data[fd1][i]
          /\ \A j \in 1..Len(new) : u[Len(data[fd1]) + j] = new[j]
          /\ \A k \in 1..Len(u) : \/ k \in 1..Len(data[fd1]) /\ u[k] = data[fd1][k]
                                  \/ \E j \in 1..Len(new) : k = Len(data[fd1]) + j /\ u[k] = new[j]
      <3>1. data[fd1] \in Seq(Nat) /\ new \in Seq(Nat) BY <1>1, <1>5
      <3> QED BY <3>1, ItemsConcatenated, Zenon
    <2>2. data'[fd1] = u /\ \A c \in Sources \cup Sinks : c # fd1 => data'[c] = data[c]
      BY <1>1, <1>5
    <2> HIDE DEF u
    <2>3. Len(data[fd1]) \in Nat /\ Len(new) \in Nat BY <1>1
    <2>4. Len(data[fd1]) <= Len(u) BY <2>1, <2>3
    <2>5. \A k \in 1..Len(u) : k > Len(data[fd1]) => u[k] > Len(meant) \/ Contains(pend, u[k])
      <3> SUFFICES ASSUME NEW k \in 1..Len(u), k > Len(data[fd1])
                   PROVE  u[k] > Len(meant) \/ Contains(pend, u[k])
        OBVIOUS
      <3>1. ~(k \in 1..Len(data[fd1])) BY <2>3
      <3>2. PICK j \in 1..Len(new) : u[k] = new[j] BY <2>1, <3>1
      <3> QED BY <1>5, <3>2
    <2>6. ASSUME NEW c \in Sources \cup Sinks
          PROVE  /\ Len(data[c]) <= Len(data'[c])
                 /\ \A i \in 1..Len(data[c]) : data'[c][i] = data[c][i]
                 /\ \A k \in 1..Len(data'[c]) :
                      k > Len(data[c]) => \/ data'[c][k] > Len(meant)
                                          \/ c = fd1 /\ Contains(pend, data'[c][k])
      <3>1. CASE c = fd1 BY <2>1, <2>2, <2>4, <2>5, <3>1
      <3>2. CASE c # fd1
        <4>1. data'[c] = data[c] /\ Len(data[c]) \in Nat BY <1>1, <2>2, <3>2
        <4> QED BY <4>1
      <3> QED BY <3>1, <3>2
    <2>7. Len(meant) <= Len(meant') /\ \A i \in 1..Len(meant) : meant'[i] = meant[i]
      <3>1. CASE meant' = meant BY <1>1, <3>1
      <3>2. CASE meant' = Append(meant, x) BY <1>1, <3>2
      <3> QED BY <1>5, <3>1, <3>2
    <2>8. \A j \in 1..Len(pend') : FALSE BY <1>3, <1>5
    <2> QED BY <2>6, <2>7, <2>8 DEF Grows
  <1>6. ASSUME data' = [data EXCEPT ![fd1] = @ \o pend], pend' = <<>>, meant' = meant PROVE Grows
    BY <1>1, <1>2, <1>5, <1>6
  <1>7. /\ Append(pend, NewItem) \in Seq(Nat)
        /\ \A j \in 1..Len(Append(pend, NewItem)) :
             \/ Append(pend, NewItem)[j] > Len(meant)
             \/ Contains(pend, Append(pend, NewItem)[j])
    BY <1>1 DEF NewItem, Contains
  <1>8. ASSUME NEW c \in Channels, Redirect(c) PROVE Grows
    <2>1. pend = <<>> /\ pend' = pend /\ data[c] = <<>> /\ c \in Sources \cup Sinks
      BY <1>8 DEF Redirect, stdio, WrittenInv, Unused, Sources
    <2>2. PICK n \in 0..(MaxItems - Len(meant)) :
                 /\ data' = [data EXCEPT ![c] = [i \in 1..n |-> Len(meant) + i]]
                 /\ meant' = meant \o [i \in 1..n |-> c]
      BY <1>8 DEF Redirect
    <2> DEFINE t == [i \in 1..n |-> Len(meant) + i]
               x == [i \in 1..n |-> c]
    <2>3. n \in Nat BY <1>1, <2>2
    <2>4. t \in Seq(Nat) /\ Len(t) = n /\ \A i \in 1..n : t[i] > Len(meant) BY <1>1, <2>3
    <2>5. x \in Seq(Sources \cup Sinks) /\ Len(x) = n BY <2>1, <2>3
    <2> HIDE DEF t, x
    <2>6. /\ Len(meant') = Len(meant) + n /\ \A i \in 1..Len(meant) : meant'[i] = meant[i]
      BY <1>1, <2>2, <2>5, Concatenated DEF x
    <2>7. data'[c] = t /\ \A b \in Sources \cup Sinks : b # c => data'[b] = data[b]
      BY <1>1, <2>1, <2>2 DEF t
    <2>8. Len(data[c]) = 0 BY <2>1
    <2>9. ASSUME NEW b \in Sources \cup Sinks
          PROVE  /\ Len(data[b]) <= Len(data'[b])
                 /\ \A i \in 1..Len(data[b]) : data'[b][i] = data[b][i]
                 /\ \A k \in 1..Len(data'[b]) :
                      k > Len(data[b]) => \/ data'[b][k] > Len(meant)
                                          \/ b = fd1 /\ Contains(pend, data'[b][k])
      <3>1. CASE b = c BY <2>3, <2>4, <2>7, <2>8, <3>1
      <3>2. CASE b # c
        <4>1. data'[b] = data[b] /\ Len(data[b]) \in Nat BY <1>1, <2>7, <3>2
        <4> QED BY <4>1
      <3> QED BY <3>1, <3>2
    <2>10. \A j \in 1..Len(pend') : FALSE BY <1>3, <2>1
    <2>11. Len(meant) <= Len(meant') BY <1>1, <2>3, <2>6
    <2> QED BY <2>6, <2>9, <2>10, <2>11 DEF Grows
  <1>9. ASSUME NEW c \in Channels, Pipeline(c) \/ NextStage(c) \/ Substitute(c) PROVE Grows
    BY <1>4, <1>9 DEF Pipeline, NextStage, Substitute, stdio, ghosts, WrittenInv
  <1>10. CASE LastStage \/ EndInput
    BY <1>4, <1>10 DEF LastStage, EndInput, stdio, ghosts, WrittenInv
  <1>11. CASE EndSubstitute \/ Return \/ Shut \/ Close
    BY <1>6, <1>11 DEF EndSubstitute, Return, Shut, Close, Leave
  <1>12. ASSUME NEW t \in Tools, Begin(t) PROVE Grows
    BY <1>4, <1>12 DEF Begin, descriptors, ghosts
  <1>13. CASE GetBuffered \/ GetFill \/ GetEnd \/ ReadDescriptor \/ ReadEnd
    BY <1>4, <1>13
       DEF GetBuffered, GetFill, GetEnd, ReadDescriptor, ReadEnd, descriptors, stdio, ghosts
  <1>14. CASE Put
    <2>1. meant' = Append(meant, fd1) /\ fd1' = fd1
      BY <1>1, <1>14 DEF Put, descriptors
    <2>2. CASE pend' = Append(pend, NewItem) /\ UNCHANGED data
      <3>1. Len(meant) <= Len(meant') /\ \A i \in 1..Len(meant) : meant'[i] = meant[i]
        BY <1>1, <2>1
      <3>2. \A c \in Sources \cup Sinks :
              /\ Len(data[c]) <= Len(data'[c])
              /\ \A i \in 1..Len(data[c]) : data'[c][i] = data[c][i]
              /\ \A k \in 1..Len(data'[c]) :
                   k > Len(data[c]) => data'[c][k] > Len(meant) \/ (c = fd1 /\ Contains(pend, data'[c][k]))
        BY <1>1, <2>2
      <3>3. \A j \in 1..Len(pend') : pend'[j] > Len(meant) \/ (fd1' = fd1 /\ Contains(pend, pend'[j]))
        BY <1>7, <2>1, <2>2
      <3> QED BY <3>1, <3>2, <3>3 DEF Grows
    <2>3. CASE pend' = <<>> /\ data' = [data EXCEPT ![fd1] = @ \o Append(pend, NewItem)]
      BY <1>1, <1>5, <1>7, <2>1, <2>3
    <2> QED BY <1>14, <2>2, <2>3 DEF Put
  <1>15. CASE WriteAll
    <2>1. /\ meant' = Append(meant, fd1) /\ pend' = <<>>
          /\ data' = [data EXCEPT ![fd1] = @ \o Append(pend, NewItem)]
      BY <1>1, <1>15 DEF WriteAll
    <2> QED BY <1>1, <1>5, <1>7, <2>1
  <1>16. CASE UNCHANGED vars
    BY <1>4, <1>16 DEF vars
  <1> QED
    BY <1>8, <1>9, <1>10, <1>11, <1>12, <1>13, <1>14, <1>15, <1>16 DEF Next

\* The items m to n of a sequence.
LEMMA Piece ==
    \A s \in Seq(Nat) : \A m \in Nat \ {0} : \A n \in 0..Len(s) :
        m <= n + 1 =>
          /\ SubSeq(s, m, n) \in Seq(Nat)
          /\ Len(SubSeq(s, m, n)) = n - m + 1
          /\ \A i \in 1..(n - m + 1) : SubSeq(s, m, n)[i] = s[m + i - 1]
  <1> SUFFICES ASSUME NEW s \in Seq(Nat), NEW m \in Nat \ {0}, NEW n \in 0..Len(s), m <= n + 1
               PROVE  /\ SubSeq(s, m, n) \in Seq(Nat)
                      /\ Len(SubSeq(s, m, n)) = n - m + 1
                      /\ \A i \in 1..(n - m + 1) : SubSeq(s, m, n)[i] = s[m + i - 1]
    OBVIOUS
  <1>1. m \in Int /\ n \in Int /\ Len(s) \in Nat OBVIOUS
  <1>2. \A i \in m..n : s[i] \in Nat BY <1>1
  <1>3. /\ SubSeq(s, m, n) \in Seq(Nat)
        /\ Len(SubSeq(s, m, n)) = IF m <= n THEN n - m + 1 ELSE 0
        /\ \A i \in 1..(n - m + 1) : SubSeq(s, m, n)[i] = s[m + i - 1]
    BY <1>1, <1>2, SubSeqProperties
  <1>4. (IF m <= n THEN n - m + 1 ELSE 0) = n - m + 1 BY <1>1
  <1> QED BY <1>3, <1>4, Zenon

\* What descriptor 0 has not delivered yet.
LEMMA UnreadItems ==
    ASSUME WrittenInv, HandedInv, fd0 \in Sources \cup {Closed}
    PROVE  /\ Unread \in Seq(Nat) /\ Len(Unread) \in Nat
           /\ Unread # <<>> => fd0 # Closed
           /\ fd0 # Closed => /\ fd0 \in Sources
                              /\ Len(Unread) = Len(data[fd0]) - pos[fd0]
                              /\ \A i \in 1..Len(Unread) : Unread[i] = data[fd0][pos[fd0] + i]
  <1>1. CASE fd0 = Closed
    <2>1. Unread = <<>> BY <1>1 DEF Unread
    <2> QED BY <1>1, <2>1
  <1>2. CASE fd0 # Closed
    <2> DEFINE s == data[fd0]
               p == pos[fd0]
    <2>1. fd0 \in Sources /\ s \in Seq(Nat) /\ p \in Nat /\ p <= Len(s) /\ Len(s) \in Nat
      BY <1>2 DEF WrittenInv, WrittenTo, HandedInv
    <2>2. Unread = SubSeq(s, p + 1, Len(s)) BY <1>2 DEF Unread
    <2> HIDE DEF s, p
    <2>3. p + 1 \in Nat \ {0} /\ Len(s) \in 0..Len(s) /\ p + 1 <= Len(s) + 1 BY <2>1
    <2>4. /\ Unread \in Seq(Nat) /\ Len(Unread) = Len(s) - (p + 1) + 1
          /\ \A i \in 1..(Len(s) - (p + 1) + 1) : Unread[i] = s[p + 1 + i - 1]
      BY <2>1, <2>2, <2>3, Piece, Zenon
    <2>5. Len(s) - (p + 1) + 1 = Len(s) - p /\ \A i \in Nat : p + 1 + i - 1 = p + i BY <2>1
    <2>6. \A i \in 1..Len(Unread) : i \in Nat OBVIOUS
    <2>7. \A i \in 1..Len(Unread) : Unread[i] = s[p + i] BY <2>4, <2>5, <2>6
    <2> QED BY <1>2, <2>1, <2>4, <2>5, <2>7 DEF s, p
  <1> QED BY <1>1, <1>2

\* The descriptors, the types of the items and what the script gives to the
\* commands of the frame the shell is in.
LEMMA Facts ==
    ASSUME DescriptorInv, WrittenInv, HandedInv
    PROVE  /\ Scope.in \in Sources /\ Scope.out \in Sinks /\ Scope.in # Scope.out
           /\ fd0 \in {Scope.in, Closed} /\ fd0 \in Sources \cup {Closed}
           /\ fd1 = Scope.out /\ fd1 \in Sinks
           /\ Closed \notin Sources /\ "none" \notin Embedded
           /\ Streaming \subseteq Embedded /\ "zsh" \notin Embedded /\ "fd" \notin Streaming
           /\ data \in [Sources \cup Sinks -> Seq(Nat)] /\ meant \in Seq(Sources \cup Sinks)
           /\ pend \in Seq(Nat) /\ buf \in Seq(Nat) /\ got \in [Sources -> Seq(Nat)]
           /\ pos \in [Sources -> Nat]
           /\ Len(meant) \in Nat /\ Len(buf) \in Nat
           /\ \A c \in Sources \cup Sinks : data[c] \in Seq(Nat) /\ Len(data[c]) \in Nat
           /\ \A c \in Sources : got[c] \in Seq(Nat) /\ Len(got[c]) \in Nat /\ pos[c] \in Nat
  <1>1. /\ Scope.in \in Sources /\ Scope.out \in Sinks /\ Scope.in # Scope.out
        /\ fd0 \in {Scope.in, Closed} /\ fd1 = Scope.out
    BY FrameFacts DEF DescriptorInv, ScopedDescriptors, Scope
  <1>2. /\ Closed \notin Sources /\ "none" \notin Embedded
        /\ Streaming \subseteq Embedded /\ "zsh" \notin Embedded /\ "fd" \notin Streaming
    BY StreamsAssumption DEF Sources, Embedded, Streaming
  <1>3. /\ data \in [Sources \cup Sinks -> Seq(Nat)] /\ meant \in Seq(Sources \cup Sinks)
        /\ pend \in Seq(Nat) /\ buf \in Seq(Nat) /\ got \in [Sources -> Seq(Nat)]
        /\ pos \in [Sources -> Nat]
    BY DEF WrittenInv, WrittenTo, HandedInv
  <1>4. /\ \A c \in Sources \cup Sinks : data[c] \in Seq(Nat) /\ Len(data[c]) \in Nat
        /\ \A c \in Sources : got[c] \in Seq(Nat) /\ Len(got[c]) \in Nat /\ pos[c] \in Nat
        /\ Len(meant) \in Nat /\ Len(buf) \in Nat
    BY <1>3
  <1> QED BY <1>1, <1>2, <1>3, <1>4

\* getc() and getline() with something in the buffer.
LEMMA GetBufferedReads ==
    ASSUME StreamInv, GetBuffered
    PROVE  Reads(<<Head(buf)>>)
  <1> DEFINE s == <<Head(buf)>>
  <1>1. /\ buf # <<>> /\ buf' = Tail(buf) /\ got' = [got EXCEPT ![Scope.in] = @ \o s]
        /\ UNCHANGED <<descriptors, data, pos, tool, told, eof, pend, meant, left>>
        /\ tool \in Streaming
    BY DEF GetBuffered, Hand
  <1>2. /\ buf \in Seq(Nat) /\ Len(buf) \in Nat \ {0} /\ Head(buf) = buf[1] /\ buf[1] \in Nat
        /\ Tail(buf) \in Seq(Nat) /\ Len(Tail(buf)) = Len(buf) - 1
        /\ \A i \in 1..(Len(buf) - 1) : Tail(buf)[i] = buf[i + 1]
    BY <1>1 DEF StreamInv, HandedInv
  <1>3. s \in Seq(Nat) /\ Len(s) = 1 /\ s[1] = buf[1] BY <1>2
  <1> HIDE DEF s
  <1>4. tool \in Embedded /\ fd0 \in {Scope.in, Closed} /\ Closed \notin Sources
        /\ \A c \in Sources : pos[c] \in Nat
    BY <1>1, Facts DEF StreamInv
  <1>5. /\ \A i \in 1..Len(buf) : buf[i] \in 1..Len(meant) /\ meant[buf[i]] = Scope.in
        /\ \A c \in Sources : pos[c] <= Len(data[c])
        /\ pos \in [Sources -> Nat]
    BY <1>4 DEF StreamInv, HandedInv
  <1>6. 1 \in 1..Len(buf) /\ \A i \in 1..Len(buf') : i + 1 \in 1..Len(buf) /\ buf'[i] = buf[i + 1]
    BY <1>1, <1>2
  <1>7. /\ \A i \in 1..Len(s) : s[i] \in 1..Len(meant) /\ meant[s[i]] = Scope.in
        /\ \A i \in 1..Len(buf') : buf'[i] \in 1..Len(meant) /\ meant[buf'[i]] = Scope.in
    BY <1>3, <1>5, <1>6
  <1>8. ASSUME ~left
        PROVE  /\ fd0 \in Sources
               /\ Len(buf') <= pos'[fd0]
               /\ pos'[fd0] - Len(buf') = Reached(fd0) + Len(s)
               /\ Reached(fd0) \in Nat
               /\ \A i \in 1..Len(s) : s[i] = data[fd0][Reached(fd0) + i]
               /\ \A i \in 1..Len(buf') : buf'[i] = data[fd0][pos'[fd0] - Len(buf') + i]
    <2>1. /\ fd0 \in Sources /\ Len(buf) <= pos[fd0] /\ Reached(fd0) = pos[fd0] - Len(buf)
          /\ \A i \in 1..Len(buf) : buf[i] = data[fd0][pos[fd0] - Len(buf) + i]
      BY <1>1, <1>8 DEF StreamInv, OnceInv, Reached
    <2>2. pos[fd0] \in Nat /\ pos' = pos /\ Len(buf') = Len(buf) - 1 BY <1>1, <1>2, <1>4, <2>1
    <2>3. pos'[fd0] - Len(buf') = Reached(fd0) + 1 /\ Reached(fd0) \in Nat /\ Len(buf') <= pos'[fd0]
      BY <1>2, <2>1, <2>2
    <2>4. \A i \in 1..Len(buf') : buf'[i] = data[fd0][pos'[fd0] - Len(buf') + i]
      <3> SUFFICES ASSUME NEW i \in 1..Len(buf')
                   PROVE  buf'[i] = data[fd0][pos'[fd0] - Len(buf') + i]
        OBVIOUS
      <3>1. buf'[i] = data[fd0][pos[fd0] - Len(buf) + (i + 1)] BY <1>6, <2>1
      <3>2. pos[fd0] - Len(buf) + (i + 1) = pos'[fd0] - Len(buf') + i BY SMTT(20), <1>2, <2>2
      <3> QED BY <3>1, <3>2
    <2>5. s[1] = data[fd0][Reached(fd0) + 1] BY <1>3, <1>6, <2>1
    <2> QED BY <1>3, <2>1, <2>3, <2>4, <2>5
  <1>9. ~left => \A c \in Sources : c # fd0 => pos'[c] = pos[c] BY <1>1
  <1>10. buf' \in Seq(Nat) /\ pos' \in [Sources -> Nat] /\ \A c \in Sources : pos'[c] <= Len(data[c])
    BY <1>1, <1>2, <1>5
  <1>11. Reads(s) BY <1>1, <1>3, <1>7, <1>8, <1>9, <1>10 DEF Reads
  <1> QED BY <1>11 DEF s

\* getc() and getline() that fill the buffer.
LEMMA GetFillReads ==
    ASSUME StreamInv, GetFill
    PROVE  Reads(<<Head(Unread)>>)
  <1> DEFINE s == <<Head(Unread)>>
  <1>1. PICK n \in 1..Len(Unread) : buf' = SubSeq(Unread, 2, n) /\ pos' = [pos EXCEPT ![fd0] = @ + n]
    BY DEF GetFill
  <1>2. /\ buf = <<>> /\ got' = [got EXCEPT ![Scope.in] = @ \o s]
        /\ UNCHANGED <<descriptors, data, tool, told, eof, pend, meant, left>>
        /\ tool \in Streaming
    BY DEF GetFill, Hand
  <1>3. /\ fd0 \in Sources \cup {Closed} /\ fd0 \in {Scope.in, Closed} /\ Closed \notin Sources
        /\ pos \in [Sources -> Nat] /\ data \in [Sources \cup Sinks -> Seq(Nat)]
        /\ \A c \in Sources : pos[c] \in Nat /\ Len(data[c]) \in Nat /\ pos[c] <= Len(data[c])
    BY Facts DEF StreamInv, HandedInv
  <1>4. Unread \in Seq(Nat) /\ Len(Unread) \in Nat BY <1>3, UnreadItems DEF StreamInv
  <1>5. Unread # <<>> BY <1>1, <1>4
  <1>6. /\ fd0 \in Sources /\ fd0 = Scope.in
        /\ Len(Unread) = Len(data[fd0]) - pos[fd0]
        /\ \A i \in 1..Len(Unread) : Unread[i] = data[fd0][pos[fd0] + i]
    BY <1>3, <1>5, UnreadItems DEF StreamInv
  <1>7. s \in Seq(Nat) /\ Len(s) = 1 /\ s[1] = Unread[1] BY <1>1, <1>4, <1>5
  <1> HIDE DEF s
  <1>8. /\ buf' \in Seq(Nat) /\ Len(buf') = n - 1
        /\ \A i \in 1..(n - 1) : buf'[i] = Unread[i + 1]
    <2>1. 2 \in Nat \ {0} /\ n \in 0..Len(Unread) /\ 2 <= n + 1 BY <1>1, <1>4
    <2>2. /\ buf' \in Seq(Nat) /\ Len(buf') = n - 2 + 1
          /\ \A i \in 1..(n - 2 + 1) : buf'[i] = Unread[2 + i - 1]
      BY <1>1, <1>4, <2>1, Piece, Zenon
    <2>3. n - 2 + 1 = n - 1 /\ \A i \in 1..(n - 1) : 2 + i - 1 = i + 1 BY <2>1
    <2> QED BY <2>2, <2>3
  <1>9. /\ 1 \in 1..Len(Unread)
        /\ \A i \in 1..(n - 1) : i + 1 \in 1..Len(Unread)
    BY <1>1, <1>4
  <1>10. \A i \in 1..Len(Unread) : pos[fd0] + i \in 1..Len(data[fd0]) BY SMTT(20), <1>3, <1>6
  <1>11. \A i \in 1..Len(Unread) : Unread[i] \in 1..Len(meant) /\ meant[Unread[i]] = Scope.in
    <2>1. \A k \in 1..Len(data[fd0]) : data[fd0][k] \in 1..Len(meant) /\ meant[data[fd0][k]] = fd0
      BY <1>6 DEF StreamInv, WrittenInv, WrittenTo
    <2> SUFFICES ASSUME NEW i \in 1..Len(Unread)
                 PROVE  Unread[i] \in 1..Len(meant) /\ meant[Unread[i]] = Scope.in
      OBVIOUS
    <2>2. Unread[i] = data[fd0][pos[fd0] + i] /\ pos[fd0] + i \in 1..Len(data[fd0])
      BY <1>6, <1>10
    <2> QED BY <1>6, <2>1, <2>2
  <1>12. /\ \A i \in 1..Len(s) : s[i] \in 1..Len(meant) /\ meant[s[i]] = Scope.in
         /\ \A i \in 1..Len(buf') : buf'[i] \in 1..Len(meant) /\ meant[buf'[i]] = Scope.in
    <2>1. \A i \in 1..Len(s) : i = 1 BY <1>7
    <2>2. \A i \in 1..Len(buf') : i \in 1..(n - 1) BY <1>8
    <2>3. \A i \in 1..Len(buf') : buf'[i] = Unread[i + 1] /\ i + 1 \in 1..Len(Unread)
      BY <1>8, <1>9, <2>2
    <2> QED BY <1>7, <1>9, <1>11, <2>1, <2>3
  <1>13. /\ pos' \in [Sources -> Nat] /\ pos'[fd0] = pos[fd0] + n
         /\ \A c \in Sources : c # fd0 => pos'[c] = pos[c]
    BY SMTT(20), <1>1, <1>3, <1>4, <1>6
  <1>14. \A c \in Sources : pos'[c] <= Len(data[c])
    <2>1. pos'[fd0] <= Len(data[fd0]) BY <1>1, <1>3, <1>4, <1>6, <1>13
    <2> QED BY <1>3, <1>13, <2>1
  <1>15. /\ Reached(fd0) = pos[fd0] /\ Reached(fd0) \in Nat
         /\ pos'[fd0] - Len(buf') = Reached(fd0) + Len(s)
         /\ Len(buf') <= pos'[fd0]
    <2>1. Len(buf) = 0 /\ pos[fd0] \in Nat BY <1>2, <1>3, <1>6
    <2> QED BY <1>1, <1>4, <1>7, <1>8, <1>13, <2>1 DEF Reached
  <1>16. \A i \in 1..Len(s) : s[i] = data[fd0][Reached(fd0) + i]
    BY <1>6, <1>7, <1>9, <1>15
  <1>17. \A i \in 1..Len(buf') : buf'[i] = data[fd0][pos'[fd0] - Len(buf') + i]
    <2> SUFFICES ASSUME NEW i \in 1..Len(buf')
                 PROVE  buf'[i] = data[fd0][pos'[fd0] - Len(buf') + i]
      OBVIOUS
    <2>1. buf'[i] = data[fd0][pos[fd0] + (i + 1)] BY <1>6, <1>8, <1>9
    <2>2. pos[fd0] + (i + 1) = pos'[fd0] - Len(buf') + i 
      <3>1. i \in Nat /\ pos[fd0] \in Nat /\ Len(buf') \in Nat /\ pos'[fd0] \in Nat
        BY <1>3, <1>6, <1>8, <1>13
      <3>2. pos'[fd0] - Len(buf') = pos[fd0] + 1 BY <1>7, <1>15
      <3> QED BY <3>1, <3>2
    <2> QED BY <2>1, <2>2
  <1>18. Reads(s)
    BY <1>2, <1>6, <1>7, <1>8, <1>12, <1>13, <1>14, <1>15, <1>16, <1>17 DEF Reads
  <1> QED BY <1>18 DEF s

\* read(0, ...) hands over what it gets.
LEMMA ReadDescriptorReads ==
    ASSUME StreamInv, ReadDescriptor
    PROVE  \E s : Reads(s)
  <1>1. PICK n \in 1..Len(Unread) : /\ Hand(SubSeq(Unread, 1, n))
                                    /\ pos' = [pos EXCEPT ![fd0] = @ + n]
    BY DEF ReadDescriptor
  <1> DEFINE s == SubSeq(Unread, 1, n)
  <1>2. /\ got' = [got EXCEPT ![Scope.in] = @ \o s]
        /\ UNCHANGED <<descriptors, data, tool, told, buf, eof, pend, meant, left>>
        /\ tool \in {"fd", "zsh"}
    BY <1>1 DEF ReadDescriptor, Hand, stdio
  <1>3. /\ fd0 \in Sources \cup {Closed} /\ fd0 \in {Scope.in, Closed} /\ Closed \notin Sources
        /\ pos \in [Sources -> Nat] /\ data \in [Sources \cup Sinks -> Seq(Nat)]
        /\ \A c \in Sources : pos[c] \in Nat /\ Len(data[c]) \in Nat /\ pos[c] <= Len(data[c])
        /\ tool \notin Streaming /\ buf \in Seq(Nat)
    BY <1>2, Facts DEF StreamInv, HandedInv, Streaming
  <1>4. Unread \in Seq(Nat) /\ Len(Unread) \in Nat BY <1>3, UnreadItems DEF StreamInv
  <1>5. Unread # <<>> BY <1>1, <1>4
  <1>6. /\ fd0 \in Sources /\ fd0 = Scope.in
        /\ Len(Unread) = Len(data[fd0]) - pos[fd0]
        /\ \A i \in 1..Len(Unread) : Unread[i] = data[fd0][pos[fd0] + i]
    BY <1>3, <1>5, UnreadItems DEF StreamInv
  <1>7. s \in Seq(Nat) /\ Len(s) = n /\ \A i \in 1..n : s[i] = Unread[i]
    <2>1. 1 \in Nat \ {0} /\ n \in 0..Len(Unread) /\ 1 <= n + 1 BY <1>1, <1>4
    <2>2. /\ s \in Seq(Nat) /\ Len(s) = n - 1 + 1
          /\ \A i \in 1..(n - 1 + 1) : s[i] = Unread[1 + i - 1]
      BY <1>4, <2>1, Piece, Zenon
    <2> HIDE DEF s
    <2>3. n - 1 + 1 = n /\ \A i \in 1..n : 1 + i - 1 = i BY <2>1
    <2> QED BY <2>2, <2>3
  <1> HIDE DEF s
  <1>8. \A i \in 1..n : /\ i \in 1..Len(Unread)
                        /\ pos[fd0] + i \in 1..Len(data[fd0])
    <2>1. pos[fd0] \in Nat /\ Len(data[fd0]) \in Nat /\ n \in 1..Len(Unread) BY <1>1, <1>3, <1>6
    <2>2. n <= Len(data[fd0]) - pos[fd0] /\ n \in Nat BY <1>4, <1>6, <2>1
    <2>3. ASSUME NEW i \in 1..n PROVE i \in 1..Len(Unread) /\ pos[fd0] + i \in 1..Len(data[fd0])
      BY <2>1, <2>2
    <2> QED BY <2>3
  <1>9. \A i \in 1..Len(s) : /\ s[i] = data[fd0][pos[fd0] + i]
                             /\ s[i] \in 1..Len(meant) /\ meant[s[i]] = Scope.in
    <2>1. \A k \in 1..Len(data[fd0]) : data[fd0][k] \in 1..Len(meant) /\ meant[data[fd0][k]] = fd0
      BY <1>6 DEF StreamInv, WrittenInv, WrittenTo
    <2> SUFFICES ASSUME NEW i \in 1..Len(s)
                 PROVE  /\ s[i] = data[fd0][pos[fd0] + i]
                        /\ s[i] \in 1..Len(meant) /\ meant[s[i]] = Scope.in
      OBVIOUS
    <2>2. i \in 1..n /\ s[i] = Unread[i] BY <1>7
    <2>3. Unread[i] = data[fd0][pos[fd0] + i] /\ pos[fd0] + i \in 1..Len(data[fd0])
      BY <1>6, <1>8, <2>2
    <2> QED BY <1>6, <2>1, <2>2, <2>3
  <1>10. /\ pos' \in [Sources -> Nat] /\ pos'[fd0] = pos[fd0] + n
         /\ \A c \in Sources : c # fd0 => pos'[c] = pos[c]
    BY SMTT(20), <1>1, <1>3, <1>4, <1>6
  <1>11. \A c \in Sources : pos'[c] <= Len(data[c])
    <2>1. pos'[fd0] <= Len(data[fd0]) BY <1>1, <1>3, <1>4, <1>6, <1>10
    <2> QED BY <1>3, <1>10, <2>1
  <1>12. /\ buf' \in Seq(Nat)
         /\ \A i \in 1..Len(buf') : buf'[i] \in 1..Len(meant)
         /\ tool \in Embedded => \A i \in 1..Len(buf') : meant[buf'[i]] = Scope.in
    BY <1>2 DEF StreamInv, HandedInv
  <1>13. ASSUME ~left
         PROVE  /\ buf' = <<>> /\ Len(buf') = 0 /\ Len(buf') <= pos'[fd0]
                /\ Reached(fd0) = pos[fd0] /\ Reached(fd0) \in Nat
                /\ pos'[fd0] - Len(buf') = Reached(fd0) + Len(s)
    <2>1. buf = <<>> /\ Len(buf) = 0 /\ pos[fd0] \in Nat
      BY <1>3, <1>6, <1>13 DEF StreamInv, OnceInv
    <2> QED BY <1>1, <1>2, <1>4, <1>7, <1>10, <2>1 DEF Reached
  <1>14. ASSUME ~left
         PROVE  /\ \A i \in 1..Len(s) : s[i] = data[fd0][Reached(fd0) + i]
                /\ \A i \in 1..Len(buf') : buf'[i] = data[fd0][pos'[fd0] - Len(buf') + i]
    <2>1. \A i \in 1..Len(buf') : FALSE BY <1>13, <1>14
    <2> QED BY <1>9, <1>13, <1>14, <2>1
  <1>15. Reads(s)
    BY <1>2, <1>6, <1>7, <1>9, <1>10, <1>11, <1>12, <1>13, <1>14 DEF Reads
  <1> QED BY <1>15

\* The seek of fflush(stdin) stays inside the channel, and behind what has
\* been handed out.
LEMMA GivenBack ==
    ASSUME StreamInv, GiveBack
    PROVE  /\ buf' = <<>> /\ pos' \in [Sources -> Nat]
           /\ \A c \in Sources : pos'[c] <= Len(data[c])
           /\ ~left => \A c \in Sources : Reached(c) <= pos'[c]
  <1>1. /\ pos \in [Sources -> Nat] /\ Len(buf) \in Nat /\ fd0 \in Sources \cup {Closed}
        /\ Closed \notin Sources
        /\ \A c \in Sources : pos[c] \in Nat /\ Len(data[c]) \in Nat /\ pos[c] <= Len(data[c])
    BY Facts DEF StreamInv, HandedInv
  <1>2. CASE fd0 \in Channels /\ Len(buf) <= pos[fd0]
    <2>1. buf' = <<>> /\ pos' = [pos EXCEPT ![fd0] = @ - Len(buf)] /\ fd0 \in Sources
      BY <1>2 DEF GiveBack, Sources
    <2>2. pos[fd0] - Len(buf) \in Nat /\ pos[fd0] - Len(buf) <= pos[fd0] BY <1>1, <1>2, <2>1
    <2>3. /\ pos' \in [Sources -> Nat] /\ pos'[fd0] = pos[fd0] - Len(buf)
          /\ \A c \in Sources : c # fd0 => pos'[c] = pos[c]
      BY <1>1, <2>1, <2>2
    <2>4. \A c \in Sources : pos'[c] <= Len(data[c])
      <3>1. pos'[fd0] <= Len(data[fd0]) BY <1>1, <2>1, <2>2, <2>3
      <3> QED BY <1>1, <2>3, <3>1
    <2>5. \A c \in Sources : Reached(c) <= pos'[c]
      <3>1. \A c \in Sources : Reached(c) = pos'[c] /\ pos'[c] \in Nat BY <2>3 DEF Reached
      <3> QED BY <3>1
    <2> QED BY <2>1, <2>3, <2>4, <2>5
  <1>3. CASE ~(fd0 \in Channels /\ Len(buf) <= pos[fd0])
    <2>1. buf' = <<>> /\ pos' = pos BY <1>3 DEF GiveBack
    <2>2. \A c \in Sources : Reached(c) <= pos'[c] BY <1>1, <2>1 DEF Reached
    <2> QED BY <1>1, <2>1, <2>2
  <1> QED BY <1>2, <1>3

\* A step that hands nothing to a command.
LEMMA HandedSame ==
    ASSUME StreamInv, WrittenInv', Grows, got' = got,
           pos' \in [Sources -> Nat], \A c \in Sources : pos'[c] <= Len(data[c]),
           \/ buf' = <<>>
           \/ buf' = buf /\ tool' \notin Embedded
           \/ buf' = buf /\ tool \in Embedded /\ frames' = frames
    PROVE  HandedInv'
  <1>1. /\ Len(meant) \in Nat /\ buf \in Seq(Nat) /\ got \in [Sources -> Seq(Nat)]
        /\ \A c \in Sources : Len(data[c]) \in Nat /\ pos'[c] \in Nat /\ c \in Sources \cup Sinks
    BY Facts DEF StreamInv
  <1>2. /\ Len(meant') \in Nat /\ \A c \in Sources : Len(data'[c]) \in Nat
        /\ \A j \in 1..Len(pend') : pend'[j] \in Nat
    <2>1. /\ data' \in [Sources \cup Sinks -> Seq(Nat)] /\ pend' \in Seq(Nat)
          /\ meant' \in Seq(Sources \cup Sinks)
      BY DEF WrittenInv, WrittenTo
    <2> QED BY <2>1
  <1>3. /\ Len(meant) <= Len(meant') /\ \A i \in 1..Len(meant) : meant'[i] = meant[i]
        /\ \A c \in Sources \cup Sinks : Len(data[c]) <= Len(data'[c])
        /\ \A j \in 1..Len(pend') : pend'[j] > Len(meant) \/ (fd1' = fd1 /\ Contains(pend, pend'[j]))
    BY DEF Grows
  <1>4. \A i \in 1..Len(meant) : i \in 1..Len(meant') /\ meant'[i] = meant[i]
    BY <1>1, <1>3, <1>2
  <1>5. \A c \in Sources : \A i \in 1..Len(got[c]) : got[c][i] \in 1..Len(meant) /\ meant[got[c][i]] = c
    BY DEF StreamInv, HandedInv
  <1>6. \A c \in Sources : \A i \in 1..Len(got'[c]) : got'[c][i] \in 1..Len(meant') /\ meant'[got'[c][i]] = c
    BY <1>4, <1>5
  <1>7. ASSUME NEW c \in Sources, c = fd1', NEW i \in 1..Len(got'[c]), NEW j \in 1..Len(pend')
        PROVE  got'[c][i] < pend'[j]
    <2>1. got[c][i] \in 1..Len(meant) BY <1>5
    <2>2. CASE pend'[j] > Len(meant) BY SMTT(20), <1>1, <1>2, <2>1, <2>2
    <2>3. CASE fd1' = fd1 /\ Contains(pend, pend'[j])
      <3>1. PICK k \in 1..Len(pend) : pend[k] = pend'[j] BY <2>3 DEF Contains
      <3>2. got[c][i] < pend[k] BY <1>7, <2>3 DEF StreamInv, HandedInv
      <3> QED BY <3>1, <3>2
    <2> QED BY <1>3, <2>2, <2>3
  <1>8. /\ buf' \in Seq(Nat)
        /\ \A i \in 1..Len(buf') : buf'[i] \in 1..Len(meant')
        /\ tool' \in Embedded => \A i \in 1..Len(buf') : meant'[buf'[i]] = Scope'.in
    <2>1. CASE buf' = <<>>
      <3>1. \A i \in 1..Len(buf') : FALSE BY <2>1
      <3> QED BY <2>1, <3>1
    <2>2. CASE buf' = buf
      <3>1. \A i \in 1..Len(buf) : buf[i] \in 1..Len(meant) BY DEF StreamInv, HandedInv
      <3>2. tool \in Embedded => \A i \in 1..Len(buf) : meant[buf[i]] = Scope.in
        BY DEF StreamInv, HandedInv
      <3>3. CASE tool' \notin Embedded BY <1>1, <1>4, <2>2, <3>1, <3>3
      <3>4. CASE tool \in Embedded /\ frames' = frames
        <4>1. Scope' = Scope BY <3>4 DEF Scope
        <4> QED BY <1>1, <1>4, <2>2, <3>1, <3>2, <3>4, <4>1
      <3>5. CASE buf = <<>>
        <4>1. \A i \in 1..Len(buf') : FALSE BY <2>2, <3>5
        <4> QED BY <1>1, <2>2, <4>1
      <3> QED BY <2>2, <3>3, <3>4, <3>5
    <2> QED BY <2>1, <2>2
  <1>9. \A c \in Sources : pos'[c] <= Len(data'[c])
    BY <1>1, <1>3, <1>2
  <1> QED BY <1>1, <1>6, <1>7, <1>8, <1>9 DEF HandedInv

\* A step that does.
LEMMA HandedReads ==
    ASSUME StreamInv, NEW s, Reads(s)
    PROVE  HandedInv'
  <1>1. /\ s \in Seq(Nat) /\ buf' \in Seq(Nat) /\ got' = [got EXCEPT ![Scope.in] = @ \o s]
        /\ pos' \in [Sources -> Nat] /\ \A c \in Sources : pos'[c] <= Len(data[c])
        /\ \A i \in 1..Len(s) : s[i] \in 1..Len(meant) /\ meant[s[i]] = Scope.in
        /\ \A i \in 1..Len(buf') : buf'[i] \in 1..Len(meant)
        /\ tool \in Embedded => \A i \in 1..Len(buf') : meant[buf'[i]] = Scope.in
        /\ UNCHANGED <<fd1, frames, data, tool, pend, meant>>
    BY DEF Reads, descriptors
  <1>2. /\ Scope.in \in Sources /\ Scope.in # fd1 /\ got \in [Sources -> Seq(Nat)]
        /\ \A c \in Sources : got[c] \in Seq(Nat)
    BY Facts DEF StreamInv
  <1> DEFINE b == Scope.in
             old == got[b]
             u == old \o s
  <1>3. got' \in [Sources -> Seq(Nat)] /\ got'[b] = u /\ \A c \in Sources : c # b => got'[c] = got[c]
    <2>1. u \in Seq(Nat) BY <1>1, <1>2, ItemsConcatenated, Zenon
    <2> HIDE DEF b
    <2>2. got' = [got EXCEPT ![b] = u] BY <1>1 DEF b
    <2>3. b \in Sources BY <1>2 DEF b
    <2> HIDE DEF u
    <2> QED BY <1>2, <2>1, <2>2, <2>3
  <1>4. \A k \in 1..Len(u) : \/ k \in 1..Len(old) /\ u[k] = old[k]
                             \/ \E j \in 1..Len(s) : k = Len(old) + j /\ u[k] = s[j]
    BY <1>1, <1>2, ItemsConcatenated, Zenon
  <1> HIDE DEF u, b, old
  <1>5. \A c \in Sources : \A i \in 1..Len(got[c]) : got[c][i] \in 1..Len(meant) /\ meant[got[c][i]] = c
    BY DEF StreamInv, HandedInv
  <1>6. \A k \in 1..Len(u) : u[k] \in 1..Len(meant) /\ meant[u[k]] = b
    <2>1. \A k \in 1..Len(old) : old[k] \in 1..Len(meant) /\ meant[old[k]] = b
      BY <1>2, <1>5 DEF old, b
    <2> QED BY SMTT(20), <1>1, <1>4, <2>1 DEF b
  <1>7. \A c \in Sources : \A i \in 1..Len(got'[c]) : got'[c][i] \in 1..Len(meant') /\ meant'[got'[c][i]] = c
    <2> SUFFICES ASSUME NEW c \in Sources
                 PROVE  \A i \in 1..Len(got'[c]) : got'[c][i] \in 1..Len(meant) /\ meant[got'[c][i]] = c
      BY <1>1
    <2>1. CASE c = b BY <1>3, <1>6, <2>1
    <2>2. CASE c # b BY <1>3, <1>5, <2>2
    <2> QED BY <2>1, <2>2
  <1>8. \A c \in Sources : c = fd1' =>
          \A i \in 1..Len(got'[c]) : \A j \in 1..Len(pend') : got'[c][i] < pend'[j]
    <2>1. \A c \in Sources : c = fd1 =>
            \A i \in 1..Len(got[c]) : \A j \in 1..Len(pend) : got[c][i] < pend[j]
      BY DEF StreamInv, HandedInv
    <2>2. b # fd1 BY <1>2 DEF b
    <2> QED BY <1>1, <1>3, <2>1, <2>2
  <1>9. Scope' = Scope BY <1>1 DEF Scope
  <1> QED BY <1>1, <1>3, <1>7, <1>8, <1>9 DEF HandedInv

\* The output of a substituted command is handed out as a whole.
LEMMA HandedSubstitute ==
    ASSUME StreamInv, WrittenInv', Grows, EndSubstitute
    PROVE  HandedInv'
  <1> DEFINE c0 == Scope.out
  <1>1. /\ got' = [got EXCEPT ![c0] = data'[c0]] /\ pos' = [pos EXCEPT ![c0] = Len(data'[c0])]
        /\ pend' = <<>> /\ buf' = buf /\ meant' = meant /\ tool = "none" /\ tool' = "none"
    BY DEF EndSubstitute
  <1>2. /\ data' \in [Sources \cup Sinks -> Seq(Nat)]
        /\ \A c \in Sources \cup Sinks : \A i \in 1..Len(data'[c]) :
             data'[c][i] \in 1..Len(meant') /\ meant'[data'[c][i]] = c
    BY DEF WrittenInv, WrittenTo
  <1>3. /\ c0 \in Sinks /\ "none" \notin Embedded /\ buf \in Seq(Nat)
        /\ got \in [Sources -> Seq(Nat)] /\ pos \in [Sources -> Nat]
        /\ \A c \in Sources : pos[c] \in Nat /\ Len(data[c]) \in Nat
    BY Facts DEF StreamInv
  <1>4. data'[c0] \in Seq(Nat) /\ \A c \in Sources : Len(data'[c]) \in Nat BY <1>2, <1>3
  <1> HIDE DEF c0
  <1>5. /\ got' \in [Sources -> Seq(Nat)] /\ pos' \in [Sources -> Nat]
        /\ \A c \in Sources : c # c0 => got'[c] = got[c] /\ pos'[c] = pos[c]
        /\ \A c \in Sources : c = c0 => got'[c] = data'[c] /\ pos'[c] = Len(data'[c])
    BY <1>1, <1>3, <1>4
  <1>6. \A c \in Sources : pos'[c] <= Len(data'[c])
    <2>1. \A c \in Sources : pos[c] <= Len(data[c]) /\ Len(data[c]) <= Len(data'[c])
      BY DEF StreamInv, HandedInv, Grows
    <2> SUFFICES ASSUME NEW c \in Sources PROVE pos'[c] <= Len(data'[c]) OBVIOUS
    <2>2. Len(data'[c]) \in Nat /\ Len(data[c]) \in Nat /\ pos[c] \in Nat BY <1>3, <1>4
    <2>3. CASE c = c0
      <3>1. pos'[c] = Len(data'[c]) BY <1>5, <2>3
      <3> QED BY <2>2, <3>1
    <2>4. CASE c # c0
      <3>1. pos'[c] = pos[c] BY <1>5, <2>4
      <3>2. pos[c] <= Len(data[c]) /\ Len(data[c]) <= Len(data'[c]) BY <2>1
      <3> QED BY <2>2, <3>1, <3>2
    <2> QED BY <2>3, <2>4
  <1>7. \A c \in Sources : \A i \in 1..Len(got'[c]) : got'[c][i] \in 1..Len(meant') /\ meant'[got'[c][i]] = c
    <2>1. \A c \in Sources : \A i \in 1..Len(got[c]) : got[c][i] \in 1..Len(meant) /\ meant[got[c][i]] = c
      BY DEF StreamInv, HandedInv
    <2> SUFFICES ASSUME NEW c \in Sources
                 PROVE  \A i \in 1..Len(got'[c]) : got'[c][i] \in 1..Len(meant') /\ meant'[got'[c][i]] = c
      OBVIOUS
    <2>2. CASE c = c0
      <3>1. got'[c] = data'[c] /\ c \in Sources \cup Sinks BY <1>5, <2>2
      <3> QED BY <1>2, <3>1
    <2>3. CASE c # c0
      <3>1. got'[c] = got[c] BY <1>5, <2>3
      <3> QED BY <1>1, <2>1, <3>1
    <2> QED BY <2>2, <2>3
  <1>8. /\ \A j \in 1..Len(pend') : FALSE
        /\ \A i \in 1..Len(buf) : buf[i] \in 1..Len(meant)
    BY <1>1 DEF StreamInv, HandedInv
  <1> QED BY <1>1, <1>3, <1>5, <1>6, <1>7, <1>8 DEF HandedInv

\* A command gets only what was written for its input, and stdout's buffer
\* holds nothing that has been read.
LEMMA HandedKept ==
    ASSUME StreamInv, WrittenInv', Grows, [Next]_vars
    PROVE  HandedInv'
  <1>1. /\ pos \in [Sources -> Nat] /\ \A c \in Sources : pos[c] <= Len(data[c])
        /\ "none" \notin Embedded
    BY Facts DEF StreamInv, HandedInv
  <1>2. ASSUME UNCHANGED <<got, pos, buf>>,
               \/ tool' \notin Embedded
               \/ tool \in Embedded /\ frames' = frames
        PROVE  HandedInv'
    BY <1>1, <1>2, HandedSame
  <1>3. ASSUME GiveBack, got' = got PROVE HandedInv'
    BY <1>3, GivenBack, HandedSame
  <1>4. ASSUME NEW c \in Channels, Redirect(c) \/ Pipeline(c) \/ NextStage(c) \/ Substitute(c)
        PROVE  HandedInv'
    BY <1>1, <1>2, <1>4 DEF Redirect, Pipeline, NextStage, Substitute, stdio, ghosts
  <1>5. CASE LastStage \/ EndInput
    BY <1>1, <1>2, <1>5 DEF LastStage, EndInput, stdio, ghosts
  <1>6. CASE EndSubstitute
    BY <1>6, HandedSubstitute
  <1>7. ASSUME NEW t \in Tools, Begin(t) PROVE HandedInv'
    <2>1. CASE t \in Embedded BY <1>3, <1>7, <2>1 DEF Begin, ghosts
    <2>2. CASE t \notin Embedded BY <1>2, <1>7, <2>2 DEF Begin, ghosts
    <2> QED BY <2>1, <2>2
  <1>8. CASE GetBuffered \/ GetFill \/ ReadDescriptor
    BY <1>8, GetBufferedReads, GetFillReads, ReadDescriptorReads, HandedReads
  <1>9. ASSUME UNCHANGED <<got, pos, buf, frames, tool>> PROVE HandedInv'
    BY <1>2, <1>9
  <1>10. CASE GetEnd \/ ReadEnd \/ Put \/ WriteAll
    BY <1>9, <1>10 DEF GetEnd, ReadEnd, Put, WriteAll, descriptors, stdio, ghosts
  <1>11. CASE Return
    BY <1>1, <1>2, <1>11 DEF Return, Leave
  <1>12. CASE Shut \/ Close
    BY <1>3, <1>12 DEF Shut, Close, Leave
  <1>13. CASE UNCHANGED vars
    BY <1>9, <1>13 DEF vars
  <1> QED
    BY <1>4, <1>5, <1>6, <1>7, <1>8, <1>10, <1>11, <1>12, <1>13 DEF Next

\* The end of an input is the end of what was written: the flags of an
\* earlier command are gone.
LEMMA FlagsKept ==
    ASSUME StreamInv, [Next]_vars
    PROVE  FlagsInv'
  <1>1. /\ tool \in Tools \cup {"none"} /\ told \in BOOLEAN /\ eof \in BOOLEAN /\ left \in BOOLEAN
        /\ tool \in Embedded /\ eof => told
        /\ tool = "none" => ~told
        /\ "none" \notin Embedded /\ Streaming \subseteq Embedded
        /\ Scope.in \in Sources /\ Scope.in # fd1 /\ fd0 \in {Scope.in, Closed}
        /\ data \in [Sources \cup Sinks -> Seq(Nat)] /\ pos \in [Sources -> Nat]
    BY Facts DEF StreamInv, FlagsInv
  <1>2. ASSUME ~told', tool' \in Tools \cup {"none"}, told' \in BOOLEAN, eof' \in BOOLEAN,
               left' \in BOOLEAN, tool' \in Embedded => ~eof'
        PROVE  FlagsInv'
    BY <1>2 DEF FlagsInv, EndIsEnd
  <1>3. ASSUME ~told, UNCHANGED <<tool, told, eof, left>> PROVE FlagsInv'
    BY <1>1, <1>2, <1>3
  <1>4. ASSUME NEW c \in Channels, Redirect(c) \/ Pipeline(c) \/ NextStage(c) \/ Substitute(c)
        PROVE  FlagsInv'
    BY <1>1, <1>3, <1>4 DEF Redirect, Pipeline, NextStage, Substitute, stdio, ghosts
  <1>5. CASE LastStage \/ EndInput
    BY <1>1, <1>3, <1>5 DEF LastStage, EndInput, stdio, ghosts
  <1>6. CASE EndSubstitute
    BY <1>1, <1>3, <1>6 DEF EndSubstitute
  <1>7. ASSUME NEW t \in Tools, Begin(t) PROVE FlagsInv'
    BY <1>1, <1>2, <1>7 DEF Begin, ghosts
  <1>8. CASE GetBuffered \/ GetFill \/ ReadDescriptor
    BY <1>3, <1>8 DEF GetBuffered, GetFill, ReadDescriptor, stdio
  <1>9. ASSUME Unread = <<>> \/ fd0 = Closed, UNCHANGED <<descriptors, data, pos, tool, left>>,
               told', eof' \in BOOLEAN, told' \in BOOLEAN, tool # "none"
        PROVE  FlagsInv'
    <2>1. fd0 # Closed => fd0 = Scope.in /\ pos[fd0] = Len(data[fd0])
      <3> SUFFICES ASSUME fd0 # Closed PROVE fd0 = Scope.in /\ pos[fd0] = Len(data[fd0]) OBVIOUS
      <3>1. Unread = <<>> /\ fd0 = Scope.in /\ fd0 \in Sources BY <1>1, <1>9
      <3>2. Len(Unread) = Len(data[fd0]) - pos[fd0] BY <1>1, <3>1, UnreadItems DEF StreamInv
      <3>3. Len(Unread) = 0 /\ Len(data[fd0]) \in Nat /\ pos[fd0] \in Nat BY <1>1, <3>1
      <3> QED BY <3>1, <3>2, <3>3
    <2>2. Scope' = Scope /\ fd0' = fd0 BY <1>9 DEF Scope, descriptors
    <2>3. EndIsEnd' BY <1>9, <2>1, <2>2 DEF EndIsEnd
    <2> QED BY <1>1, <1>9, <2>3 DEF FlagsInv
  <1>10. CASE GetEnd
    <2>1. ~eof BY <1>1, <1>10 DEF GetEnd
    <2> QED BY <1>1, <1>9, <1>10, <2>1 DEF GetEnd, ghosts
  <1>11. CASE ReadEnd
    BY <1>1, <1>9, <1>11 DEF ReadEnd, ghosts, stdio
  <1>12. ASSUME UNCHANGED <<descriptors, pos, tool, told, eof, left>>, data'[Scope.in] = data[Scope.in]
         PROVE  FlagsInv'
    <2>1. Scope' = Scope BY <1>12 DEF Scope, descriptors
    <2>2. EndIsEnd BY DEF StreamInv, FlagsInv
    <2>3. EndIsEnd' BY <1>12, <2>1, <2>2 DEF EndIsEnd, descriptors
    <2> QED BY <1>1, <1>12, <2>3 DEF FlagsInv
  <1>13. CASE Put \/ WriteAll
    <2>1. data'[Scope.in] = data[Scope.in] BY <1>1, <1>13 DEF Put, WriteAll
    <2> QED BY <1>12, <1>13, <2>1 DEF Put, WriteAll
  <1>14. CASE Return \/ Shut \/ Close
    <2>1. /\ tool' = "none" /\ told' = FALSE /\ eof' = eof /\ left' \in BOOLEAN
      BY <1>1, <1>14 DEF Return, Shut, Close, Leave
    <2> QED BY <1>1, <1>2, <2>1
  <1>15. CASE UNCHANGED vars
    BY <1>12, <1>15 DEF vars, descriptors
  <1> QED
    BY <1>4, <1>5, <1>6, <1>7, <1>8, <1>10, <1>11, <1>13, <1>14, <1>15 DEF Next

\* Nobody has got anything that is still to come.
LEMMA BehindKept ==
    ASSUME StreamInv, WrittenInv', Grows, NEW c \in Sources, got'[c] = got[c],
           NEW p \in Nat, NEW q \in Nat, p <= q, Behind(c, p)
    PROVE  \A i \in 1..Len(got'[c]), k \in (q + 1)..Len(data'[c]) : got'[c][i] < data'[c][k]
  <1> SUFFICES ASSUME NEW i \in 1..Len(got[c]), NEW k \in (q + 1)..Len(data'[c])
               PROVE  got[c][i] < data'[c][k]
    OBVIOUS
  <1>1. /\ c \in Sources \cup Sinks /\ Len(data[c]) \in Nat /\ Len(meant) \in Nat
    BY Facts DEF StreamInv
  <1>2. /\ data' \in [Sources \cup Sinks -> Seq(Nat)]
        /\ Len(data'[c]) \in Nat
    BY <1>1 DEF WrittenInv, WrittenTo
  <1>3. k \in 1..Len(data'[c]) /\ data'[c][k] \in Nat BY <1>1, <1>2
  <1>4. CASE k <= Len(data[c])
    <2>1. k \in (p + 1)..Len(data[c]) /\ k \in 1..Len(data[c]) BY <1>1, <1>2, <1>3, <1>4
    <2>2. got[c][i] < data[c][k] BY <2>1 DEF Behind
    <2>3. data'[c][k] = data[c][k] BY <1>1, <2>1 DEF Grows
    <2> QED BY <2>2, <2>3
  <1>5. CASE k > Len(data[c])
    <2>1. data'[c][k] > Len(meant) \/ (c = fd1 /\ Contains(pend, data'[c][k]))
      BY <1>1, <1>3, <1>5 DEF Grows
    <2>2. got[c][i] \in 1..Len(meant) BY DEF StreamInv, HandedInv
    <2>3. CASE data'[c][k] > Len(meant) BY <1>1, <1>3, <2>2, <2>3
    <2>4. CASE c = fd1 /\ Contains(pend, data'[c][k])
      <3>1. PICK j \in 1..Len(pend) : pend[j] = data'[c][k] BY <2>4 DEF Contains
      <3>2. got[c][i] < pend[j] BY <2>4 DEF StreamInv, HandedInv
      <3> QED BY <3>1, <3>2
    <2> QED BY <2>1, <2>3, <2>4
  <1> QED BY <1>1, <1>3, <1>4, <1>5

\* While no tool has left anything, the readers have reached an offset.
LEMMA ReachedIs ==
    ASSUME StreamInv, ~left, NEW c \in Sources
    PROVE  Reached(c) \in Nat /\ Behind(c, Reached(c)) /\ (buf = <<>> => Reached(c) = pos[c])
  <1>1. Len(buf) \in Nat /\ pos[c] \in Nat /\ Len(<<>>) = 0 BY Facts DEF StreamInv
  <1>2. buf # <<>> => Len(buf) <= pos[fd0] BY DEF StreamInv, OnceInv
  <1>3. Behind(c, Reached(c)) BY DEF StreamInv, OnceInv
  <1> QED BY <1>1, <1>2, <1>3 DEF Reached

\* A step that hands nothing to a command.
LEMMA OnceSame ==
    ASSUME StreamInv, WrittenInv', HandedInv', Grows, got' = got,
           ~left' => /\ ~left
                     /\ \/ buf' = <<>> /\ \A c \in Sources : Reached(c) <= pos'[c]
                        \/ UNCHANGED <<buf, fd0, pos, tool>>
    PROVE  OnceInv'
  <1> SUFFICES ASSUME ~left' PROVE OnceInv' BY DEF OnceInv
  <1>1. ~left /\ Len(<<>>) = 0 OBVIOUS
  <1>2. \A c \in Sources : Increasing(got'[c]) BY <1>1 DEF StreamInv, OnceInv
  <1>3. \A c \in Sources : Reached(c) \in Nat /\ Behind(c, Reached(c)) BY <1>1, ReachedIs
  <1>4. \A c \in Sources : pos'[c] \in Nat BY DEF HandedInv
  <1>5. CASE buf' = <<>> /\ \A c \in Sources : Reached(c) <= pos'[c]
    <2>1. \A c \in Sources : Reached(c)' = pos'[c] BY <1>1, <1>4, <1>5 DEF Reached
    <2>2. ASSUME NEW c \in Sources PROVE Behind(c, Reached(c))'
      <3>1. \A i \in 1..Len(got'[c]), k \in (pos'[c] + 1)..Len(data'[c]) : got'[c][i] < data'[c][k]
        BY <1>3, <1>4, <1>5, BehindKept
      <3> QED BY <2>1, <3>1 DEF Behind
    <2> QED BY <1>2, <1>5, <2>2 DEF OnceInv
  <1>6. CASE UNCHANGED <<buf, fd0, pos, tool>>
    <2>1. \A c \in Sources : Reached(c)' = Reached(c) BY <1>6 DEF Reached
    <2>2. ASSUME NEW c \in Sources PROVE Behind(c, Reached(c))'
      <3>1. \A i \in 1..Len(got'[c]), k \in (Reached(c) + 1)..Len(data'[c]) : got'[c][i] < data'[c][k]
        BY <1>3, BehindKept
      <3> QED BY <2>1, <3>1 DEF Behind
    <2>3. /\ tool \notin Streaming => buf = <<>>
          /\ buf # <<>> => /\ fd0 \in Sources /\ Len(buf) <= pos[fd0]
                           /\ \A i \in 1..Len(buf) : buf[i] = data[fd0][pos[fd0] - Len(buf) + i]
      BY <1>1 DEF StreamInv, OnceInv
    <2>4. ASSUME buf # <<>>, NEW i \in 1..Len(buf)
          PROVE  buf[i] = data'[fd0][pos[fd0] - Len(buf) + i]
      <3>1. /\ fd0 \in Sources \cup Sinks /\ Len(buf) \in Nat /\ pos[fd0] \in Nat
            /\ Len(data[fd0]) \in Nat /\ pos[fd0] <= Len(data[fd0])
        BY <2>3, <2>4, Facts DEF StreamInv, HandedInv
      <3>2. pos[fd0] - Len(buf) + i \in 1..Len(data[fd0]) BY <2>3, <2>4, <3>1
      <3> QED BY <2>3, <2>4, <3>1, <3>2 DEF Grows
    <2> QED BY <1>2, <1>6, <2>2, <2>3, <2>4 DEF OnceInv
  <1> QED BY <1>1, <1>5, <1>6

\* A step that does.
LEMMA OnceReads ==
    ASSUME StreamInv, NEW s, Reads(s)
    PROVE  OnceInv'
  <1> SUFFICES ASSUME ~left' PROVE OnceInv' BY DEF OnceInv
  <1>1. ~left /\ UNCHANGED <<fd0, data, tool>> BY DEF Reads, descriptors
  <1> DEFINE b == Scope.in
             old == got[b]
             u == old \o s
             r == Reached(fd0)
  <1>2. /\ fd0 \in Sources /\ fd0 = b /\ s \in Seq(Nat) /\ Len(s) \in Nat
        /\ got' = [got EXCEPT ![b] = u] /\ got \in [Sources -> Seq(Nat)] /\ old \in Seq(Nat)
        /\ Len(buf') <= pos'[fd0] /\ pos'[fd0] - Len(buf') = r + Len(s) /\ r \in Nat
        /\ \A i \in 1..Len(s) : s[i] = data[fd0][r + i]
        /\ \A i \in 1..Len(buf') : buf'[i] = data[fd0][pos'[fd0] - Len(buf') + i]
        /\ \A c \in Sources : c # fd0 => pos'[c] = pos[c]
        /\ tool \notin Streaming => buf' = <<>>
        /\ Len(buf') \in Nat /\ pos'[fd0] \in Nat /\ Len(data[fd0]) \in Nat
        /\ pos'[fd0] <= Len(data[fd0])
    BY SMTT(20), <1>1, Facts DEF Reads, StreamInv
  <1>3. /\ u \in Seq(Nat)
        /\ \A k \in 1..Len(u) : \/ k \in 1..Len(old) /\ u[k] = old[k]
                                \/ \E j \in 1..Len(s) : k = Len(old) + j /\ u[k] = s[j]
    BY <1>2, ItemsConcatenated, Zenon
  <1> HIDE DEF r, b
  <1>4. ASSUME NEW i \in 1..Len(s) PROVE r + i \in 1..Len(data[fd0])
    <2>1. /\ r \in Nat /\ Len(s) \in Nat /\ Len(data[fd0]) \in Nat
          /\ Len(buf') \in Nat /\ pos'[fd0] \in Nat
          /\ pos'[fd0] - Len(buf') = r + Len(s) /\ pos'[fd0] <= Len(data[fd0])
      BY <1>2
    <2> QED BY <2>1
  <1>5. \A i, j \in 1..Len(data[fd0]) : i < j => data[fd0][i] < data[fd0][j]
    BY <1>2 DEF StreamInv, WrittenInv, WrittenTo, Increasing
  <1>6. \A i \in 1..Len(old), k \in (r + 1)..Len(data[fd0]) : old[i] < data[fd0][k]
    BY <1>1, <1>2, ReachedIs DEF Behind, r
  <1>7. Increasing(u)
    <2>1. Increasing(s)
      <3> SUFFICES ASSUME NEW i \in 1..Len(s), NEW j \in 1..Len(s), i < j PROVE s[i] < s[j]
        BY DEF Increasing
      <3>1. r \in Nat /\ Len(s) \in Nat BY <1>2
      <3>2. r + i < r + j BY <3>1
      <3>3. r + i \in 1..Len(data[fd0]) /\ r + j \in 1..Len(data[fd0]) BY <1>4
      <3>4. data[fd0][r + i] < data[fd0][r + j] BY <1>5, <3>2, <3>3
      <3> QED BY <1>2, <3>4
    <2>2. Increasing(old) BY <1>1, <1>2 DEF StreamInv, OnceInv
    <2>3. \A i \in 1..Len(old) : \A j \in 1..Len(s) : old[i] < s[j]
      <3> SUFFICES ASSUME NEW i \in 1..Len(old), NEW j \in 1..Len(s) PROVE old[i] < s[j] OBVIOUS
      <3>0. r \in Nat /\ Len(s) \in Nat /\ Len(data[fd0]) \in Nat BY <1>2
      <3>2. r + j \in 1..Len(data[fd0]) BY <1>4
      <3>1. r + j \in (r + 1)..Len(data[fd0]) BY <3>0, <3>2
      <3> QED BY <1>2, <1>6, <3>1
    <2> HIDE DEF old
    <2> QED BY <1>2, <2>1, <2>2, <2>3, IncreasingJoined
  <1>8. \A k \in 1..Len(u) : \A m \in (r + Len(s) + 1)..Len(data[fd0]) : u[k] < data[fd0][m]
    <2> SUFFICES ASSUME NEW k \in 1..Len(u), NEW m \in (r + Len(s) + 1)..Len(data[fd0])
                 PROVE  u[k] < data[fd0][m]
      OBVIOUS
    <2>0. r \in Nat /\ Len(s) \in Nat /\ Len(data[fd0]) \in Nat BY <1>2
    <2>1. m \in (r + 1)..Len(data[fd0]) /\ m \in 1..Len(data[fd0]) BY <2>0
    <2>2. CASE k \in 1..Len(old) /\ u[k] = old[k] BY <1>6, <2>1, <2>2
    <2>3. ASSUME NEW j \in 1..Len(s), u[k] = s[j] PROVE u[k] < data[fd0][m]
      <3>1. r + j < m BY <2>0
      <3>2. r + j \in 1..Len(data[fd0]) BY <1>4
      <3>3. data[fd0][r + j] < data[fd0][m] BY <1>5, <2>1, <3>1, <3>2
      <3>4. u[k] = data[fd0][r + j] BY <1>2, <2>3
      <3> QED BY <3>3, <3>4
    <2> QED BY <1>3, <2>2, <2>3
  <1> HIDE DEF u, old, r, b
  <1>9. got'[b] = u /\ \A c \in Sources : c # b => got'[c] = got[c] BY <1>2
  <1>10. \A c \in Sources : /\ c = fd0 => Reached(c)' = r + Len(s)
                            /\ c # fd0 => Reached(c)' = Reached(c)
    BY <1>1, <1>2 DEF Reached
  <1>11. ASSUME NEW c \in Sources PROVE Increasing(got'[c]) /\ Behind(c, Reached(c))'
    <2>1. CASE c = fd0
      <3>1. Reached(c)' = r + Len(s) BY <1>10, <2>1
      <3> QED BY <1>1, <1>2, <1>7, <1>8, <1>9, <2>1, <3>1 DEF Behind
    <2>2. CASE c # fd0
      <3>1. Increasing(got[c]) /\ Behind(c, Reached(c)) BY <1>1 DEF StreamInv, OnceInv
      <3> QED BY <1>1, <1>2, <1>9, <1>10, <2>2, <3>1 DEF Behind
    <2> QED BY <2>1, <2>2
  <1> QED BY <1>1, <1>2, <1>11 DEF OnceInv

\* The output of a substituted command is in order, and there is no more of it.
LEMMA OnceSubstitute ==
    ASSUME StreamInv, WrittenInv', HandedInv', Grows, EndSubstitute
    PROVE  OnceInv'
  <1> SUFFICES ASSUME ~left' PROVE OnceInv' BY DEF OnceInv
  <1> DEFINE c0 == Scope.out
  <1>1. /\ got' = [got EXCEPT ![c0] = data'[c0]] /\ pos' = [pos EXCEPT ![c0] = Len(data'[c0])]
        /\ ~left /\ buf' = buf /\ tool = "none" /\ fd0' = fd0
    BY DEF EndSubstitute
  <1>2. buf = <<>> /\ Len(<<>>) = 0 BY <1>1, Facts DEF StreamInv, OnceInv
  <1>3. /\ got \in [Sources -> Seq(Nat)] /\ pos \in [Sources -> Nat] /\ c0 \in Sinks
        /\ \A c \in Sources : pos'[c] \in Nat
    BY Facts DEF StreamInv, HandedInv
  <1>4. Increasing(data'[c0]) /\ Len(data'[c0]) \in Nat
    BY <1>3 DEF WrittenInv, WrittenTo
  <1> HIDE DEF c0
  <1>5. /\ \A c \in Sources : c # c0 => got'[c] = got[c] /\ pos'[c] = pos[c]
        /\ \A c \in Sources : c = c0 => got'[c] = data'[c] /\ pos'[c] = Len(data'[c])
    BY <1>1, <1>3
  <1>6. \A c \in Sources : Reached(c) = pos[c] /\ Reached(c)' = pos'[c]
    BY <1>1, <1>2, <1>3 DEF Reached
  <1>7. ASSUME NEW c \in Sources PROVE Increasing(got'[c]) /\ Behind(c, Reached(c))'
    <2>1. CASE c = c0
      <3>1. got'[c] = data'[c] /\ Reached(c)' = Len(data'[c]) BY <1>5, <1>6, <2>1
      <3>2. \A k \in (Len(data'[c]) + 1)..Len(data'[c]) : FALSE BY <1>4, <2>1
      <3> QED BY <1>4, <2>1, <3>1, <3>2 DEF Behind
    <2>2. CASE c # c0
      <3>1. got'[c] = got[c] /\ pos'[c] = pos[c] /\ Increasing(got[c])
        BY <1>1, <1>5, <2>2 DEF StreamInv, OnceInv
      <3>2. Behind(c, pos[c]) /\ pos[c] \in Nat /\ pos[c] <= pos[c] BY <1>1, <1>3, <1>6, ReachedIs
      <3>3. \A i \in 1..Len(got'[c]), k \in (pos[c] + 1)..Len(data'[c]) : got'[c][i] < data'[c][k]
        BY <3>1, <3>2, BehindKept
      <3> QED BY <1>6, <3>1, <3>3 DEF Behind
    <2> QED BY <2>1, <2>2
  <1> QED BY <1>1, <1>2, <1>7 DEF OnceInv
\* As long as no tool leaves anything, no item reaches two commands.
LEMMA OnceKept ==
    ASSUME StreamInv, WrittenInv', HandedInv', Grows, [Next]_vars
    PROVE  OnceInv'
  <1>1. ~left /\ tool = "none" => buf = <<>>
    BY DEF StreamInv, OnceInv, Streaming
  <1>2. ASSUME GiveBack, got' = got, ~left' => ~left PROVE OnceInv'
    BY <1>2, GivenBack, OnceSame
  <1>3. ASSUME ~left' => ~left /\ buf = <<>>, UNCHANGED <<got, pos, buf>> PROVE OnceInv'
    <2>1. ASSUME ~left', NEW c \in Sources PROVE Reached(c) <= pos'[c]
      <3>1. Reached(c) \in Nat /\ Reached(c) = pos[c] BY <1>3, <2>1, ReachedIs
      <3> QED BY <1>3, <3>1
    <2> QED BY <1>3, <2>1, OnceSame
  <1>4. ASSUME UNCHANGED <<got, pos, buf, fd0, tool, left>> PROVE OnceInv'
    BY <1>4, OnceSame
  <1>5. ASSUME NEW c \in Channels, Redirect(c) \/ Pipeline(c) \/ NextStage(c) \/ Substitute(c)
        PROVE  OnceInv'
    BY <1>1, <1>3, <1>5 DEF Redirect, Pipeline, NextStage, Substitute, stdio, ghosts
  <1>6. CASE LastStage \/ EndInput
    BY <1>1, <1>3, <1>6 DEF LastStage, EndInput, stdio, ghosts
  <1>7. CASE EndSubstitute
    BY <1>7, OnceSubstitute
  <1>8. ASSUME NEW t \in Tools, Begin(t) PROVE OnceInv'
    <2>1. CASE t \in Embedded BY <1>2, <1>8, <2>1 DEF Begin, ghosts
    <2>2. CASE t \notin Embedded BY <1>1, <1>3, <1>8, <2>2 DEF Begin, ghosts
    <2> QED BY <2>1, <2>2
  <1>9. CASE GetBuffered \/ GetFill \/ ReadDescriptor
    BY <1>9, GetBufferedReads, GetFillReads, ReadDescriptorReads, OnceReads
  <1>10. CASE GetEnd \/ ReadEnd \/ Put \/ WriteAll
    BY <1>4, <1>10 DEF GetEnd, ReadEnd, Put, WriteAll, descriptors, stdio, ghosts
  <1>11. CASE Return
    BY <1>3, <1>11 DEF Return, Leave
  <1>12. CASE Shut \/ Close
    BY <1>2, <1>12 DEF Shut, Close, Leave
  <1>13. CASE UNCHANGED vars
    BY <1>4, <1>13 DEF vars
  <1> QED
    BY <1>5, <1>6, <1>7, <1>8, <1>9, <1>10, <1>11, <1>12, <1>13 DEF Next

\* The invariant holds at first.
LEMMA StreamInit == Init => StreamInv
  <1> SUFFICES ASSUME Init PROVE StreamInv OBVIOUS
  <1> USE StreamsAssumption
  <1>1. DescriptorInv /\ WrittenInv BY DescriptorsInit, WritesInit
  <1>2. /\ pos = [c \in Sources |-> 0] /\ got = [c \in Sources |-> <<>>]
        /\ buf = <<>> /\ pend = <<>> /\ tool = "none" /\ told = FALSE /\ eof = FALSE /\ left = FALSE
    BY DEF Init
  <1>3. \A c \in Sources : /\ Len(data[c]) \in Nat /\ pos[c] = 0
                           /\ got[c] = <<>> /\ got[c] \in Seq(Nat)
    <2>1. data \in [Sources \cup Sinks -> Seq(Nat)] BY <1>1 DEF WrittenInv, WrittenTo
    <2> QED BY <1>2, <2>1
  <1>4. \A i \in 1..Len(<<>>) : FALSE OBVIOUS
  <1>5. HandedInv
    <2>1. pos \in [Sources -> Nat] /\ got \in [Sources -> Seq(Nat)] BY <1>2
    <2>2. \A c \in Sources : pos[c] <= Len(data[c]) BY <1>3
    <2>3. \A c \in Sources : \A i \in 1..Len(got[c]) : FALSE BY <1>3, <1>4
    <2>4. "none" \notin Embedded /\ \A i \in 1..Len(buf) : FALSE BY <1>2, <1>4 DEF Embedded
    <2> QED BY <1>2, <2>1, <2>2, <2>3, <2>4 DEF HandedInv
  <1>6. FlagsInv BY <1>2 DEF FlagsInv, EndIsEnd, Embedded
  <1>7. OnceInv
    <2>1. \A c \in Sources : \A i \in 1..Len(got[c]) : FALSE BY <1>3, <1>4
    <2>2. \A c \in Sources : Increasing(got[c]) /\ Behind(c, Reached(c))
      BY <2>1 DEF Increasing, Behind
    <2> QED BY <1>2, <2>2 DEF OnceInv
  <1> QED BY <1>1, <1>5, <1>6, <1>7 DEF StreamInv

\* Every command, flush and redirection keeps it.
LEMMA StreamKept == StreamInv /\ [Next]_vars => StreamInv'
  <1> SUFFICES ASSUME StreamInv, [Next]_vars PROVE StreamInv' OBVIOUS
  <1>1. DescriptorInv /\ WrittenInv /\ HandedInv /\ fd1 \in Sinks BY Facts DEF StreamInv
  <1>2. DescriptorInv' BY <1>1, DescriptorsKept
  <1>3. WrittenInv' BY <1>1, WritesKept
  <1>4. Grows BY <1>1, Growth
  <1>5. HandedInv' BY <1>3, <1>4, HandedKept
  <1>6. FlagsInv' BY FlagsKept
  <1>7. OnceInv' BY <1>3, <1>4, <1>5, OnceKept
  <1> QED BY <1>2, <1>3, <1>5, <1>6, <1>7 DEF StreamInv

\* So it always holds.
LEMMA StreamsAlways == Spec => []StreamInv
  BY StreamInit, StreamKept, PTL DEF Spec

\* The invariant says of every variable what kind of values it has; an offset
\* is bounded because a channel in order cannot be longer than the run.
LEMMA TypeFollows ==
    ASSUME StreamInv
    PROVE  TypeOK
  <1>1. /\ data \in [Sources \cup Sinks -> Seq(Nat)] /\ meant \in Seq(Sources \cup Sinks)
        /\ pend \in Seq(Nat) /\ buf \in Seq(Nat) /\ got \in [Sources -> Seq(Nat)]
        /\ pos \in [Sources -> Nat] /\ Len(meant) \in Nat /\ Len(meant) <= MaxItems
        /\ MaxItems \in Nat
        /\ \A c \in Sources : pos[c] <= Len(data[c]) /\ pos[c] \in Nat /\ Len(data[c]) \in Nat
    BY Facts, StreamsAssumption DEF StreamInv, HandedInv, WrittenInv
  <1>2. ASSUME NEW s \in Seq(Nat), \A i \in 1..Len(s) : s[i] \in 1..Len(meant)
        PROVE  s \in Seq(1..MaxItems)
    <2>1. \A i \in 1..Len(s) : s[i] \in 1..MaxItems BY <1>1, <1>2
    <2>2. s \in Seq(Nat) /\ Len(s) \in Nat /\ DOMAIN s = 1..Len(s) BY <1>2
    <2>3. s = [i \in 1..Len(s) |-> s[i]] BY <2>2, LenProperties
    <2>4. \A n \in Nat : (\A i \in 1..n : s[i] \in 1..MaxItems)
                         => [i \in 1..n |-> s[i]] \in Seq(1..MaxItems)
      OBVIOUS
    <2>5. [i \in 1..Len(s) |-> s[i]] \in Seq(1..MaxItems) BY <2>1, <2>2, <2>4, Zenon
    <2> QED BY <2>3, <2>5, Zenon
  <1>3. /\ \A c \in Sources \cup Sinks : \A i \in 1..Len(data[c]) : data[c][i] \in 1..Len(meant)
        /\ \A c \in Sources : \A i \in 1..Len(got[c]) : got[c][i] \in 1..Len(meant)
        /\ \A i \in 1..Len(buf) : buf[i] \in 1..Len(meant)
        /\ \A i \in 1..Len(pend) : pend[i] \in 1..Len(meant)
        /\ \A c \in Sources \cup Sinks : Increasing(data[c])
    BY DEF StreamInv, HandedInv, WrittenInv, WrittenTo
  <1>4. data \in [Sources \cup Sinks -> Seq(1..MaxItems)]
    <2>1. \A c \in Sources \cup Sinks : data[c] \in Seq(1..MaxItems) BY <1>1, <1>2, <1>3
    <2> QED BY <1>1, <2>1
  <1>5. got \in [Sources -> Seq(1..MaxItems)]
    <2>1. \A c \in Sources : got[c] \in Seq(1..MaxItems) BY <1>1, <1>2, <1>3
    <2> QED BY <1>1, <2>1
  <1>6. buf \in Seq(1..MaxItems) /\ pend \in Seq(1..MaxItems) BY <1>1, <1>2, <1>3
  <1>7. pos \in [Sources -> 0..MaxItems]
    <2>1. ASSUME NEW c \in Sources PROVE pos[c] \in 0..MaxItems
      <3>1. data[c] \in Seq(1..MaxItems) /\ Increasing(data[c]) BY <1>3, <1>4
      <3>2. Len(data[c]) <= MaxItems BY <1>1, <3>1, IncreasingShort
      <3> QED BY <1>1, <3>2
    <2> QED BY <1>1, <2>1
  <1>8. /\ fd0 \in Sources \cup {Closed} /\ fd1 \in Sinks
        /\ tool \in Tools \cup {"none"} /\ told \in BOOLEAN /\ eof \in BOOLEAN /\ left \in BOOLEAN
    BY Facts DEF StreamInv, FlagsInv
  <1>9. frames \in Seq(Frame) \ {<<>>} BY DEF StreamInv, DescriptorInv, Nested
  <1> QED BY <1>1, <1>4, <1>5, <1>6, <1>7, <1>8, <1>9 DEF TypeOK

\* Every variable always holds values of its kind, and no read offset passes
\* the end of its channel, whatever is given back to it.
THEOREM TypeCorrect == Spec => []TypeOK
  BY StreamsAlways, TypeFollows, PTL

\* A command reads only what the script gives it as input; as long as no
\* tool leaves input in the FILE, it reads each item once and in order; and a
\* tool that is told that its input has ended has the whole of it behind it.
THEOREM InputIsRight == Spec => []InputRight
  <1>1. ASSUME StreamInv PROVE InputRight
    <2>1. OwnInput BY <1>1 DEF StreamInv, HandedInv, OwnInput
    <2>2. EachItemOnce BY <1>1 DEF StreamInv, OnceInv, EachItemOnce
    <2>3. EndIsEnd BY <1>1 DEF StreamInv, FlagsInv
    <2> QED BY <2>1, <2>2, <2>3 DEF InputRight
  <1> QED BY <1>1, StreamsAlways, PTL

\* Whatever the commands write arrives where the script sends it, in order,
\* and between two commands all of it has arrived.
THEOREM EverythingArrives == Spec => []OutputArrives
  <1>1. ASSUME StreamInv PROVE OutputArrives
    <2>1. /\ \A c \in Sinks : \A i \in 1..Len(data[c]) : meant[data[c][i]] = c
          /\ \A c \in Sinks : Increasing(data[c])
      BY <1>1 DEF StreamInv, WrittenInv, WrittenTo
    <2>2. ASSUME tool = "none", NEW n \in 1..Len(meant) PROVE Contains(data[meant[n]], n)
      <3>1. pend = <<>> BY <1>1, <2>2 DEF StreamInv, WrittenInv
      <3>2. ~Contains(pend, n) BY <3>1 DEF Contains
      <3> QED BY <1>1, <2>2, <3>2 DEF StreamInv, WrittenInv, WrittenTo
    <2>3. tool = "none" => pend = <<>> BY <1>1 DEF StreamInv, WrittenInv
    <2> QED BY <2>1, <2>2, <2>3 DEF OutputArrives
  <1> QED BY <1>1, StreamsAlways, PTL
=============================================================================
