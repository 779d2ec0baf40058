---------------------------- MODULE HomeDirectory ----------------------------
(***************************************************************************)
(* What fs: 'idbfs' promises to runs that follow each other: a run starts  *)
(* from the whole directory the last completed run left, changes it as it  *)
(* likes, and its directory replaces the old one as a whole or not at all. *)
(***************************************************************************)
CONSTANTS Paths, Contents, Nothing

VARIABLES
    home,  \* what is kept between runs
    view,  \* what the run at work sees
    open   \* whether a run is at work

vars == <<home, view, open>>

Trees == [Paths -> Contents \union {Nothing}]

Empty == [p \in Paths |-> Nothing]

Init == home = Empty /\ view = Empty /\ open = FALSE

Start  == ~open /\ open' = TRUE /\ view' = home /\ UNCHANGED home
Edit   == open /\ view' \in Trees /\ UNCHANGED <<home, open>>
Finish == open /\ open' = FALSE /\ home' = view /\ view' = Empty
GiveUp == open /\ open' = FALSE /\ view' = Empty /\ UNCHANGED home

Next == Start \/ Edit \/ Finish \/ GiveUp

Spec == Init /\ [][Next]_vars
===============================================================================
