--------------------------- MODULE MCShellStreams ---------------------------
(* Instances of ShellStreams for TLC. *)
EXTENDS ShellStreams, TLC

\* The temporary files and pipes of a run are interchangeable.
Symmetry == Permutations(Channels)
=============================================================================
