---------------------------- MODULE MCStreamSession ----------------------------
(* Small instances of StreamSession for TLC. *)
EXTENDS StreamSession, TLC

\* Sessions are only ever compared, and so are tasks.
Symmetry == Permutations(Sessions) \cup Permutations(Tasks)

================================================================================
