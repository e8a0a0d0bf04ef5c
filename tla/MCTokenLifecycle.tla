--------------------------- MODULE MCTokenLifecycle ---------------------------
(* Small instances of TokenLifecycle for TLC. *)
EXTENDS TokenLifecycle, TLC

\* Logins are only ever compared, and so are verifiers.
Symmetry == Permutations(Logins) \cup Permutations(Verifiers)

================================================================================
