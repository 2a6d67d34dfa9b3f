------------------------------- MODULE MCSharing -------------------------------
(* A finite instance of Sharing for TLC: one context in each of two runtimes. *)
EXTENDS Sharing, TLC

CONSTANTS c1, c2, r1, r2
ContextRuntimes == c1 :> r1 @@ c2 :> r2
\* The contexts are alike, and so are their runtimes.
Swap == c1 :> c2 @@ c2 :> c1 @@ r1 :> r2 @@ r2 :> r1
Symmetry == Permutations(Thread) \cup Permutations(Address) \cup {Swap}
=============================================================================
