----------------------------- MODULE MCResolution -----------------------------
(* A finite instance of Resolution for TLC: two contexts; a class below NSObject
   with two objects that have property p; a third object whose class is not
   registered; q is a name that Object.prototype has. *)
EXTENDS Resolution, TLC

CONSTANTS n0, k1, u, o1, o2, o3, p, q

MCClassOf == o1 :> k1 @@ o2 :> k1 @@ o3 :> u
MCDeclared == [k \in Named |-> IF k = k1 THEN {p} ELSE {}]
Symmetry == Permutations(Context) \cup Permutations({o1, o2})
=============================================================================
