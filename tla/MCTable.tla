------------------------------- MODULE MCTable -------------------------------
EXTENDS Table, TLC

CONSTANTS s, t, a, b

(* Modulo two and four: integers that collide with one another and with    *)
(* strings, and chains that meet.                                          *)
Colliding == 1 :> 0 @@ 2 :> 1 @@ 3 :> 0 @@ s :> 0 @@ t :> 3

(* Nothing tells one value from another.                                   *)
Interchangeable == Permutations({a, b})
==============================================================================
