---------------------------- MODULE MCInternTable ----------------------------
EXTENDS InternTable, TLC

(* Collisions in four buckets, in eight and in sixteen, and a probe that   *)
(* wraps around in each.                                                   *)
Hashes == "s" :> 3 @@ "t" :> 7 @@ "u" :> 15 @@ "v" :> 15 @@ "w" :> 0 @@ "x" :> 31
==============================================================================
