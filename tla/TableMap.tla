------------------------------ MODULE TableMap ------------------------------
(***************************************************************************)
(* What a Lua table promises: a map from keys to values, where a key that  *)
(* holds nil is a key that is not there, and a traversal that answers      *)
(* every key it started with once, unless it was erased before its turn.   *)
(***************************************************************************)
CONSTANTS Keys, Values

VARIABLES
  entries,    (* key -> value, for the keys that hold one                  *)
  walking,    (* a traversal is under way                                  *)
  ahead       (* the keys it has still to answer                           *)

mapVars == <<entries, walking, ahead>>

MapInit == entries = [k \in {} |-> k] /\ walking = FALSE /\ ahead = {}

(* Assigning to a key that is there leaves a traversal alone.              *)
Assign(key, value) ==
  /\ key \in DOMAIN entries
  /\ entries' = [entries EXCEPT ![key] = value]
  /\ UNCHANGED <<walking, ahead>>

(* A new key gives up the traversal: its order is nobody's promise then.   *)
Add(key, value) ==
  /\ key \notin DOMAIN entries
  /\ entries' = [k \in DOMAIN entries \cup {key} |-> IF k = key THEN value ELSE entries[k]]
  /\ walking' = FALSE /\ ahead' = {}

Erase(key) ==
  /\ entries' = [k \in DOMAIN entries \ {key} |-> entries[k]]
  /\ ahead' = ahead \ {key}
  /\ UNCHANGED walking

Begin ==
  /\ ~walking /\ walking' = TRUE
  /\ ahead' = DOMAIN entries
  /\ UNCHANGED entries

Visit(key) ==
  /\ key \in ahead
  /\ ahead' = ahead \ {key}
  /\ UNCHANGED <<entries, walking>>

(* The traversal ends only when nothing is left.                           *)
Finish ==
  /\ walking /\ ahead = {}
  /\ walking' = FALSE
  /\ UNCHANGED <<entries, ahead>>

MapNext ==
  \/ \E key \in Keys, value \in Values : Assign(key, value) \/ Add(key, value)
  \/ \E key \in Keys : Erase(key) \/ Visit(key)
  \/ Begin \/ Finish

MapSpec == MapInit /\ [][MapNext]_mapVars
=============================================================================
