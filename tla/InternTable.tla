----------------------------- MODULE InternTable -----------------------------
(***************************************************************************)
(* The table that interns short strings (heap/string.rs): open addressing, *)
(* linear probing, nothing ever removed.  Two short strings are the same   *)
(* string exactly if they have the same handle, so that the heap, which    *)
(* frees nothing, holds each once.  Table keys and `==` do not rest on it: *)
(* they compare the bytes of strings whose handles differ.                 *)
(***************************************************************************)
EXTENDS Naturals, Sequences

CONSTANTS
  Short, Long,   (* the byte strings in play, by length                    *)
  Hash,          (* a short one's hash, as hash_bytes works it out         *)
  InitialBuckets,(* INTERN_INITIAL_BUCKETS, a power of two                 *)
  MaxStrings     (* bound: how many strings are ever made (never freed)    *)

ASSUME HashAssumption == DOMAIN Hash = Short /\ \A s \in Short : Hash[s] \in Nat
ASSUME LengthAssumption == Short \cap Long = {}
ASSUME BucketsAssumption == InitialBuckets \in {4, 8, 16, 32, 64, 128, 256}

VARIABLES
  strings,       (* the strings of the heap: a handle is an index          *)
  interned,      (* the buckets: a handle, or 0 for None                   *)
  interned_len   (* how many of them are in use                            *)

vars == <<strings, interned, interned_len>>

(* The bucket a probe for `hash` ends at: the first that holds one of      *)
(* `stops`, going up from the hash's own and round (`& mask`: the length   *)
(* is a power of 2).                                                       *)
Bucket(buckets, hash, k) == ((hash + k) % Len(buckets)) + 1
ProbeEnd(buckets, hash, stops) ==
  LET ends == {k \in 0 .. Len(buckets) - 1 : buckets[Bucket(buckets, hash, k)] \in stops}
  IN  Bucket(buckets, hash, CHOOSE k \in ends : \A l \in ends : k <= l)

(* Mutant: looks at the hash's own bucket only.                            *)
FindInterned_NoProbe(bytes) ==
  IF interned = <<>> THEN 0
  ELSE LET handle == interned[Bucket(interned, Hash[bytes], 0)]
       IN  IF handle # 0 /\ strings[handle] = bytes THEN handle ELSE 0

(* find_interned: up to an unused bucket or the string itself.             *)
FindInterned(bytes) ==
  IF interned = <<>> THEN 0
  ELSE interned[ProbeEnd(interned, Hash[bytes],
                         {0} \cup {h \in 1 .. Len(strings) : strings[h] = bytes})]

Filled(buckets, handle, bytes) ==
  [buckets EXCEPT ![ProbeEnd(buckets, Hash[bytes], {0})] = handle]

(* Mutant: each goes to its own bucket, whatever is there.                 *)
Grown_Overwrites ==
  LET buckets == IF interned = <<>> THEN InitialBuckets ELSE 2 * Len(interned)
      table[i \in 0 .. Len(interned)] ==
        IF i = 0 THEN [b \in 1 .. buckets |-> 0]
        ELSE IF interned[i] = 0 THEN table[i - 1]
        ELSE [table[i - 1] EXCEPT
               ![Bucket(table[i - 1], Hash[strings[interned[i]]], 0)] = interned[i]]
  IN  table[Len(interned)]

(* grow_interned: twice the buckets, each handle probed for again in the   *)
(* order the old buckets held them.                                        *)
Grown ==
  LET buckets == IF interned = <<>> THEN InitialBuckets ELSE 2 * Len(interned)
      table[i \in 0 .. Len(interned)] ==
        IF i = 0 THEN [b \in 1 .. buckets |-> 0]
        ELSE IF interned[i] = 0 THEN table[i - 1]
        ELSE Filled(table[i - 1], interned[i], strings[interned[i]])
  IN  table[Len(interned)]

Crowded == (interned_len + 1) * 4 >= Len(interned) * 3

Init == strings = <<>> /\ interned = <<>> /\ interned_len = 0

(* new_string of a short string: the handle it has, or one newly interned. *)
KnownShort(bytes) == FindInterned(bytes) # 0 /\ UNCHANGED vars

NewShort(bytes) ==
  /\ FindInterned(bytes) = 0
  /\ strings' = Append(strings, bytes)
  /\ interned' = Filled(IF Crowded THEN Grown ELSE interned, Len(strings'), bytes)
  /\ interned_len' = interned_len + 1

(* A long string is never looked for.                                      *)
NewLong(bytes) ==
  /\ strings' = Append(strings, bytes)
  /\ UNCHANGED <<interned, interned_len>>

Next ==
  \/ \E bytes \in Short : KnownShort(bytes)
  \/ /\ Len(strings) < MaxStrings
     /\ \/ \E bytes \in Short : NewShort(bytes)
        \/ \E bytes \in Long : NewLong(bytes)

Spec == Init /\ [][Next]_vars

-----------------------------------------------------------------------------
(* A short string has one handle: it is on the heap once, however often    *)
(* the program makes it.                                                   *)
OneHandleEach ==
  \A h, g \in 1 .. Len(strings) :
    strings[h] \in Short /\ strings[h] = strings[g] => h = g

(* A probe for a short string of the heap ends at its handle, past every   *)
(* collision, wherever growing has put it; and "the table is never full",  *)
(* so a probe for one the heap does not hold ends as well.                 *)
EveryShortIsFound ==
  /\ \A h \in 1 .. Len(strings) : strings[h] \in Short => FindInterned(strings[h]) = h
  /\ interned # <<>> => \E b \in 1 .. Len(interned) : interned[b] = 0
==============================================================================
