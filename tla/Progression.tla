----------------------------- MODULE Progression -----------------------------
(***************************************************************************)
(* What `for i = init, limit, step` promises: the numbers init, init+step, *)
(* ... up to the limit, in arithmetic that does not wrap around, however   *)
(* close to the ends of the integers it runs.                              *)
(***************************************************************************)
EXTENDS Integers

CONSTANT Numbers   (* the integers there are: the progression ends with them *)

VARIABLES
  init, step,
  halves,     (* twice the limit, which may be a float                     *)
  at,         (* the number the body sees                                  *)
  phase       (* "start", "body", "done" or "error"                        *)

progVars == <<init, step, halves, at, phase>>

Within(n) ==
  /\ n \in Numbers
  /\ IF step > 0 THEN 2 * n <= halves ELSE 2 * n >= halves

ProgInit == phase = "start" /\ at = init

Start ==
  /\ phase = "start"
  /\ phase' = IF step = 0 THEN "error" ELSE IF Within(init) THEN "body" ELSE "done"
  /\ UNCHANGED <<init, step, halves, at>>

Again ==
  /\ phase = "body" /\ Within(at + step)
  /\ at' = at + step
  /\ UNCHANGED <<init, step, halves, phase>>

Stop ==
  /\ phase = "body" /\ ~Within(at + step)
  /\ phase' = "done"
  /\ UNCHANGED <<init, step, halves, at>>

ProgNext == Start \/ Again \/ Stop

ProgSpec == ProgInit /\ [][ProgNext]_progVars
==============================================================================
