------------------------------- MODULE ForLoop -------------------------------
(***************************************************************************)
(* The counted `for` over integers (vm/loops.rs): prepare works out how    *)
(* often the body runs again, in unsigned arithmetic of the machine's      *)
(* width, and advance counts that down.                                    *)
(*                                                                         *)
(* The limit may be a float: it is given in halves, so that it can lie     *)
(* between integers and past both ends of them.                            *)
(***************************************************************************)
EXTENDS Integers

CONSTANTS
  High,       (* i64::MAX + 1                                              *)
  Limits      (* the limits in play, in halves                             *)

ASSUME HighAssumption == High \in Nat \ {0}
ASSUME LimitsAssumption == Limits \subseteq Int

Signed == -High .. High - 1

(* `as u64`, and the wrapping operations, whose results are `as i64`.      *)
Unsigned(n) == n % (2 * High)
AsSigned(u) == IF u < High THEN u ELSE u - 2 * High
Wrapped(n) == AsSigned(Unsigned(n))

VARIABLES
  init, step, halves,   (* what the program wrote                          *)
  index,                (* register control: what the body sees            *)
  left,                 (* register control + 1: how often it runs again   *)
  phase                 (* "start", "body", "done" or "error"              *)

vars == <<init, step, halves, index, left, phase>>

Floor == halves \div 2
Ceil == -((-halves) \div 2)

(* Where the loop cannot run: integer_limit's None.                        *)
NoLimit == High

(* Mutant: a limit is rounded down whichever way the loop goes.            *)
IntegerLimit_Floors ==
  IF Floor \in Signed THEN Floor
  ELSE IF 0 < halves THEN IF step < 0 THEN NoLimit ELSE High - 1
  ELSE IF step < 0 THEN -High ELSE NoLimit

(* integer_limit: rounded towards the start, clipped to the integers.      *)
IntegerLimit ==
  LET rounded == IF step < 0 THEN Ceil ELSE Floor
  IN  IF rounded \in Signed THEN rounded
      ELSE IF 0 < halves THEN IF step < 0 THEN NoLimit ELSE High - 1
      ELSE IF step < 0 THEN -High ELSE NoLimit

Empty(limit) ==
  \/ limit = NoLimit
  \/ step > 0 /\ init > limit
  \/ step < 0 /\ init < limit

(* Mutant: the distance is taken in signed arithmetic.                     *)
Count_Signed(limit) ==
  IF step > 0 THEN Wrapped(limit - init) \div step ELSE Wrapped(init - limit) \div (-step)

Count(limit) ==
  IF step > 0
  THEN Unsigned(Unsigned(limit) - Unsigned(init)) \div Unsigned(step)
  ELSE Unsigned(Unsigned(init) - Unsigned(limit)) \div Unsigned(-Unsigned(step))

Init ==
  /\ init \in Signed /\ step \in Signed /\ halves \in Limits
  /\ index = init /\ left = 0
  /\ phase = "start"

(* ForPrep, then the body or the instruction after the loop.               *)
Prepare ==
  /\ phase = "start"
  /\ LET limit == IntegerLimit
     IN  IF step = 0 THEN phase' = "error" /\ left' = left
         ELSE IF Empty(limit) THEN phase' = "done" /\ left' = left
         ELSE phase' = "body" /\ left' = AsSigned(Count(limit))
  /\ UNCHANGED <<init, step, halves, index>>

(* Mutants: forgets to count down; counts down past the lowest integer.    *)
AdvanceWith(lasts, next) ==
  /\ phase = "body"
  /\ IF lasts THEN phase' = "done" /\ UNCHANGED <<index, left>>
     ELSE index' = Wrapped(index + step) /\ left' = next /\ UNCHANGED phase
  /\ UNCHANGED <<init, step, halves>>
Advance_Uncounted == AdvanceWith(left = 0, left)
Advance_Plain == AdvanceWith(left = 0, left - 1)

(* ForLoop: back to the body, or on.                                       *)
Advance ==
  /\ phase = "body"
  /\ IF left = 0
     THEN phase' = "done" /\ UNCHANGED <<index, left>>
     ELSE /\ index' = Wrapped(index + step)
          /\ left' = Wrapped(left - 1)
          /\ UNCHANGED phase
  /\ UNCHANGED <<init, step, halves>>

Next == Prepare \/ Advance

(* The loop's own instructions are executed as soon as the body is through. *)
Spec == Init /\ [][Next]_vars
FairSpec == Spec /\ WF_vars(Next)

-----------------------------------------------------------------------------
TypeOK ==
  /\ {init, step, index, left} \subseteq Signed
  /\ halves \in Limits
  /\ phase \in {"start", "body", "done", "error"}

Ideal == INSTANCE Progression WITH Numbers <- Signed, at <- index

(* However far apart init and limit are, as many steps as are left take    *)
(* the index to the last number within the limit and not past it.          *)
Last == index + Unsigned(left) * step
LeftIsExact ==
  phase = "body" => Ideal!Within(Last) /\ ~Ideal!Within(Last + step)

(* Every loop whose bodies end does, also one to the highest integer.      *)
Ends == <>(phase \in {"done", "error"})

(* The index takes the values of the progression and no other: it never    *)
(* wraps around, stops short, or passes the limit.                         *)
ImplementsProgression == Ideal!ProgSpec
==============================================================================
