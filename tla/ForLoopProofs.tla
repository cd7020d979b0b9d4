---------------------------- MODULE ForLoopProofs ----------------------------
(***************************************************************************)
(* The counted loop never wraps around, for integers of every width.       *)
(***************************************************************************)
EXTENDS ForLoop, TLAPS

(* The machine's conversions, on the numbers the loop gives them.          *)
LEMMA UnsignedNonNegative ==
  ASSUME NEW n \in 0 .. 2 * High - 1
  PROVE  Unsigned(n) = n
BY HighAssumption DEF Unsigned

(* A negative number wraps around once.                                    *)
LEMMA UnsignedNegative ==
  ASSUME NEW n \in -2 * High .. -1
  PROVE  Unsigned(n) = n + 2 * High
BY HighAssumption DEF Unsigned

(* An unsigned number stored as a signed one is read back as it was.       *)
LEMMA AsSignedInverse ==
  ASSUME NEW u \in 0 .. 2 * High - 1
  PROVE  AsSigned(u) \in Signed /\ Unsigned(AsSigned(u)) = u
BY HighAssumption, UnsignedNonNegative, UnsignedNegative DEF AsSigned, Signed

(* A machine integer is read as unsigned in range, and does not wrap.      *)
LEMMA UnsignedRange ==
  ASSUME NEW n \in Signed
  PROVE  Unsigned(n) \in 0 .. 2 * High - 1 /\ Wrapped(n) = n
BY HighAssumption, UnsignedNonNegative, UnsignedNegative DEF Wrapped, AsSigned, Signed

(* Division of naturals, by its defining bounds.                           *)
LEMMA Division ==
  ASSUME NEW a \in Nat, NEW b \in Nat \ {0}
  PROVE  /\ a \div b \in Nat
         /\ (a \div b) * b <= a
         /\ a < (a \div b) * b + b
         /\ a \div b <= a
OBVIOUS

(* What is left of a distance, counted in whole steps.                     *)
LEMMA CountUp ==
  ASSUME NEW limit \in Signed, init \in Signed, step \in Signed, step > 0, init <= limit
  PROVE  /\ Count(limit) \in 0 .. 2 * High - 1
         /\ init + Count(limit) * step <= limit
         /\ limit < init + Count(limit) * step + step
<1>1. limit - init \in 0 .. 2 * High - 1
  BY HighAssumption DEF Signed
<1>2. Unsigned(Unsigned(limit) - Unsigned(init)) = limit - init
  BY <1>1, HighAssumption, UnsignedNonNegative, UnsignedNegative DEF Signed
<1>3. Unsigned(step) = step
  BY HighAssumption, UnsignedNonNegative DEF Signed
<1>4. Count(limit) = (limit - init) \div step
  BY <1>2, <1>3 DEF Count
<1> QED
  BY <1>1, <1>4, Division, HighAssumption DEF Signed

(* The same for a loop that counts down.                                   *)
LEMMA CountDown ==
  ASSUME NEW limit \in Signed, init \in Signed, step \in Signed, step < 0, limit <= init
  PROVE  /\ Count(limit) \in 0 .. 2 * High - 1
         /\ init + Count(limit) * step >= limit
         /\ limit > init + Count(limit) * step + step
<1>1. init - limit \in 0 .. 2 * High - 1
  BY HighAssumption DEF Signed
<1>2. Unsigned(Unsigned(init) - Unsigned(limit)) = init - limit
  BY <1>1, HighAssumption, UnsignedNonNegative, UnsignedNegative DEF Signed
<1>3. Unsigned(-Unsigned(step)) = -step
  <2>1. Unsigned(step) = step + 2 * High
    BY HighAssumption, UnsignedNegative DEF Signed
  <2>2. -Unsigned(step) \in -2 * High .. -1
    BY <2>1, HighAssumption DEF Signed
  <2> QED
    BY <2>1, <2>2, HighAssumption, UnsignedNegative DEF Signed
<1>4. ~(step > 0)
  BY HighAssumption DEF Signed
<1>5. Count(limit) = (init - limit) \div (-step)
  BY <1>2, <1>3, <1>4 DEF Count
<1>6. -step \in Nat \ {0} /\ init - limit \in Nat
  BY <1>1, HighAssumption DEF Signed
<1>7. /\ Count(limit) \in Nat
      /\ Count(limit) * (-step) <= init - limit
      /\ init - limit < Count(limit) * (-step) + (-step)
      /\ Count(limit) <= init - limit
  <2>1. \A a \in Nat, b \in Nat \ {0} :
          a \div b \in Nat /\ (a \div b) * b <= a /\ a < (a \div b) * b + b /\ a \div b <= a
    BY Division
  <2> QED
    BY <1>5, <1>6, <2>1
<1>8. Count(limit) * (-step) = -(Count(limit) * step)
  BY <1>7, <1>6 DEF Signed
<1> QED
  BY <1>1, <1>7, <1>8, HighAssumption DEF Signed

(* The integer limit stands for the limit the program wrote.               *)
LEMMA LimitUp ==
  ASSUME halves \in Int, step \in Signed, step > 0
  PROVE  /\ IntegerLimit \in Signed \cup {NoLimit}
         /\ \A n \in Signed : Ideal!Within(n) <=> IntegerLimit # NoLimit /\ n <= IntegerLimit
<1>1. Floor \in Int /\ 2 * Floor <= halves /\ halves < 2 * Floor + 2
  BY DEF Floor
<1> QED
  BY <1>1, HighAssumption DEF IntegerLimit, NoLimit, Signed, Ideal!Within

(* The same for a limit approached from above.                             *)
LEMMA LimitDown ==
  ASSUME halves \in Int, step \in Signed, step < 0
  PROVE  /\ IntegerLimit \in Signed \cup {NoLimit}
         /\ \A n \in Signed : Ideal!Within(n) <=> IntegerLimit # NoLimit /\ n >= IntegerLimit
<1>1. Ceil \in Int /\ 2 * Ceil >= halves /\ halves > 2 * Ceil - 2
  BY DEF Ceil
<1> QED
  BY <1>1, HighAssumption DEF IntegerLimit, NoLimit, Signed, Ideal!Within

-----------------------------------------------------------------------------
(* The inductive invariant: what LeftIsExact says of the number the loop   *)
(* ends with, and that it is an integer, so that nothing wraps on the way. *)
IInv ==
  /\ TypeOK
  /\ phase = "start" => index = init
  /\ LeftIsExact
  /\ phase = "body" => Last \in Signed

(* The loop begins in the invariant.                                       *)
LEMMA InitIInv == Init => IInv
BY HighAssumption DEF Init, IInv, TypeOK, LeftIsExact, Signed

(* prepare leaves the exact count, or no loop.                             *)
LEMMA PrepareIInv == IInv /\ Prepare => IInv'
<1> SUFFICES ASSUME IInv, Prepare PROVE IInv'
  OBVIOUS
<1> USE HighAssumption, LimitsAssumption
<1>1. /\ init \in Signed /\ step \in Signed /\ left \in Signed /\ index = init
      /\ halves \in Limits /\ halves \in Int /\ phase = "start"
  BY DEF IInv, TypeOK, Prepare
<1>2. UNCHANGED <<init, step, halves, index>>
  BY DEF Prepare
<1>3. CASE phase' # "body"
  BY <1>1, <1>2, <1>3 DEF IInv, TypeOK, LeftIsExact, Prepare
<1>4. CASE phase' = "body"
  <2>1. step # 0 /\ ~Empty(IntegerLimit) /\ left' = AsSigned(Count(IntegerLimit))
    BY <1>4 DEF Prepare
  <2> DEFINE limit == IntegerLimit
             last == init + Count(limit) * step
  <2>2. ASSUME Count(limit) \in 0 .. 2 * High - 1,
               last \in Signed, Ideal!Within(last), ~Ideal!Within(last + step)
        PROVE  IInv'
    <3>1. left' \in Signed /\ Unsigned(left') = Count(limit)
      BY <2>1, <2>2, AsSignedInverse
    <3>2. Last' = last /\ (Last + step)' = last + step
      BY <1>1, <1>2, <3>1 DEF Last, Unsigned
    <3>3. LeftIsExact'
      BY <1>2, <2>2, <3>2 DEF LeftIsExact, Ideal!Within
    <3> QED
      BY <1>1, <1>2, <1>4, <2>2, <3>1, <3>2, <3>3 DEF IInv, TypeOK
  <2>3. CASE step > 0
    <3>1. limit \in Signed /\ init <= limit
      BY <1>1, <2>1, <2>3, LimitUp DEF Empty, Signed
    <3>2. /\ Count(limit) \in 0 .. 2 * High - 1
          /\ last <= limit /\ limit < last + step
      BY <1>1, <2>3, <3>1, CountUp
    <3>3. Count(limit) * step \in Nat
      BY <1>1, <2>3, <3>2 DEF Signed
    <3>4. last \in Signed
      BY <1>1, <3>1, <3>2, <3>3 DEF Signed
    <3>5. Ideal!Within(last) /\ ~Ideal!Within(last + step)
      <4>1. \A n \in Signed : Ideal!Within(n) <=> limit # NoLimit /\ n <= limit
        BY <1>1, <2>3, LimitUp
      <4>2. limit # NoLimit
        BY <3>1 DEF Signed, NoLimit
      <4>3. ~(last + step <= limit)
        BY <1>1, <3>1, <3>2, <3>4 DEF Signed
      <4>4. CASE last + step \in Signed
        BY <3>2, <3>4, <4>1, <4>2, <4>3, <4>4
      <4>5. CASE last + step \notin Signed
        BY <3>2, <3>4, <4>1, <4>2, <4>5 DEF Ideal!Within
      <4> QED
        BY <4>4, <4>5
    <3> QED
      BY <2>2, <3>2, <3>4, <3>5
  <2>4. CASE step < 0
    <3>1. limit \in Signed /\ init >= limit
      BY <1>1, <2>1, <2>4, LimitDown DEF Empty, Signed
    <3>2. /\ Count(limit) \in 0 .. 2 * High - 1
          /\ last >= limit /\ limit > last + step
      BY <1>1, <2>4, <3>1, CountDown DEF Signed
    <3>3. -(Count(limit) * step) \in Nat
      BY <1>1, <2>4, <3>2 DEF Signed
    <3>4. last \in Signed
      BY <1>1, <3>1, <3>2, <3>3 DEF Signed
    <3>5. Ideal!Within(last) /\ ~Ideal!Within(last + step)
      <4>1. \A n \in Signed : Ideal!Within(n) <=> limit # NoLimit /\ n >= limit
        BY <1>1, <2>4, LimitDown
      <4>2. limit # NoLimit
        BY <3>1 DEF Signed, NoLimit
      <4>3. ~(last + step >= limit)
        BY <1>1, <3>1, <3>2, <3>4 DEF Signed
      <4>4. CASE last + step \in Signed
        BY <3>2, <3>4, <4>1, <4>2, <4>3, <4>4
      <4>5. CASE last + step \notin Signed
        BY <3>2, <3>4, <4>1, <4>2, <4>5 DEF Ideal!Within
      <4> QED
        BY <4>4, <4>5
    <3> QED
      BY <2>2, <3>2, <3>4, <3>5
  <2> QED
    BY <1>1, <2>1, <2>3, <2>4 DEF Signed
<1> QED
  BY <1>3, <1>4

(* While steps are left, the next number is between the index and the last *)
(* one, so it is an integer and the addition does not wrap.                *)
LEMMA NextNumber ==
  ASSUME IInv, phase = "body", left # 0
  PROVE  /\ Unsigned(left) \in 1 .. 2 * High - 1
         /\ Unsigned(Wrapped(left - 1)) = Unsigned(left) - 1
         /\ Wrapped(left - 1) \in Signed
         /\ index + step \in Signed
         /\ Wrapped(index + step) = index + step
         /\ Ideal!Within(index + step)
<1> USE HighAssumption, LimitsAssumption
<1> DEFINE u == Unsigned(left)
<1>1. /\ left \in Signed /\ index \in Signed /\ step \in Signed /\ halves \in Int
      /\ Last \in Signed /\ Ideal!Within(Last)
  BY DEF IInv, TypeOK, LeftIsExact
<1>2. u \in 1 .. 2 * High - 1 /\ u \in 0 .. 2 * High - 1
  BY <1>1, UnsignedNonNegative, UnsignedNegative DEF Signed
<1>3. Unsigned(left - 1) = u - 1
  BY <1>1, UnsignedNonNegative, UnsignedNegative DEF Signed
<1>4. Unsigned(Wrapped(left - 1)) = u - 1 /\ Wrapped(left - 1) \in Signed
  BY <1>2, <1>3, AsSignedInverse DEF Wrapped
<1>5. Last = index + u * step
  BY DEF Last
<1>6. step # 0
  <2>1. ~Ideal!Within(Last + step)
    BY DEF IInv, LeftIsExact
  <2> QED
    BY <1>1, <2>1 DEF Signed
<1>7. CASE step > 0
  <2>1. u * step >= step
    BY <1>1, <1>2, <1>7 DEF Signed
  <2>2. index + step <= Last /\ index <= index + step
    BY <1>1, <1>2, <1>5, <1>7, <2>1 DEF Signed
  <2>3. index + step \in Signed
    BY <1>1, <2>2 DEF Signed
  <2>4. Ideal!Within(index + step)
    BY <1>1, <1>7, <2>2, <2>3 DEF Ideal!Within, Signed
  <2> QED
    BY <1>2, <1>4, <2>3, <2>4, UnsignedRange
<1>8. CASE step < 0
  <2>1. u * step <= step
    BY <1>1, <1>2, <1>8 DEF Signed
  <2>2. index + step >= Last /\ index >= index + step
    BY <1>1, <1>2, <1>5, <1>8, <2>1 DEF Signed
  <2>3. index + step \in Signed
    BY <1>1, <2>2 DEF Signed
  <2>4. Ideal!Within(index + step)
    BY <1>1, <1>8, <2>2, <2>3 DEF Ideal!Within, Signed
  <2> QED
    BY <1>2, <1>4, <2>3, <2>4, UnsignedRange
<1> QED
  BY <1>1, <1>6, <1>7, <1>8 DEF Signed

(* advance keeps the count exact.                                          *)
LEMMA AdvanceIInv == IInv /\ Advance => IInv'
<1> SUFFICES ASSUME IInv, Advance PROVE IInv'
  OBVIOUS
<1> USE HighAssumption
<1>1. /\ TypeOK /\ phase = "body" /\ UNCHANGED <<init, step, halves>>
      /\ step \in Signed /\ index \in Signed /\ left \in Signed
      /\ Last \in Signed /\ Ideal!Within(Last) /\ ~Ideal!Within(Last + step)
  BY DEF IInv, Advance, TypeOK, LeftIsExact
<1>2. CASE left = 0
  BY <1>1, <1>2 DEF IInv, Advance, TypeOK, LeftIsExact
<1>3. CASE left # 0
  <2>1. /\ index' = index + step /\ index' \in Signed
        /\ left' \in Signed /\ Unsigned(left') = Unsigned(left) - 1
        /\ Unsigned(left) \in 1 .. 2 * High - 1 /\ phase' = "body"
    BY <1>1, <1>3, NextNumber DEF Advance
  <2>2. Last' = index' + Unsigned(left') * step'
    BY DEF Last, Unsigned
  <2>3. Last' = Last
    BY <1>1, <2>1, <2>2 DEF Last, Signed
  <2>4. LeftIsExact'
    BY <1>1, <2>3 DEF LeftIsExact, Ideal!Within
  <2> QED
    BY <1>1, <2>1, <2>3, <2>4 DEF IInv, TypeOK
<1> QED
  BY <1>2, <1>3

(* Every step keeps the invariant.                                         *)
LEMMA NextIInv == IInv /\ [Next]_vars => IInv'
<1> SUFFICES ASSUME IInv, [Next]_vars PROVE IInv'
  OBVIOUS
<1>1. CASE UNCHANGED vars
  BY <1>1 DEF IInv, TypeOK, LeftIsExact, Last, Unsigned, Ideal!Within, vars
<1> QED
  BY <1>1, PrepareIInv, AdvanceIInv DEF Next

(* TypeOK and LeftIsExact hold whatever the width and the limits.          *)
THEOREM TypeOKTheorem == Spec => []TypeOK
<1>1. IInv => TypeOK
  BY DEF IInv
<1> QED
  BY <1>1, InitIInv, NextIInv, PTL DEF Spec

(* The steps left always lead to the last number within the limit: the     *)
(* unsigned count of prepare is exact.                                     *)
THEOREM LeftIsExactTheorem == Spec => []LeftIsExact
<1>1. IInv => LeftIsExact
  BY DEF IInv
<1> QED
  BY <1>1, InitIInv, NextIInv, PTL DEF Spec

(* A step of the loop is a step of the progression.                        *)
LEMMA StepRefines == IInv /\ [Next]_vars => [Ideal!ProgNext]_(Ideal!progVars)
<1> SUFFICES ASSUME IInv, [Next]_vars PROVE [Ideal!ProgNext]_(Ideal!progVars)
  OBVIOUS
<1> USE HighAssumption, LimitsAssumption
<1>1. /\ init \in Signed /\ step \in Signed /\ halves \in Int
  BY DEF IInv, TypeOK
<1>2. CASE Prepare
  <2>1. init \in Signed /\ index = init /\ UNCHANGED <<init, step, halves, index>>
    BY <1>1, <1>2 DEF IInv, Prepare
  <2>2. phase = "start"
    BY <1>2 DEF Prepare
  <2>3. CASE step = 0
    BY <1>2, <2>1, <2>2, <2>3 DEF Prepare, Ideal!ProgNext, Ideal!Start
  <2>4. CASE step # 0
    <3>1. Ideal!Within(init) <=> ~Empty(IntegerLimit)
      <4>1. CASE step > 0
        BY <1>1, <4>1, LimitUp DEF Empty, Signed, NoLimit
      <4>2. CASE step < 0
        BY <1>1, <4>2, LimitDown DEF Empty, Signed, NoLimit
      <4> QED
        BY <1>1, <2>4, <4>1, <4>2 DEF Signed
    <3>2. phase' = IF Ideal!Within(init) THEN "body" ELSE "done"
      BY <1>2, <2>4, <3>1 DEF Prepare
    <3> QED
      BY <2>1, <2>2, <2>4, <3>2 DEF Ideal!ProgNext, Ideal!Start
  <2> QED
    BY <2>3, <2>4
<1>3. CASE Advance
  <2>1. CASE left = 0
    <3>1. Last = index
      BY <1>1, <2>1, UnsignedNonNegative DEF Last, IInv, TypeOK, Signed
    <3>2. ~Ideal!Within(index + step)
      BY <1>3, <3>1 DEF IInv, LeftIsExact, Advance
    <3> QED
      BY <1>3, <2>1, <3>2 DEF Advance, Ideal!ProgNext, Ideal!Stop
  <2>2. CASE left # 0
    <3>1. index' = index + step /\ Ideal!Within(index + step)
      BY <1>3, <2>2, NextNumber DEF Advance
    <3> QED
      BY <1>3, <2>2, <3>1 DEF Advance, Ideal!ProgNext, Ideal!Again
  <2> QED
    BY <2>1, <2>2
<1>4. CASE UNCHANGED vars
  BY <1>4 DEF vars, Ideal!progVars
<1> QED
  BY <1>2, <1>3, <1>4 DEF Next

(* The loop implements the progression: no integer it counts ever wraps.   *)
THEOREM ImplementsProgressionTheorem == Spec => ImplementsProgression
<1>1. Init => Ideal!ProgInit
  BY DEF Init, Ideal!ProgInit
<1> QED
  BY <1>1, InitIInv, NextIInv, StepRefines, PTL
  DEF Spec, ImplementsProgression, Ideal!ProgSpec
==============================================================================
