----------------------------- MODULE NumberProofs -----------------------------
(***************************************************************************)
(* Numbers are exact wherever they go: written into an instruction and     *)
(* read back, and divided, compared and made keys of a table, for integers *)
(* of every width and floats of every size.                                *)
(***************************************************************************)
EXTENDS Numbers, Bytecode, SequenceTheorems, TLAPS

-----------------------------------------------------------------------------
(* In the bytes of an instruction (Bytecode).                              *)

(* What a displacement can be.                                             *)
I32 == {x \in Int : 0 <= x + 2147483648 /\ x < 2147483648}

(* Each byte is one.                                                       *)
LEMMA BytesAreBytes ==
  ASSUME NEW x \in Int, NEW width \in 1 .. 4
  PROVE  LeBytes(x, width) \in [1 .. width -> 0 .. 255]
<1>1. \A k \in 1 .. 4 : Weight[k] \in Nat \ {0}
  BY SMT DEF Weight
<1>2. \A k \in 1 .. width : (x \div Weight[k]) % 256 \in 0 .. 255
  <2>1. TAKE k \in 1 .. width
  <2>2. Weight[k] \in Nat \ {0}
    BY <1>1, SMT
  <2>3. x \div Weight[k] \in Int
    BY <2>2, SMT
  <2> QED
    BY <2>3, SMT
<1> QED
  BY <1>2, SMT DEF LeBytes

(* Bytes are bytes: what is written is code.                               *)
LEMMA BytesAreASeq ==
  ASSUME NEW x \in Int
  PROVE  LeBytes(x, 4) \in Seq(0 .. 255) /\ Len(LeBytes(x, 4)) = 4
<1>1. \A k \in 1 .. 4 : LeBytes(x, 4)[k] \in 0 .. 255
  <2>1. 4 \in 1 .. 4
    OBVIOUS
  <2>2. LeBytes(x, 4) \in [1 .. 4 -> 0 .. 255]
    BY <2>1, BytesAreBytes
  <2> QED
    BY <2>2
<1>2. \A k \in 1 .. 4 : LeBytes(x, 4)[k] = (x \div Weight[k]) % 256
  BY DEF LeBytes
<1>3. \A k \in 1 .. 4 : (x \div Weight[k]) % 256 \in 0 .. 255
  BY <1>1, <1>2
<1> QED
  BY <1>3 DEF LeBytes

(* A u8, a u16 and a u32 are read as what was written (op.rs, encode.rs    *)
(* and decode.rs).                                                         *)
THEOREM U8IsReadBack ==
  ASSUME NEW x \in 0 .. 255
  PROVE  FromBytes1(LeBytes(x, 1)) = x
<1>1. x \div 1 = x
  BY SMT
<1> QED
  BY <1>1, SMT DEF FromBytes1, LeBytes, Weight

(* Two bytes: the index of a constant in the narrow form.                  *)
THEOREM U16IsReadBack ==
  ASSUME NEW x \in Nat, x < 65536
  PROVE  FromBytes2(LeBytes(x, 2)) = x
<1>1. x \div 1 = x
  BY SMT
<1>2. x \div 256 \in 0 .. 255
  BY SMT
<1>3. (x \div 256) % 256 = x \div 256
  BY <1>2, SMT
<1>4. (x % 256) + 256 * (x \div 256) = x
  BY SMT
<1> QED
  BY <1>1, <1>3, <1>4, SMT DEF FromBytes2, LeBytes, Weight

(* Four bytes: the wide form, and the other indices.                       *)
THEOREM U32IsReadBack ==
  ASSUME NEW x \in Nat, x < 4294967296
  PROVE  FromBytes4(LeBytes(x, 4)) = x
<1> DEFINE b == LeBytes(x, 4)
<1>1. /\ b[1] = x % 256
      /\ b[2] = (x \div 256) % 256
      /\ b[3] = (x \div 65536) % 256
      /\ b[4] = (x \div 16777216) % 256
  <2>1. x \div 1 = x
    BY SMT
  <2> QED
    BY <2>1, SMT DEF LeBytes, Weight
<1> HIDE DEF b
<1>2. x \div 16777216 \in 0 .. 255
  BY SMT
<1>3. b[4] = x \div 16777216
  BY <1>1, <1>2, SMT
<1>4. b[1] + 256 * b[2] + 65536 * b[3] + 16777216 * (x \div 16777216) = x
  BY <1>1, SMT
<1> QED
  BY <1>3, <1>4, SMT DEF FromBytes4, b

(* An i32 too, whichever its sign: a jump back has a negative displacement.*)
THEOREM I32IsReadBack ==
  ASSUME NEW x \in I32
  PROVE  FromSigned4(LeBytes(x, 4)) = x
<1> DEFINE b == LeBytes(x, 4)
<1>1. b \in [1 .. 4 -> 0 .. 255]
  BY BytesAreBytes, SMT DEF I32
<1>2. /\ b[1] = x % 256
      /\ b[2] = (x \div 256) % 256
      /\ b[3] = (x \div 65536) % 256
      /\ b[4] = (x \div 16777216) % 256
  <2>1. x \div 1 = x
    BY SMT DEF I32
  <2> QED
    BY <2>1, SMT DEF I32, LeBytes, Weight
<1> HIDE DEF b
<1>3. FromSigned4(b) = b[1] + 256 * b[2] + 65536 * b[3] + 16777216 * SignedByte(b[4])
  BY <1>1, SMT DEF FromSigned4, FromBytes4
<1>4. b[1] + 256 * b[2] + 65536 * b[3] + 16777216 * (x \div 16777216) = x
  BY <1>2, SMT DEF I32
<1>5. SignedByte(b[4]) = x \div 16777216
  BY <1>2, SMT DEF I32, SignedByte
<1> QED
  BY <1>3, <1>4, <1>5, SMT DEF b

-----------------------------------------------------------------------------
(* Putting elements of a sequence, those after m up to n, in the place of  *)
(* as many others.                                                         *)
Over(s, b, m, n) == SubSeq(s, 1, m) \o b \o SubSeq(s, n + 1, Len(s))

(* A stretch of a sequence replaced by another as long: the length stays,  *)
(* the stretch is the other one, and all else is what it was.              *)
LEMMA Overwritten ==
  ASSUME NEW S, NEW s \in Seq(S), NEW b \in Seq(S), NEW n \in Nat,
         NEW m \in Nat, n = m + Len(b), n <= Len(s)
  PROVE  /\ Len(Over(s, b, m, n)) = Len(s)
         /\ \A k \in 1 .. Len(s) : k \notin m + 1 .. n => Over(s, b, m, n)[k] = s[k]
         /\ SubSeq(Over(s, b, m, n), m + 1, n) = b
<1> DEFINE low == SubSeq(s, 1, m)
           high == SubSeq(s, n + 1, Len(s))
           front == low \o b
           done == front \o high
<1>1. /\ Len(s) \in Nat /\ Len(b) \in Nat /\ m <= n
      /\ \A k \in 1 .. Len(s) : s[k] \in S
  BY LenProperties, ElementOfSeq
<1>2. Len(b) = n - m
  BY <1>1
<1>3. /\ low \in Seq(S) /\ Len(low) = m
      /\ \A k \in 1 .. m : low[k] = s[k]
  <2>1. \A k \in 1 .. m : s[k] \in S
    BY <1>1
  <2>2. /\ SubSeq(s, 1, m) \in Seq(S)
        /\ Len(SubSeq(s, 1, m)) = IF 1 <= m THEN m - 1 + 1 ELSE 0
        /\ \A k \in 1 .. m - 1 + 1 : SubSeq(s, 1, m)[k] = s[1 + k - 1]
    BY <1>1, <2>1, SubSeqProperties
  <2> QED
    BY <1>1, <2>2
<1>4. /\ high \in Seq(S) /\ Len(high) = Len(s) - n
      /\ \A k \in 1 .. Len(s) - n : high[k] = s[n + k]
  <2>1. \A k \in n + 1 .. Len(s) : s[k] \in S
    BY <1>1
  <2>2. /\ SubSeq(s, n + 1, Len(s)) \in Seq(S)
        /\ Len(SubSeq(s, n + 1, Len(s))) = IF n + 1 <= Len(s) THEN Len(s) - (n + 1) + 1 ELSE 0
        /\ \A k \in 1 .. Len(s) - (n + 1) + 1 : SubSeq(s, n + 1, Len(s))[k] = s[n + 1 + k - 1]
    BY <1>1, <2>1, SubSeqProperties
  <2> QED
    BY <1>1, <2>2
<1> HIDE DEF low, high
<1>5. /\ front \in Seq(S) /\ Len(front) = n
      /\ \A k \in 1 .. n : front[k] = IF k <= m THEN low[k] ELSE b[k - m]
  <2>1. /\ low \o b \in Seq(S)
        /\ Len(low \o b) = Len(low) + Len(b)
        /\ \A k \in 1 .. Len(low) + Len(b) :
             (low \o b)[k] = IF k <= Len(low) THEN low[k] ELSE b[k - Len(low)]
    <3>1. low \in Seq(S) /\ b \in Seq(S)
      BY <1>3
    <3> QED
      BY <3>1, ConcatProperties, Zenon
  <2>2. Len(low) = m /\ Len(low) + Len(b) = n
    BY <1>1, <1>3
  <2> QED
    BY <2>1, <2>2
<1> HIDE DEF front
<1>6. /\ done \in Seq(S) /\ Len(done) = Len(s)
      /\ \A k \in 1 .. Len(s) : done[k] = IF k <= n THEN front[k] ELSE high[k - n]
  <2>1. /\ front \o high \in Seq(S)
        /\ Len(front \o high) = Len(front) + Len(high)
        /\ \A k \in 1 .. Len(front) + Len(high) :
             (front \o high)[k] = IF k <= Len(front) THEN front[k] ELSE high[k - Len(front)]
    <3>1. front \in Seq(S) /\ high \in Seq(S)
      BY <1>4, <1>5
    <3> QED
      BY <3>1, ConcatProperties, Zenon
  <2>2. Len(front) = n /\ Len(front) + Len(high) = Len(s)
    BY <1>1, <1>4, <1>5
  <2> QED
    BY <2>1, <2>2
<1> HIDE DEF done
<1>7. \A k \in 1 .. Len(s) : k \notin m + 1 .. n => done[k] = s[k]
  <2> SUFFICES ASSUME NEW k \in 1 .. Len(s), k \notin m + 1 .. n
               PROVE  done[k] = s[k]
    OBVIOUS
  <2>1. CASE k <= m
    BY <1>1, <1>3, <1>5, <1>6, <2>1
  <2>2. CASE k > n
    <3>1. /\ k - n \in 1 .. Len(s) - n /\ ~(k <= n) /\ n + (k - n) = k
      BY <1>1, <2>2
    <3> QED
      BY <1>4, <1>6, <3>1
  <2> QED
    BY <1>1, <2>1, <2>2
<1>8. SubSeq(done, m + 1, n) = b
  <2>1. \A k \in 1 .. Len(b) : done[m + k] = b[k]
    <3> SUFFICES ASSUME NEW k \in 1 .. Len(b)
                 PROVE  done[m + k] = b[k]
      OBVIOUS
    <3> DEFINE q == m + k
    <3>1. q \in 1 .. n /\ q \in 1 .. Len(s) /\ ~(q <= m) /\ q - m = k
      BY <1>1, <1>2
    <3> HIDE DEF q
    <3>2. done[q] = front[q]
      BY <1>6, <3>1
    <3>3. front[q] = b[k]
      BY <1>5, <3>1
    <3> QED
      BY <3>2, <3>3 DEF q
  <2>2. \A k \in m + 1 .. n : done[k] \in S
    BY <1>1, <1>6, ElementOfSeq
  <2>3. /\ SubSeq(done, m + 1, n) \in Seq(S)
        /\ Len(SubSeq(done, m + 1, n)) = IF m + 1 <= n THEN n - (m + 1) + 1 ELSE 0
        /\ \A k \in 1 .. n - (m + 1) + 1 : SubSeq(done, m + 1, n)[k] = done[m + 1 + k - 1]
    BY <1>1, <2>2, SubSeqProperties
  <2>4. /\ Len(SubSeq(done, m + 1, n)) = Len(b)
        /\ \A k \in 1 .. Len(b) : SubSeq(done, m + 1, n)[k] = b[k]
    <3>1. Len(SubSeq(done, m + 1, n)) = Len(b)
      BY <1>1, <1>2, <2>3
    <3>2. \A k \in 1 .. Len(b) : k \in 1 .. n - (m + 1) + 1 /\ m + 1 + k - 1 = m + k
      BY <1>1, <1>2
    <3>3. \A k \in 1 .. Len(b) : SubSeq(done, m + 1, n)[k] = done[m + k]
      BY <2>3, <3>2, Zenon
    <3> QED
      BY <2>1, <3>1, <3>3, Zenon
  <2> QED
    BY <2>3, <2>4, SeqEqual
<1> QED
  BY <1>6, <1>7, <1>8 DEF Over, done, front, low, high

(* Correcting a jump changes its last four bytes and nothing else, and the *)
(* displacement then read there leads to the target, forwards or back, as  *)
(* long as it fits an i32 (Encoder::patch_jump).                           *)
THEOREM PatchedJumpLands ==
  ASSUME NEW code \in Seq(0 .. 255), NEW at \in Nat, NEW target \in Nat,
         NEW next \in Nat, next = at + InstructionLen(code[at + 1] + 1),
         next >= 4, next <= Len(code),
         target - next \in I32
  PROVE  LET done == PatchJump(code, at, target)
         IN  /\ Len(done) = Len(code)
             /\ \A k \in 1 .. Len(code) : k \notin next - 3 .. next => done[k] = code[k]
             /\ next + FromSigned4(SubSeq(done, next - 3, next)) = target
<1> DEFINE d == target - next
           bytes == LeBytes(d, 4)
           done == PatchJump(code, at, target)
<1>1. d \in Int /\ d \in I32 /\ next + d = target
  BY SMT DEF I32
<1>2. done = SubSeq(code, 1, next - 4) \o bytes \o SubSeq(code, next + 1, Len(code))
  BY SMT DEF PatchJump
<1> HIDE DEF d
<1>3. bytes \in Seq(0 .. 255) /\ Len(bytes) = 4
  BY <1>1, BytesAreASeq
<1>4. FromSigned4(bytes) = d
  BY <1>1, I32IsReadBack
<1> HIDE DEF bytes, done
<1>6. /\ Len(done) = Len(code)
      /\ \A k \in 1 .. Len(code) : k \notin next - 4 + 1 .. next => done[k] = code[k]
      /\ SubSeq(done, next - 4 + 1, next) = bytes
  <2> DEFINE m == next - 4
  <2>1. m \in Nat /\ next = m + Len(bytes)
    BY <1>3
  <2>2. done = Over(code, bytes, m, next)
    BY <1>2 DEF Over
  <2> HIDE DEF m
  <2>3. /\ Len(done) = Len(code)
        /\ \A k \in 1 .. Len(code) : k \notin m + 1 .. next => done[k] = code[k]
        /\ SubSeq(done, m + 1, next) = bytes
    <3>1. bytes \in Seq(0 .. 255)
      BY <1>3
    <3>2. m \in Nat
      BY <2>1
    <3>3. next = m + Len(bytes)
      BY <2>1
    <3>4. /\ code \in Seq(0 .. 255) /\ next \in Nat /\ next <= Len(code)
      OBVIOUS
    <3>5. /\ Len(Over(code, bytes, m, next)) = Len(code)
          /\ \A k \in 1 .. Len(code) : k \notin m + 1 .. next => Over(code, bytes, m, next)[k] = code[k]
          /\ SubSeq(Over(code, bytes, m, next), m + 1, next) = bytes
      BY ONLY <3>1, <3>2, <3>3, <3>4, Overwritten
    <3> QED
      BY <2>2, <3>5
  <2> QED
    BY <2>3 DEF m
<1>7. next - 4 + 1 = next - 3
  OBVIOUS
<1>8. next + FromSigned4(SubSeq(done, next - 3, next)) = target
  BY <1>1, <1>4, <1>6, <1>7
<1> QED
  BY <1>6, <1>7, <1>8 DEF done

-----------------------------------------------------------------------------
(* As values (Arith).                                                      *)

(* The machine's division of naturals, and of any number by one of them.   *)
LEMMA Division ==
  ASSUME NEW a \in Nat, NEW b \in Nat \ {0}
  PROVE  /\ a \div b \in Nat /\ a % b \in 0 .. b - 1
         /\ a = (a \div b) * b + (a % b)
         /\ a \div b <= a
OBVIOUS

(* Units rounded down to a whole number, and what is left of them.         *)
LEMMA RoundedDown ==
  ASSUME NEW u \in Int, NEW d \in Nat \ {0}
  PROVE  /\ u \div d \in Int /\ (u \div d) * d \in Int
         /\ (u \div d) * d <= u /\ u < (u \div d) * d + d
         /\ u % d = u - (u \div d) * d
OBVIOUS

(* A number that is in range is not changed by wrapping.                   *)
LEMMA WrappedInRange ==
  ASSUME NEW n \in Integers_
  PROVE  Wrapped(n) = n
<1>1. High \in Nat \ {0}
  BY PowersAssumption
<1>2. CASE n >= 0
  <2>1. n % (2 * High) = n
    BY <1>1, <1>2 DEF Integers_
  <2> QED
    BY <1>1, <1>2, <2>1 DEF Wrapped, Unsigned, Integers_
<1>3. CASE n < 0
  <2>1. n % (2 * High) = n + 2 * High
    BY <1>1, <1>3 DEF Integers_
  <2> QED
    BY <1>1, <1>3, <2>1 DEF Wrapped, Unsigned, Integers_
<1> QED
  BY <1>1, <1>2, <1>3 DEF Integers_

(* Whole numbers of units compare like what they are multiples of.         *)
LEMMA Multiples ==
  ASSUME NEW m \in Int, NEW n \in Int, NEW d \in Nat \ {0}
  PROVE  /\ m < n => m * d + d <= n * d
         /\ m <= n => m * d <= n * d
         /\ m * d \in Int
<1>1. \A k \in Nat : k * d >= 0 /\ (k + 1) * d = k * d + d
  OBVIOUS
<1>2. CASE m < n
  <2>1. PICK k \in Nat : n = m + (k + 1)
    <3>1. n - m - 1 \in Nat /\ n = m + ((n - m - 1) + 1)
      BY <1>2
    <3> QED
      BY <3>1
  <2>2. n * d = m * d + (k + 1) * d
    BY <2>1
  <2> QED
    BY <1>1, <1>2, <2>2
<1> QED
  BY <1>2

(* An integer and a float compare as the numbers they are, though the      *)
(* comparison is between integers (against).                               *)
THEOREM AgainstIsExact ==
  ASSUME NEW n \in Integers_, NEW u \in Int
  PROVE  Against(n, u) = Cmp(n * One, u)
<1> DEFINE q == u \div One
<1>1. /\ q \in Int /\ q * One \in Int
      /\ q * One <= u /\ u < q * One + One
  <2>1. One \in Nat \ {0}
    BY PowersAssumption
  <2> QED
    BY <2>1, RoundedDown
<1>2. /\ n \in Int /\ n * One \in Int
      /\ -High <= n /\ n < High
  BY PowersAssumption, Multiples DEF Integers_
<1>3. /\ n * One + One <= High * One
      /\ (-High) * One <= n * One
      /\ n < q => n * One + One <= q * One
      /\ q < n => q * One + One <= n * One
  BY <1>1, <1>2, Multiples, PowersAssumption
<1>4. (-High) * One = -(High * One) /\ High * One \in Int
  BY PowersAssumption
<1>5. One \in Nat \ {0}
  BY PowersAssumption
<1> HIDE DEF q
<1>6. CASE u >= High * One
  BY <1>1, <1>2, <1>3, <1>4, <1>5, <1>6 DEF Against, Cmp
<1>7. CASE u < -High * One
  BY <1>1, <1>2, <1>3, <1>4, <1>5, <1>7, PowersAssumption DEF Against, Cmp
<1>8. CASE ~(u >= High * One) /\ ~(u < -High * One)
  <2>1. Against(n, u) = IF n = q /\ u > q * One THEN -1 ELSE Cmp(n, q)
    BY <1>8 DEF Against, q
  <2>2. CASE n = q
    BY <2>1, <2>2, <1>1, <1>2 DEF Cmp
  <2>3. CASE n < q
    BY <2>1, <2>3, <1>1, <1>2, <1>3, <1>5 DEF Cmp
  <2>4. CASE q < n
    BY <2>1, <2>4, <1>1, <1>2, <1>3, <1>5 DEF Cmp
  <2> QED
    BY <1>1, <1>2, <2>2, <2>3, <2>4
<1> QED
  BY <1>6, <1>7, <1>8

-----------------------------------------------------------------------------
(* Numbers the machine may hold, of any size a float may have.             *)
Operands == {Int_(n) : n \in Integers_} \cup {Float(u) : u \in Int}

(* An operand is an integer or a float, of either the number it says.      *)
LEMMA OperandCases ==
  ASSUME NEW v \in Operands
  PROVE  \/ v.type = "int" /\ v.n \in Integers_ /\ v = Int_(v.n)
         \/ v.type = "float" /\ v.n \in Int /\ v = Float(v.n)
<1>1. CASE \E n \in Integers_ : v = Int_(n)
  BY <1>1 DEF Int_
<1>2. CASE \E u \in Int : v = Float(u)
  BY <1>2 DEF Float
<1> QED
  BY <1>1, <1>2 DEF Operands

(* The order of two numbers of either kind is the order of their exact     *)
(* values, whatever their size.                                            *)
THEOREM OrderIsExact ==
  ASSUME NEW l \in Operands, NEW r \in Operands
  PROVE  Order(l, r) = Cmp(Exact(l), Exact(r))
<1>1. One \in Nat \ {0} /\ High \in Nat \ {0} /\ Integers_ \subseteq Int
  BY PowersAssumption DEF Integers_
<1>2. CASE l.type = "int" /\ r.type = "int"
  <2>1. l.n \in Int /\ r.n \in Int
    BY <1>1, <1>2, OperandCases
  <2>2. /\ l.n < r.n => l.n * One + One <= r.n * One
        /\ r.n < l.n => r.n * One + One <= l.n * One
        /\ l.n * One \in Int /\ r.n * One \in Int
    BY <1>1, <2>1, Multiples
  <2>3. Order(l, r) = Cmp(l.n, r.n) /\ Exact(l) = l.n * One /\ Exact(r) = r.n * One
    BY <1>2 DEF Order, Exact
  <2>4. CASE l.n < r.n
    BY <1>1, <2>1, <2>2, <2>3, <2>4 DEF Cmp
  <2>5. CASE r.n < l.n
    BY <1>1, <2>1, <2>2, <2>3, <2>5 DEF Cmp
  <2>6. CASE l.n = r.n
    BY <2>1, <2>2, <2>3, <2>6 DEF Cmp
  <2> QED
    BY <2>1, <2>4, <2>5, <2>6
<1>3. CASE l.type = "float" /\ r.type = "float"
  BY <1>3 DEF Order, Exact
<1>4. CASE l.type = "int" /\ r.type = "float"
  <2>1. Order(l, r) = Against(l.n, r.n)
    BY <1>4 DEF Order
  <2>2. l.n \in Integers_ /\ r.n \in Int
    BY <1>4, OperandCases
  <2> QED
    BY <1>4, <2>1, <2>2, AgainstIsExact DEF Exact
<1>5. CASE l.type = "float" /\ r.type = "int"
  <2>1. Order(l, r) = -Against(r.n, l.n)
    BY <1>5 DEF Order
  <2>2. r.n \in Integers_ /\ l.n \in Int /\ r.n * One \in Int
    BY <1>1, <1>5, OperandCases, Multiples
  <2>3. Against(r.n, l.n) = Cmp(r.n * One, l.n)
    BY <2>2, AgainstIsExact
  <2> QED
    BY <1>5, <2>1, <2>2, <2>3 DEF Exact, Cmp
<1> QED
  BY <1>2, <1>3, <1>4, <1>5, OperandCases

(* The five comparisons of two numbers answer what their exact values say, *)
(* for every width and size: the state an operator leaves satisfies        *)
(* CompareIsExact.                                                         *)
THEOREM OperateComparesExactly ==
  ASSUME number \in Operands, NEW right \in Operands,
         NEW op \in Compares \cup {"Equal"}, Operate(op, right)
  PROVE  CompareIsExact'
<1> DEFINE a == Exact(number)
           b == Exact(right)
<1>1. One \in Nat \ {0} /\ High \in Nat \ {0} /\ Integers_ \subseteq Int
  BY PowersAssumption DEF Integers_
<1>2. a \in Int /\ b \in Int
  BY <1>1, OperandCases, Multiples DEF Exact
<1>3. Order(number, right) = Cmp(a, b) /\ Order(right, number) = Cmp(b, a)
  BY OrderIsExact
<1>4. /\ number.type \in {"int", "float"} /\ right.type \in {"int", "float"}
      /\ IsNumber(number) /\ IsNumber(right)
  BY OperandCases DEF IsNumber
<1>5. last' = [op |-> op, left |-> number, right |-> right, answer |-> Apply(op, number, right)]
  BY DEF Operate
<1>6. op \notin Ariths /\ op \notin Bitwises
  BY DEF Compares, Ariths, Bitwises
<1> HIDE DEF a, b
<1>7. CASE op = "Equal"
  <2>1. Apply(op, number, right) = Bool(a = b)
    BY <1>2, <1>3, <1>4, <1>6, <1>7 DEF Apply, Equal, Compares, Cmp
  <2> QED
    BY <1>4, <1>5, <1>7, <2>1 DEF CompareIsExact, Compares, a, b
<1>8. CASE op \in Compares
  <2>1. Apply(op, number, right) = Compare(op, number, right)
    <3>1. op \notin {"Equal", "Negate", "Complement"}
      BY <1>8 DEF Compares
    <3> QED
      BY <1>6, <1>8, <3>1 DEF Apply
  <2>2. op = "Lt" => Compare(op, number, right) = Bool(a < b)
    BY <1>2, <1>3, <1>4 DEF Compare, Cmp
  <2>3. op = "Le" => Compare(op, number, right) = Bool(a <= b)
    BY <1>2, <1>3, <1>4 DEF Compare, Cmp
  <2>4. op = "Gt" => Compare(op, number, right) = Bool(a > b)
    BY <1>2, <1>3, <1>4 DEF Compare, Cmp
  <2>5. op = "Ge" => Compare(op, number, right) = Bool(a >= b)
    BY <1>2, <1>3, <1>4 DEF Compare, Cmp
  <2>6. /\ last'.op = op /\ last'.left = number /\ last'.right = right
        /\ last'.answer = Compare(op, number, right)
    BY <1>5, <2>1
  <2>7. op \in {"Lt", "Le", "Gt", "Ge"}
    BY <1>8 DEF Compares
  <2>8. "nan" \notin {number.type, right.type}
    BY <1>4
  <2>9. CASE op = "Lt"
    BY <2>2, <2>6, <2>8, <2>9 DEF CompareIsExact, a, b
  <2>10. CASE op = "Le"
    BY <2>3, <2>6, <2>8, <2>10 DEF CompareIsExact, a, b
  <2>11. CASE op = "Gt"
    BY <2>4, <2>6, <2>8, <2>11 DEF CompareIsExact, a, b
  <2>12. CASE op = "Ge"
    BY <2>5, <2>6, <2>8, <2>12 DEF CompareIsExact, a, b
  <2> QED
    BY <2>7, <2>9, <2>10, <2>11, <2>12
<1> QED
  BY <1>7, <1>8

(* Two numbers are equal exactly when they are one key of a table: a float *)
(* that equals an integer is that integer's key, and no other float is.    *)
THEOREM EqualNumbersShareAKey ==
  ASSUME NEW l \in Operands, NEW r \in Operands
  PROVE  Equal(l, r) = Bool(TRUE) <=> Normalize(l) = Normalize(r)
<1>1. One \in Nat \ {0} /\ High \in Nat \ {0} /\ Integers_ = -High .. High - 1
  BY PowersAssumption DEF Integers_
<1>2. IsNumber(l) /\ IsNumber(r) /\ l.type # "nan" /\ r.type # "nan"
  BY OperandCases DEF IsNumber
<1>3. Exact(l) \in Int /\ Exact(r) \in Int
  BY <1>1, OperandCases, Multiples DEF Exact
<1>4. Equal(l, r) = Bool(TRUE) <=> Exact(l) = Exact(r)
  <2>1. Order(l, r) = 0 <=> Exact(l) = Exact(r)
    BY <1>3, OrderIsExact DEF Cmp
  <2>2. Equal(l, r) = Bool(Order(l, r) = 0)
    BY <1>2 DEF Equal
  <2>3. Bool(TRUE) # Bool(FALSE)
    <3>1. [type |-> "bool", n |-> 1] # [type |-> "bool", n |-> 0]
      <4>1. [type |-> "bool", n |-> 1].n # [type |-> "bool", n |-> 0].n
        OBVIOUS
      <4> QED
        BY <4>1
    <3> QED
      BY <3>1 DEF Bool
  <2> QED
    BY <2>1, <2>2, <2>3
<1>5. ASSUME NEW v \in Operands
      PROVE  \/ /\ HasInteger(v) /\ Normalize(v) = Int_(Integer(v))
                /\ Integer(v) \in Int /\ Exact(v) = Integer(v) * One
                /\ Integer(v) \in Integers_
             \/ /\ ~HasInteger(v) /\ Normalize(v) = v /\ v.type = "float"
                /\ Exact(v) = v.n
  <2>1. v.type # "nan"
    BY OperandCases
  <2>2. CASE v.type = "int"
    BY <1>1, <2>1, <2>2, OperandCases DEF HasInteger, Normalize, Integer, Exact
  <2>3. CASE v.type = "float" /\ ~HasInteger(v)
    BY <2>1, <2>3 DEF Normalize, Exact
  <2>4. CASE v.type = "float" /\ HasInteger(v)
    <3> DEFINE u == v.n
               q == u \div One
    <3>1. u \in Int
      BY <2>4, OperandCases
    <3>2. u % One = 0 /\ -High * One <= u /\ u < High * One
      BY <2>4 DEF HasInteger, IsWhole
    <3>3. q \in Int /\ q * One \in Int /\ u = q * One
      <4>1. q \in Int /\ q * One \in Int /\ u % One = u - q * One
        BY <1>1, <3>1, RoundedDown
      <4> HIDE DEF q, u
      <4> QED
        BY <3>1, <3>2, <4>1
    <3>4. Integer(v) = q
      BY <2>4 DEF Integer
    <3>5. Normalize(v) = Int_(Integer(v)) /\ Exact(v) = u
      BY <2>1, <2>4 DEF Normalize, Exact
    <3> HIDE DEF u, q
    <3>6. (-High) * One = -High * One /\ (-High) \in Int /\ High * One \in Int
      BY <1>1
    <3>7. ~(q < -High)
      <4>1. q < -High => q * One + One <= (-High) * One
        BY <1>1, <3>3, <3>6, Multiples
      <4> QED
        BY <1>1, <3>1, <3>2, <3>3, <3>6, <4>1
    <3>8. ~(High <= q)
      <4>1. High <= q => High * One <= q * One
        BY <1>1, <3>3, Multiples
      <4> QED
        BY <1>1, <3>1, <3>2, <3>3, <3>6, <4>1
    <3> QED
      BY <1>1, <2>4, <3>3, <3>4, <3>5, <3>7, <3>8
  <2> QED
    BY <2>2, <2>3, <2>4, OperandCases
<1>6. \A m \in Int, n \in Int : m * One = n * One => m = n
  BY <1>1, Multiples
<1>7. \A m, n : Int_(m) = Int_(n) => m = n
  <2>1. \A m : Int_(m).n = m
    BY DEF Int_
  <2> QED
    BY <2>1
<1>8. CASE HasInteger(l) /\ HasInteger(r)
  BY <1>4, <1>5, <1>6, <1>7, <1>8
<1>9. CASE ~HasInteger(l) /\ ~HasInteger(r)
  <2>1. l.type = "float" /\ r.type = "float"
    BY <1>5, <1>9
  <2>2. l = Float(l.n) /\ r = Float(r.n)
    BY <2>1, OperandCases
  <2> QED
    BY <1>4, <1>5, <1>9, <2>2
<1>10. ASSUME NEW v \in Operands, NEW w \in Operands, HasInteger(v), ~HasInteger(w)
       PROVE  Exact(v) # Exact(w) /\ Normalize(v) # Normalize(w)
  <2>1. /\ Normalize(v) = Int_(Integer(v)) /\ Exact(v) = Integer(v) * One
        /\ Integer(v) \in Integers_ /\ Integer(v) \in Int
        /\ Normalize(w) = w /\ w.type = "float" /\ Exact(w) = w.n /\ w.n \in Int
    BY <1>5, <1>10, OperandCases
  <2>2. Normalize(v) # Normalize(w)
    <3>1. Int_(Integer(v)).type = "int"
      BY DEF Int_
    <3> QED
      BY <2>1, <3>1
  <2>3. ASSUME w.n = Integer(v) * One PROVE FALSE
    <3> DEFINE m == Integer(v)
    <3>1. m \in Int /\ -High <= m /\ m < High
      BY <1>1, <2>1
    <3>2. (m * One) % One = 0
      <4>1. /\ (m * One) \div One \in Int /\ ((m * One) \div One) * One <= m * One
            /\ m * One < ((m * One) \div One) * One + One
            /\ (m * One) % One = m * One - ((m * One) \div One) * One
        BY <1>1, <3>1, RoundedDown, Multiples
      <4> DEFINE k == (m * One) \div One
      <4>2. k \in Int /\ k * One \in Int /\ m * One \in Int
        BY <1>1, <3>1, <4>1, Multiples
      <4> HIDE DEF k, m
      <4>3. ~(k < m) /\ ~(m < k)
        <5>1. /\ k < m => k * One + One <= m * One
              /\ m < k => m * One + One <= k * One
          BY <1>1, <3>1, <4>2, Multiples
        <5> QED
          BY <1>1, <4>1, <4>2, <5>1 DEF k
      <4>4. k = m
        BY <3>1, <4>2, <4>3
      <4> QED
        BY <4>1, <4>2, <4>4 DEF k
    <3>3. (-High) * One <= m * One /\ m * One + One <= High * One
      <4>1. -High \in Int /\ High \in Int
        BY <1>1
      <4> HIDE DEF m
      <4> QED
        BY <1>1, <3>1, <4>1, Multiples
    <3>4. (-High) * One = -High * One /\ High * One \in Int /\ m * One \in Int
      BY <1>1, <3>1, Multiples
    <3> HIDE DEF m
    <3>5. IsWhole(m * One)
      BY <1>1, <3>2, <3>3, <3>4 DEF IsWhole
    <3> QED
      BY <1>10, <2>1, <2>3, <3>5 DEF HasInteger, m
  <2> QED
    BY <2>1, <2>2, <2>3
<1> QED
  BY <1>4, <1>8, <1>9, <1>10

-----------------------------------------------------------------------------
(* Division of any two integers rounds down and its remainder has the      *)
(* divisor's sign, for every width; the one quotient that does not fit,    *)
(* the least integer by -1, wraps around and leaves nothing.               *)
THEOREM DivisionIsFloored ==
  ASSUME NEW a \in Integers_, NEW b \in Integers_, b # 0
  PROVE  \E q \in Int :
           /\ IsFloor(q, a, b)
           /\ FloorDiv(a, b) = Wrapped(q)
           /\ FloorMod(a, b) = a - q * b
           /\ IF b > 0 THEN FloorMod(a, b) \in 0 .. b - 1 ELSE FloorMod(a, b) \in b + 1 .. 0
<1> DEFINE A == Abs(a)
           B == Abs(b)
           k == A \div B
           r == A % B
<1>1. /\ High \in Nat \ {0} /\ a \in Int /\ b \in Int
      /\ -High <= a /\ a < High /\ -High <= b /\ b < High
  BY PowersAssumption DEF Integers_
<1>2. /\ A \in Nat /\ B \in Nat \ {0} /\ A <= High
      /\ A = IF a < 0 THEN -a ELSE a
      /\ B = IF b < 0 THEN -b ELSE b
  BY <1>1 DEF Abs
<1>3. k \in Nat /\ r \in 0 .. B - 1 /\ A = k * B + r /\ k <= A
  <2>1. \A x \in Nat, y \in Nat \ {0} :
          /\ x \div y \in Nat /\ (x % y) \in 0 .. y - 1
          /\ x = (x \div y) * y + (x % y) /\ x \div y <= x
    BY Division
  <2>2. A \in Nat /\ B \in Nat \ {0}
    BY <1>2
  <2> HIDE DEF A, B
  <2> QED
    BY <2>1, <2>2, Zenon
<1>4. /\ Quotient(a, b) = IF (a < 0) = (b < 0) THEN k ELSE -k
      /\ Remainder(a, b) = IF a < 0 THEN -r ELSE r
  BY DEF Quotient, Remainder
<1>5. \A n \in Int : -High <= n /\ n < High => Wrapped(n) = n
  BY <1>1, WrappedInRange DEF Integers_
<1> HIDE DEF A, B, k, r
<1>6. k * B \in Int /\ k * B = B * k /\ k <= k * B
  BY <1>2, <1>3, Multiples
<1>7. r # 0 => k < High
  BY <1>1, <1>2, <1>3, <1>6
<1>8. CASE b > 0 /\ a >= 0
  <2>1. B = b /\ A = a /\ k * b = k * B
    BY <1>1, <1>2, <1>8
  <2>2. FloorDiv(a, b) = Wrapped(k) /\ FloorMod(a, b) = r
    BY <1>1, <1>3, <1>4, <1>8 DEF FloorDiv, FloorMod
  <2> QED
    BY <1>1, <1>3, <1>6, <1>8, <2>1, <2>2 DEF IsFloor
<1>9. CASE b < 0 /\ a < 0
  <2>1. B = -b /\ A = -a /\ k * b = -(k * B)
    BY <1>1, <1>2, <1>3, <1>9
  <2>2. FloorDiv(a, b) = Wrapped(k) /\ FloorMod(a, b) = -r
    BY <1>1, <1>3, <1>4, <1>9 DEF FloorDiv, FloorMod
  <2> QED
    BY <1>1, <1>3, <1>6, <1>9, <2>1, <2>2 DEF IsFloor
<1>10. CASE b < 0 /\ a >= 0
  <2>1. B = -b /\ A = a /\ (-k) * b = k * B /\ (-k - 1) * b = k * B - b
    BY <1>1, <1>2, <1>3, <1>10
  <2>2. CASE r = 0
    <3>1. FloorDiv(a, b) = Wrapped(-k) /\ FloorMod(a, b) = 0
      BY <1>1, <1>3, <1>4, <1>10, <2>2 DEF FloorDiv, FloorMod
    <3>2. -k \in Int /\ IsFloor(-k, a, b) /\ 0 = a - (-k) * b
      BY <1>1, <1>3, <1>6, <1>10, <2>1, <2>2 DEF IsFloor
    <3> QED
      BY <1>1, <1>10, <3>1, <3>2
  <2>3. CASE r # 0
    <3>1. Wrapped(-k) = -k /\ Wrapped(-k - 1) = -k - 1
      BY <1>1, <1>3, <1>5, <1>7, <2>3
    <3>2. FloorDiv(a, b) = -k - 1 /\ FloorMod(a, b) = r + b
      BY <1>1, <1>3, <1>4, <1>10, <2>3, <3>1 DEF FloorDiv, FloorMod
    <3>3. -k - 1 \in Int /\ IsFloor(-k - 1, a, b) /\ r + b = a - (-k - 1) * b
      BY <1>1, <1>3, <1>6, <1>10, <2>1, <2>3 DEF IsFloor
    <3>4. r + b \in b + 1 .. 0
      BY <1>1, <1>3, <1>10, <2>1, <2>3
    <3> QED
      BY <1>1, <1>10, <3>1, <3>2, <3>3, <3>4
  <2> QED
    BY <2>2, <2>3
<1>11. CASE b > 0 /\ a < 0
  <2>1. B = b /\ A = -a /\ (-k) * b = -(k * B) /\ (-k - 1) * b = -(k * B) - b
    BY <1>1, <1>2, <1>3, <1>11
  <2>2. CASE r = 0
    <3>z. \A n \in Int : n >= 0 /\ n <= 0 => -n = 0
      OBVIOUS
    <3>r. r \in Int /\ r >= 0 /\ r <= 0
      BY <1>2, <1>3, <2>2
    <3>0. -r = 0
      BY <3>r, <3>z
    <3>s. a < 0 /\ ~(b < 0)
      BY <1>1, <1>11
    <3>1. FloorDiv(a, b) = Wrapped(-k) /\ FloorMod(a, b) = 0
      <4>1. Quotient(a, b) = -k
        BY <1>4, <3>s
      <4>2. Remainder(a, b) = 0
        BY <1>4, <3>0, <3>s
      <4> QED
        BY <4>1, <4>2 DEF FloorDiv, FloorMod
    <3>2. -k \in Int /\ IsFloor(-k, a, b) /\ 0 = a - (-k) * b
      BY <1>1, <1>3, <1>6, <1>11, <2>1, <2>2 DEF IsFloor
    <3> QED
      BY <1>1, <1>11, <3>1, <3>2
  <2>3. CASE r # 0
    <3>1. Wrapped(-k) = -k /\ Wrapped(-k - 1) = -k - 1
      BY <1>1, <1>3, <1>5, <1>7, <2>3
    <3>2. FloorDiv(a, b) = -k - 1 /\ FloorMod(a, b) = -r + b
      BY <1>1, <1>3, <1>4, <1>11, <2>3, <3>1 DEF FloorDiv, FloorMod
    <3>3. -k - 1 \in Int /\ IsFloor(-k - 1, a, b) /\ -r + b = a - (-k - 1) * b
      BY <1>1, <1>3, <1>6, <1>11, <2>1, <2>3 DEF IsFloor
    <3>4. -r + b \in 0 .. b - 1
      BY <1>1, <1>3, <1>11, <2>1, <2>3
    <3> QED
      BY <1>1, <1>11, <3>1, <3>2, <3>3, <3>4
  <2> QED
    BY <2>2, <2>3
<1> QED
  BY <1>1, <1>8, <1>9, <1>10, <1>11

===============================================================================
