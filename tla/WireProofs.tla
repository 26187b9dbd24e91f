------------------------------ MODULE WireProofs ------------------------------
(* What holds of the messages: numbers as bytes, the REALITY proof in a    *)
(* ClientHello, and the CONNECT header.                                    *)
EXTENDS HeaderCodec, RealityAuth, LibraryProofs

(***************************************************************************)
(* Numbers as bytes (Bytes).                                               *)
(***************************************************************************)
(* Dividing twice.                                                         *)
LEMMA DivideTwice ==
  ASSUME NEW n \in Nat, NEW p \in Nat \ {0}, NEW b \in Nat \ {0}
  PROVE  /\ b * p \in Nat \ {0}
         /\ (n \div p) \div b = n \div (b * p)
         /\ n % (b * p) = (n % p) + ((n \div p) % b) * p
<1> DEFINE q == n \div p
           r == n % p
           q2 == q \div b
           r2 == q % b
           w == b * p
           m == r + r2 * p
<1>1. w \in Nat \ {0}
  OBVIOUS
<1>2. q \in Nat /\ r \in 0..p - 1 /\ n = p * q + r
  BY Division
<1> HIDE DEF q, r
<1>3. q2 \in Nat /\ r2 \in 0..b - 1 /\ q = b * q2 + r2
  BY <1>2, Division
<1> HIDE DEF q2, r2
<1>4. m \in 0..w - 1
  <2>1. r2 * p <= (b - 1) * p /\ r2 * p \in Nat
    BY <1>3
  <2>2. (b - 1) * p = w - p
    OBVIOUS
  <2> DEFINE x == r2 * p
             y == (b - 1) * p
  <2>3. x \in Nat /\ x <= y /\ y = w - p
    BY <2>1, <2>2
  <2> HIDE DEF x, y, w
  <2>4. r + x \in 0..w - 1
    BY <1>1, <1>2, <2>3
  <2> QED
    BY <2>4 DEF x
<1>5. n = w * q2 + m
  <2>1. p * q = p * (b * q2) + p * r2
    BY <1>3
  <2>2. p * (b * q2) = w * q2 /\ p * r2 = r2 * p
    BY <1>3
  <2> DEFINE x == r2 * p
             y == w * q2
             z == p * q
  <2>3. z = y + x /\ x \in Int /\ y \in Int /\ n = z + r
    BY <1>2, <1>3, <2>1, <2>2
  <2> HIDE DEF x, y, z, w
  <2>4. n = y + (r + x)
    BY <1>2, <2>3
  <2> QED
    BY <2>4 DEF x, y
<1> HIDE DEF w, m
<1>6. n % w = m
  BY <1>1, <1>3, <1>4, <1>5, Remainder
<1>7. n \div w = q2
  BY <1>1, <1>3, <1>4, <1>5, Remainder
<1> QED
  BY <1>1, <1>6, <1>7 DEF w, m, r2, q2, q, r

-----------------------------------------------------------------------------
(* Induction over the numbers up to n.  The induction theorems of the      *)
(* library take an operator; this one takes a set.  Were m not in I, then  *)
(* adding one would map the numbers below the first gap into themselves    *)
(* and miss 0, but they are finitely many.                                 *)
LEMMA IntervalInduction ==
  ASSUME NEW n \in Nat, NEW I, 0 \in I, \A i \in 0..n : i \in I /\ i < n => i + 1 \in I
  PROVE  0..n \subseteq I
<1> SUFFICES ASSUME NEW m \in 0..n, m \notin I PROVE FALSE
  OBVIOUS
<1> DEFINE J == { i \in 0..m : \A k \in 0..m : k <= i => k \in I }
           f == [i \in J |-> i + 1]
<1>1. IsFiniteSet(J)
  <2>1. IsFiniteSet(0..m)
    BY FS_Interval
  <2> QED
    BY <2>1, FS_Subset
<1>2. 0 \in J /\ J \subseteq Nat /\ \A i \in J : i + 1 \in J
  OBVIOUS
<1> HIDE DEF J
<1>3. f \in Injection(J, J)
  BY <1>2 DEF Injection, IsInjective
<1>4. \A i \in J : f[i] # 0
  BY <1>2
<1>5. f \notin Surjection(J, J)
  BY <1>2, <1>4 DEF Surjection
<1> QED
  BY <1>1, <1>3, <1>5, FS_Injection

(* A function defined by recursion up to n exists.                         *)
StaysIn(step, V) == \A v \in V, i \in Nat : step[<<v, i>>] \in V

Recursive(f, z, step, n) == f[0] = z /\ \A i \in 1..n : f[i] = step[<<f[i - 1], i>>]

LEMMA PrimitiveRecursion ==
  ASSUME NEW V, NEW z \in V, NEW step, StaysIn(step, V), NEW n \in Nat
  PROVE  \E f \in [0..n -> V] : Recursive(f, z, step, n)
<1> DEFINE G(f, m) == f \in [0..m -> V] /\ Recursive(f, z, step, m)
           I == { m \in 0..n : \E f : G(f, m) }
<1>1. 0 \in I
  <2>1. G([k \in 0..0 |-> z], 0)
    BY DEF Recursive
  <2>2. 0 \in 0..n
    OBVIOUS
  <2> HIDE DEF G
  <2> QED
    BY <2>1, <2>2
<1>2. ASSUME NEW m \in 0..n, m \in I, m < n PROVE m + 1 \in I
  <2>0. m \in Nat /\ m + 1 \in 0..n /\ m \in 0..m
    BY <1>2
  <2>1. PICK f : G(f, m)
    BY <1>2
  <2> DEFINE last == step[<<f[m], m + 1>>]
             g == [k \in 0..m+1 |-> IF k = m + 1 THEN last ELSE f[k]]
  <2>2. last \in V
    BY <2>0, <2>1 DEF StaysIn
  <2>3. f \in [0..m -> V] /\ f[0] = z /\ \A i \in 1..m : f[i] = step[<<f[i - 1], i>>]
    BY <2>1 DEF Recursive
  <2> HIDE DEF last, G
  <2>4. g \in [0..m+1 -> V]
    <3>1. \A k \in 0..m+1 : k # m + 1 => k \in 0..m
      BY <2>0
    <3> QED
      BY <2>2, <2>3, <3>1
  <2>5. \A k \in 0..m : g[k] = f[k]
    BY <2>0
  <2>6. g[m + 1] = last
    BY <2>0
  <2> HIDE DEF g
  <2>7. \A i \in 1..m+1 : g[i] = step[<<g[i - 1], i>>]
    <3> SUFFICES ASSUME NEW i \in 1..m+1 PROVE g[i] = step[<<g[i - 1], i>>]
      OBVIOUS
    <3>1. CASE i = m + 1
      <4>1. i - 1 = m /\ g[i - 1] = f[m]
        BY <2>0, <2>5, <3>1
      <4> QED
        BY <2>6, <3>1, <4>1 DEF last
    <3>2. CASE i \in 1..m
      <4>1. i \in 0..m /\ i - 1 \in 0..m
        BY <2>0, <3>2
      <4> QED
        BY <2>3, <2>5, <3>2, <4>1
    <3> QED
      BY <2>0, <3>1, <3>2
  <2>8. g[0] = z
    BY <2>0, <2>3, <2>5
  <2>9. G(g, m + 1)
    BY <2>4, <2>7, <2>8 DEF G, Recursive
  <2> QED
    BY <2>0, <2>9
<1> HIDE DEF I
<1>3. 0..n \subseteq I
  BY <1>1, <1>2, IntervalInduction
<1>4. n \in I
  BY <1>3
<1>5. PICK f : G(f, n)
  BY <1>4 DEF I
<1> QED
  BY <1>5

(* And one for all numbers: two that go as far agree.                      *)
LEMMA Recursion ==
  ASSUME NEW V, NEW z \in V, NEW step, StaysIn(step, V)
  PROVE  \E f \in [Nat -> V] : f[0] = z /\ \A i \in Nat \ {0} : f[i] = step[<<f[i - 1], i>>]
<1> DEFINE G(g, n) == g \in [0..n -> V] /\ Recursive(g, z, step, n)
           F(n) == CHOOSE g : G(g, n)
           f == [n \in Nat |-> F(n)[n]]
<1>1. ASSUME NEW n \in Nat PROVE G(F(n), n)
  <2>1. \E g : G(g, n)
    <3>1. PICK g \in [0..n -> V] : Recursive(g, z, step, n)
      BY PrimitiveRecursion
    <3>2. G(g, n)
      BY <3>1
    <3> HIDE DEF G
    <3> QED
      BY <3>2
  <2> HIDE DEF G
  <2> QED
    BY <2>1
<1> HIDE DEF F
<1>2. ASSUME NEW n \in Nat, NEW m \in 0..n PROVE F(n)[m] = F(m)[m]
  <2> DEFINE I == { i \in 0..m : F(n)[i] = F(m)[i] }
  <2>1. m \in Nat /\ G(F(n), n) /\ G(F(m), m)
    BY <1>1
  <2>2. 0 \in I
    BY <2>1 DEF Recursive
  <2>3. ASSUME NEW i \in 0..m, i \in I, i < m PROVE i + 1 \in I
    <3>1. i + 1 \in 1..m /\ i + 1 \in 1..n /\ (i + 1) - 1 = i /\ i + 1 \in 0..m
      BY <2>3
    <3>2. F(n)[i + 1] = step[<<F(n)[i], i + 1>>] /\ F(m)[i + 1] = step[<<F(m)[i], i + 1>>]
      BY <2>1, <3>1 DEF Recursive
    <3> QED
      BY <2>3, <3>1, <3>2
  <2> HIDE DEF I
  <2>4. 0..m \subseteq I
    BY <2>1, <2>2, <2>3, IntervalInduction
  <2>5. m \in I
    BY <2>1, <2>4
  <2> QED
    BY <2>5 DEF I
<1>3. f \in [Nat -> V]
  <2>1. \A n \in Nat : F(n)[n] \in V
    <3> SUFFICES ASSUME NEW n \in Nat PROVE F(n)[n] \in V
      OBVIOUS
    <3>1. F(n) \in [0..n -> V] /\ n \in 0..n
      BY <1>1
    <3> QED
      BY <3>1
  <2> QED
    BY <2>1
<1>4. f[0] = z
  BY <1>1 DEF Recursive
<1>5. ASSUME NEW i \in Nat \ {0} PROVE f[i] = step[<<f[i - 1], i>>]
  <2>1. G(F(i), i) /\ i \in 1..i /\ i - 1 \in 0..i /\ i - 1 \in Nat
    BY <1>1
  <2>2. F(i)[i] = step[<<F(i)[i - 1], i>>]
    BY <2>1 DEF Recursive
  <2>3. F(i)[i - 1] = F(i - 1)[i - 1]
    BY <1>2, <2>1
  <2>4. f[i] = F(i)[i] /\ f[i - 1] = F(i - 1)[i - 1]
    BY <2>1
  <2> QED
    BY <2>2, <2>3, <2>4
<1> HIDE DEF f
<1> QED
  BY <1>3, <1>4, <1>5

(* A recursive definition is a choice among the functions that satisfy its *)
(* equation: with one there is, it satisfies it.                           *)
LEMMA Powers ==
  ASSUME Base \in Nat \ {0}
  PROVE  /\ Power[0] = 1
         /\ \A k \in Nat : Power[k] \in Nat \ {0} /\ Power[k + 1] = Base * Power[k]
<1> DEFINE Body(f) == [k \in Nat |-> IF k = 0 THEN 1 ELSE Base * f[k - 1]]
           step == [p \in (Nat \ {0}) \X Nat |-> Base * p[1]]
           V == Nat \ {0}
<1>1. \A v \in V, i \in Nat : step[<<v, i>>] = Base * v /\ Base * v \in V
  OBVIOUS
<1>2. \E f \in [Nat -> V] : f[0] = 1 /\ \A i \in Nat \ {0} : f[i] = step[<<f[i - 1], i>>]
  <2>1. 1 \in V
    OBVIOUS
  <2> HIDE DEF step, V
  <2>2. StaysIn(step, V)
    BY <1>1 DEF StaysIn
  <2> QED
    BY <2>1, <2>2, Recursion
<1>3. PICK f \in [Nat -> V] : f[0] = 1 /\ \A i \in Nat \ {0} : f[i] = step[<<f[i - 1], i>>]
  BY <1>2
<1> HIDE DEF step
<1>4. ASSUME NEW i \in Nat \ {0} PROVE f[i] = Base * f[i - 1]
  <2>1. i - 1 \in Nat /\ i \in Nat /\ f[i] = step[<<f[i - 1], i>>]
    BY <1>3
  <2>2. f[i - 1] \in V
    BY <2>1
  <2> HIDE DEF V
  <2> QED
    BY <1>1, <2>1, <2>2
<1>5. f = Body(f)
  BY <1>3, <1>4
<1>6. Power = Body(Power)
  <2>1. Power = CHOOSE g : g = Body(g)
    BY DEF Power
  <2> HIDE DEF Body
  <2> QED
    BY <1>5, <2>1
<1>7. Power[0] = 1 /\ \A k \in Nat : Power[k + 1] = Base * Power[k]
  <2>1. \A k \in Nat : Power[k] = IF k = 0 THEN 1 ELSE Base * Power[k - 1]
    BY <1>6
  <2>2. \A k \in Nat : k + 1 \in Nat /\ k + 1 # 0 /\ (k + 1) - 1 = k
    OBVIOUS
  <2> QED
    BY <2>1, <2>2
<1>8. ASSUME NEW k \in Nat PROVE Power[k] \in V
  <2> DEFINE I == { i \in 0..k : Power[i] \in V }
  <2>1. 0 \in I
    BY <1>7
  <2>2. ASSUME NEW i \in 0..k, i \in I, i < k PROVE i + 1 \in I
    <3>1. i \in Nat /\ i + 1 \in 0..k /\ Power[i] \in V
      BY <2>2
    <3>2. Power[i + 1] = Base * Power[i]
      BY <1>7, <3>1
    <3>3. Base * Power[i] \in V
      BY <3>1
    <3> QED
      BY <3>1, <3>2, <3>3
  <2> HIDE DEF I
  <2>3. 0..k \subseteq I
    BY <2>1, <2>2, IntervalInduction
  <2> QED
    BY <2>3 DEF I
<1> QED
  BY <1>7, <1>8

-----------------------------------------------------------------------------
(* Written and read again, a number that the bytes hold is what it was:    *)
(* the partial sums are the remainders of the number by the powers.        *)
LEMMA LittleEndian ==
  ASSUME Base \in Nat \ {0}, NEW n \in Nat, NEW len \in Nat
  PROVE  /\ FromLE(LE(n, len)) = n % Power[len]
         /\ LE(n, len) \in Seq({ Byte(b) : b \in 0..Base - 1 }) /\ Len(LE(n, len)) = len
<1> DEFINE bytes == LE(n, len)
           Body(g) == [i \in 0..Len(bytes) |-> IF i = 0 THEN 0 ELSE g[i - 1] + bytes[i][1] * Power[i - 1]]
           sum == CHOOSE g : g = Body(g)
           h == [i \in 0..len |-> n % Power[i]]
<1>1. ASSUME NEW i \in Nat
      PROVE  /\ Power[i] \in Nat \ {0} /\ (n \div Power[i]) % Base \in 0..Base - 1
             /\ n % Power[i + 1] = (n % Power[i]) + ((n \div Power[i]) % Base) * Power[i]
  <2>1. Power[i] \in Nat \ {0} /\ Power[i + 1] = Base * Power[i]
    BY Powers
  <2>2. n \div Power[i] \in Nat
    BY <2>1, Division
  <2>3. (n \div Power[i]) % Base \in 0..Base - 1
    BY <2>2, Division
  <2>4. n % (Base * Power[i]) = (n % Power[i]) + ((n \div Power[i]) % Base) * Power[i]
    BY <2>1, DivideTwice
  <2> QED
    BY <2>1, <2>3, <2>4
<1>2. Len(bytes) = len /\ bytes \in Seq({ Byte(b) : b \in 0..Base - 1 })
  <2>1. \A i \in 1..len : (n \div Power[i - 1]) % Base \in 0..Base - 1
    BY <1>1
  <2>2. \A i \in 1..len : Byte((n \div Power[i - 1]) % Base) \in { Byte(b) : b \in 0..Base - 1 }
    BY <2>1
  <2> QED
    BY <2>2 DEF LE
<1>3. \A i \in 1..len : bytes[i][1] = (n \div Power[i - 1]) % Base
  BY DEF LE, Byte
<1> HIDE DEF bytes
<1>4. n % Power[0] = 0
  BY Powers
<1>5. h = Body(h)
  <2>1. ASSUME NEW i \in 1..len
        PROVE  h[i] = h[i - 1] + bytes[i][1] * Power[i - 1]
    <3>1. i - 1 \in Nat /\ (i - 1) + 1 = i /\ i - 1 \in 0..len /\ i \in 0..len
      OBVIOUS
    <3>2. n % Power[i] = (n % Power[i - 1]) + ((n \div Power[i - 1]) % Base) * Power[i - 1]
      BY <1>1, <3>1
    <3> QED
      BY <1>3, <3>1, <3>2
  <2>2. h[0] = 0
    BY <1>4
  <2>3. \A i \in 0..len : i = 0 \/ i \in 1..len
    OBVIOUS
  <2> DEFINE e(i) == IF i = 0 THEN 0 ELSE h[i - 1] + bytes[i][1] * Power[i - 1]
  <2>4. \A i \in 0..len : h[i] = e(i)
    <3> HIDE DEF h
    <3> QED
      BY <2>1, <2>2, <2>3
  <2>5. h = [i \in 0..len |-> h[i]]
    OBVIOUS
  <2> HIDE DEF h
  <2>6. [i \in 0..len |-> h[i]] = [i \in 0..len |-> e(i)]
    BY <2>4
  <2>7. Body(h) = [i \in 0..len |-> e(i)]
    BY <1>2
  <2> QED
    BY <2>5, <2>6, <2>7
<1>6. sum = Body(sum)
  <2> HIDE DEF Body, h
  <2> QED
    BY <1>5
<1>7. sum[0] = 0 /\ \A i \in 1..len : sum[i] = sum[i - 1] + bytes[i][1] * Power[i - 1]
  <2> HIDE DEF sum
  <2> QED
    BY <1>2, <1>6
<1> HIDE DEF sum
<1>8. sum[len] = n % Power[len]
  <2> DEFINE I == { i \in 0..len : sum[i] = n % Power[i] }
  <2>1. 0 \in I
    BY <1>4, <1>7
  <2>2. ASSUME NEW i \in 0..len, i \in I, i < len PROVE i + 1 \in I
    <3>1. i \in Nat /\ i + 1 \in 1..len /\ (i + 1) - 1 = i /\ i + 1 \in 0..len /\ sum[i] = n % Power[i]
      BY <2>2
    <3>2. sum[i + 1] = sum[i] + bytes[i + 1][1] * Power[i]
      BY <1>7, <3>1
    <3>3. bytes[i + 1][1] = (n \div Power[i]) % Base
      BY <1>3, <3>1
    <3>4. sum[i + 1] = n % Power[i + 1]
      BY <1>1, <3>1, <3>2, <3>3
    <3> QED
      BY <3>1, <3>4
  <2> HIDE DEF I
  <2>3. 0..len \subseteq I
    BY <2>1, <2>2, IntervalInduction
  <2>4. len \in I
    BY <2>3
  <2> QED
    BY <2>4 DEF I
<1>9. FromLE(bytes) = sum[Len(bytes)]
  BY DEF FromLE, sum
<1> QED
  BY <1>2, <1>8, <1>9 DEF bytes

LEMMA BigEndian ==
  ASSUME Base \in Nat \ {0}, NEW n \in Nat, NEW len \in Nat
  PROVE  /\ FromBE(BE(n, len)) = n % Power[len]
         /\ BE(n, len) \in Seq({ Byte(b) : b \in 0..Base - 1 }) /\ Len(BE(n, len)) = len
<1> DEFINE bytes == BE(n, len)
           Body(g) == [i \in 0..Len(bytes) |-> IF i = 0 THEN 0 ELSE g[i - 1] * Base + bytes[i][1]]
           sum == CHOOSE g : g = Body(g)
           v(i) == (n \div Power[len - i]) % Power[i]
           h == [i \in 0..len |-> v(i)]
<1>1. ASSUME NEW i \in 1..len
      PROVE  /\ (n \div Power[len - i]) % Base \in 0..Base - 1
             /\ v(i) = v(i - 1) * Base + ((n \div Power[len - i]) % Base)
  <2> DEFINE p == Power[len - i]
             q == Power[i - 1]
             m == n \div p
  <2>1. /\ len - i \in Nat /\ i - 1 \in Nat /\ (len - i) + 1 = len - (i - 1) /\ (i - 1) + 1 = i
    OBVIOUS
  <2>2. /\ p \in Nat \ {0} /\ Power[len - (i - 1)] = Base * p
        /\ q \in Nat \ {0} /\ Power[i] = Base * q
    BY <2>1, Powers
  <2> HIDE DEF p, q
  <2>3. m \in Nat
    BY <2>2, Division
  <2>4. m % Base \in 0..Base - 1 /\ m \div Base = n \div (Base * p)
    <3>1. n \div (Base * p) = m \div Base
      BY <2>2, DivideTwice
    <3> HIDE DEF m
    <3>2. m % Base \in 0..Base - 1
      BY <2>3, Division
    <3> QED
      BY <3>1, <3>2
  <2>5. q * Base \in Nat /\ m % (q * Base) = (m % Base) + ((m \div Base) % q) * Base
    <3> HIDE DEF m
    <3> QED
      BY <2>2, <2>3, DivideTwice
  <2>6. Base * q = q * Base
    BY <2>2
  <2>7. (m \div Base) % q \in Nat
    BY <2>2, <2>3, <2>4, Division
  <2>8. v(i) = m % (Base * q) /\ v(i - 1) = (m \div Base) % q
    BY <2>2, <2>4 DEF p, q
  <2> DEFINE x == m % Base
             y == ((m \div Base) % q) * Base
  <2>9. x \in Int /\ y \in Int
    BY <2>4, <2>7
  <2>10. x + y = y + x
    <3> HIDE DEF x, y
    <3> QED
      BY <2>9
  <2>11. m % (Base * q) = y + x
    BY <2>5, <2>6, <2>10
  <2> QED
    BY <2>4, <2>8, <2>11 DEF p
<1>2. Len(bytes) = len /\ bytes \in Seq({ Byte(b) : b \in 0..Base - 1 })
  <2>1. \A i \in 1..len : Byte((n \div Power[len - i]) % Base) \in { Byte(b) : b \in 0..Base - 1 }
    BY <1>1
  <2> QED
    BY <2>1 DEF BE
<1>3. \A i \in 1..len : bytes[i][1] = (n \div Power[len - i]) % Base
  BY DEF BE, Byte
<1>4. v(0) = 0
  <2>1. Power[len - 0] \in Nat \ {0} /\ Power[0] = 1
    BY Powers
  <2>2. n \div Power[len - 0] \in Nat
    BY <2>1, Division
  <2> QED
    BY <2>1, <2>2
<1>5. v(len) = n % Power[len]
  <2>1. len - len = 0 /\ Power[0] = 1 /\ n \div 1 = n
    BY Powers
  <2> QED
    BY <2>1
<1> HIDE DEF bytes, v
<1>6. h = Body(h)
  <2> DEFINE e(i) == IF i = 0 THEN 0 ELSE h[i - 1] * Base + bytes[i][1]
  <2>1. \A i \in 0..len : h[i] = e(i)
    <3> SUFFICES ASSUME NEW i \in 0..len PROVE h[i] = e(i)
      OBVIOUS
    <3>1. CASE i = 0
      BY <1>4, <3>1
    <3>2. CASE i \in 1..len
      <4>1. h[i - 1] = v(i - 1) /\ h[i] = v(i)
        BY <3>2
      <4> QED
        BY <1>1, <1>3, <3>2, <4>1
    <3> QED
      BY <3>1, <3>2
  <2>2. h = [i \in 0..len |-> h[i]]
    OBVIOUS
  <2> HIDE DEF h
  <2>3. [i \in 0..len |-> h[i]] = [i \in 0..len |-> e(i)]
    BY <2>1
  <2>4. Body(h) = [i \in 0..len |-> e(i)]
    BY <1>2
  <2> QED
    BY <2>2, <2>3, <2>4
<1>7. sum = Body(sum)
  <2> HIDE DEF Body, h
  <2> QED
    BY <1>6
<1>8. sum[0] = 0 /\ \A i \in 1..len : sum[i] = sum[i - 1] * Base + bytes[i][1]
  <2> HIDE DEF sum
  <2> DEFINE e(i) == IF i = 0 THEN 0 ELSE sum[i - 1] * Base + bytes[i][1]
  <2>1. sum = [i \in 0..len |-> e(i)]
    BY <1>2, <1>7
  <2>2. e(0) = 0 /\ \A i \in 1..len : e(i) = sum[i - 1] * Base + bytes[i][1]
    OBVIOUS
  <2>3. 0 \in 0..len /\ \A i \in 1..len : i \in 0..len
    OBVIOUS
  <2> HIDE DEF e
  <2>4. \A i \in 0..len : sum[i] = e(i)
    BY <2>1
  <2> QED
    BY <2>2, <2>3, <2>4
<1> HIDE DEF sum
<1>9. sum[len] = v(len)
  <2> DEFINE I == { i \in 0..len : sum[i] = v(i) }
  <2>1. 0 \in I
    BY <1>4, <1>8
  <2>2. ASSUME NEW i \in 0..len, i \in I, i < len PROVE i + 1 \in I
    <3>1. i + 1 \in 1..len /\ (i + 1) - 1 = i /\ i + 1 \in 0..len /\ sum[i] = v(i)
      BY <2>2
    <3>2. sum[i + 1] = sum[i] * Base + bytes[i + 1][1]
      BY <1>8, <3>1
    <3>3. v(i + 1) = v(i) * Base + bytes[i + 1][1]
      BY <1>1, <1>3, <3>1
    <3> QED
      BY <3>1, <3>2, <3>3
  <2> HIDE DEF I
  <2>3. 0..len \subseteq I
    BY <2>1, <2>2, IntervalInduction
  <2>4. len \in I
    BY <2>3
  <2> QED
    BY <2>4 DEF I
<1>10. FromBE(bytes) = sum[Len(bytes)]
  BY DEF FromBE, sum
<1> QED
  BY <1>2, <1>5, <1>9, <1>10 DEF bytes

(***************************************************************************)
(* The REALITY proof (RealityAuth).                                        *)
(***************************************************************************)
ByteSet == { Byte(b) : b \in 0..Base - 1 }

LEMMA Lengths ==
  /\ VersionLen \in Nat /\ StampLen \in Nat /\ ShortIdField \in Nat /\ MaxTimeDiff \in Nat
  /\ Base \in Nat \ {0}
BY AuthAssumption

LEMMA Zero == Byte(0) \in ByteSet
<1>1. 0 \in 0..Base - 1
  BY Lengths
<1> QED
  BY <1>1 DEF ByteSet

-----------------------------------------------------------------------------
(* What stands where in the concatenation of two sequences.                *)
Joins(t, a, b, V) ==
  /\ t \in Seq(V) /\ Len(t) = Len(a) + Len(b)
  /\ \A i \in 1..Len(a) : t[i] = a[i]
  /\ \A i \in 1..Len(b) : t[Len(a) + i] = b[i]

LEMMA Concatenation ==
  ASSUME NEW V, NEW a \in Seq(V), NEW b \in Seq(V)
  PROVE  Joins(a \o b, a, b, V)
<1>1. a \o b \in Seq(V) /\ Len(a \o b) = Len(a) + Len(b)
  BY ConcatProperties
<1>2. \A i \in 1..Len(a) + Len(b) : (a \o b)[i] = IF i <= Len(a) THEN a[i] ELSE b[i - Len(a)]
  BY ConcatProperties
<1>3. \A i \in 1..Len(b) : Len(a) + i \in 1..Len(a) + Len(b) /\ (Len(a) + i) - Len(a) = i /\ ~(Len(a) + i <= Len(a))
  OBVIOUS
<1>4. \A i \in 1..Len(a) : i \in 1..Len(a) + Len(b) /\ i <= Len(a)
  OBVIOUS
<1> DEFINE t == a \o b
<1> HIDE DEF t
<1>5. \A i \in 1..Len(a) + Len(b) : t[i] = IF i <= Len(a) THEN a[i] ELSE b[i - Len(a)]
  BY <1>2 DEF t
<1>6. \A i \in 1..Len(a) : t[i] = a[i]
  BY <1>4, <1>5
<1>7. \A i \in 1..Len(b) : t[Len(a) + i] = b[i]
  BY <1>3, <1>5
<1> QED
  BY <1>1, <1>6, <1>7 DEF t, Joins

(* p stands in t after the first k elements.                               *)
At(t, k, p) == \A i \in 1..Len(p) : t[k + i] = p[i]

LEMMA AtWithin ==
  ASSUME NEW V, NEW t, NEW u \in Seq(V), NEW p \in Seq(V), NEW k \in Nat, NEW m \in Nat,
         m + Len(p) <= Len(u), At(t, k, u), At(u, m, p)
  PROVE  At(t, k + m, p)
<1>1. Len(p) \in Nat /\ Len(u) \in Nat
  OBVIOUS
<1>2. \A i \in 1..Len(p) : m + i \in 1..Len(u) /\ k + (m + i) = k + m + i
  BY <1>1
<1> QED
  BY <1>2 DEF At

LEMMA AtPiece ==
  ASSUME NEW V, NEW t \in Seq(V), NEW p \in Seq(V), NEW k \in Nat, k + Len(p) <= Len(t), At(t, k, p)
  PROVE  SubSeq(t, k + 1, k + Len(p)) = p
<1> DEFINE s == SubSeq(t, k + 1, k + Len(p))
<1>1. Len(p) \in Nat /\ Len(t) \in Nat
  OBVIOUS
<1>2. \A i \in k + 1..k + Len(p) : i \in 1..Len(t)
  BY <1>1
<1>3. \A i \in k + 1..k + Len(p) : t[i] \in V
  BY <1>2, ElementOfSeq
<1>4. /\ s \in Seq(V) /\ Len(s) = IF k + 1 <= k + Len(p) THEN (k + Len(p)) - (k + 1) + 1 ELSE 0
      /\ \A i \in 1..(k + Len(p)) - (k + 1) + 1 : s[i] = t[(k + 1) + i - 1]
  BY <1>1, <1>3, SubSeqProperties
<1> HIDE DEF s
<1>5. Len(s) = Len(p)
  BY <1>1, <1>4
<1>6. \A i \in 1..Len(p) : i \in 1..(k + Len(p)) - (k + 1) + 1 /\ (k + 1) + i - 1 = k + i
  BY <1>1
<1>7. \A i \in 1..Len(p) : s[i] = p[i]
  BY <1>4, <1>6 DEF At
<1>8. s = p
  BY <1>4, <1>5, <1>7, SeqEqual
<1> QED
  BY <1>8 DEF s

(* The two halves of a concatenation are in it.                            *)
LEMMA AtHalves ==
  ASSUME NEW V, NEW a \in Seq(V), NEW b \in Seq(V)
  PROVE  /\ a \o b \in Seq(V) /\ Len(a \o b) = Len(a) + Len(b)
         /\ At(a \o b, 0, a) /\ At(a \o b, Len(a), b)
<1> DEFINE t == a \o b
<1>1. Joins(t, a, b, V)
  BY Concatenation, Zenon
<1> HIDE DEF t
<1>2. t \in Seq(V) /\ Len(t) = Len(a) + Len(b) /\ At(t, Len(a), b)
  BY <1>1 DEF Joins, At
<1>3. \A i \in 1..Len(a) : 0 + i = i
  OBVIOUS
<1>4. At(t, 0, a)
  BY <1>1, <1>3 DEF Joins, At
<1> QED
  BY <1>2, <1>4 DEF t

(* The pieces of a text are where they were put.                           *)
Placed(text, a, c, d) ==
  /\ SubSeq(text, Len(a) + 2, Len(a) + 1 + Len(c)) = c
  /\ SubSeq(text, Len(a) + Len(c) + 2, Len(text)) = d

LEMMA Pieces ==
  ASSUME NEW V, NEW a \in Seq(V), NEW b \in Seq(V), NEW c \in Seq(V), NEW d \in Seq(V), Len(b) = 1
  PROVE  Placed(a \o b \o c \o d, a, c, d)
<1> DEFINE text == a \o b \o c \o d
           la == Len(a)
           lc == Len(c)
           ld == Len(d)
           n == la + 1 + lc + ld
<1>1. /\ text \in Seq(V) /\ Len(text) = n
      /\ la \in Nat /\ lc \in Nat /\ ld \in Nat /\ n \in Nat
      /\ \A i \in 1..lc : text[la + 1 + i] = c[i]
      /\ \A i \in 1..ld : text[la + 1 + lc + i] = d[i]
  <2> DEFINE ab == a \o b
             abc == ab \o c
             t == abc \o d
  <2>1. la \in Nat /\ lc \in Nat /\ ld \in Nat
    OBVIOUS
  <2>2. Joins(ab, a, b, V)
    BY Concatenation, Zenon
  <2>3. Joins(abc, ab, c, V)
    <3>1. ab \in Seq(V)
      BY <2>2 DEF Joins
    <3> HIDE DEF ab
    <3> QED
      BY <3>1, Concatenation, Zenon
  <2>4. Joins(t, abc, d, V)
    <3>1. abc \in Seq(V)
      BY <2>3 DEF Joins
    <3> HIDE DEF abc
    <3> QED
      BY <3>1, Concatenation, Zenon
  <2>5. text = t
    OBVIOUS
  <2> HIDE DEF t, abc, ab, text
  <2>6. Len(abc) = la + 1 + lc /\ Len(t) = n
    BY <2>1, <2>2, <2>3, <2>4 DEF Joins
  <2>7. \A i \in 1..lc : la + 1 + i \in 1..Len(abc)
    BY <2>1, <2>6
  <2>8. \A i \in 1..lc : t[la + 1 + i] = c[i]
    BY <2>2, <2>3, <2>4, <2>7 DEF Joins
  <2> QED
    BY <2>1, <2>4, <2>5, <2>6, <2>8 DEF Joins
<1> HIDE DEF text, la, lc, ld
<1>2. SubSeq(text, la + 2, la + 1 + lc) = c
  <2> DEFINE k == la + 1
  <2>1. k \in Nat /\ k + 1 = la + 2 /\ k + lc = la + 1 + lc /\ k + lc <= Len(text)
    BY <1>1
  <2>2. At(text, k, c) /\ lc = Len(c)
    BY <1>1 DEF At, lc
  <2> HIDE DEF k
  <2>3. SubSeq(text, k + 1, k + lc) = c
    BY <1>1, <2>1, <2>2, AtPiece
  <2> QED
    BY <2>1, <2>3
<1>3. SubSeq(text, la + lc + 2, n) = d
  <2> DEFINE k == la + 1 + lc
  <2>1. k \in Nat /\ k + 1 = la + lc + 2 /\ k + ld = n /\ k + ld <= Len(text)
    BY <1>1
  <2>2. At(text, k, d) /\ ld = Len(d)
    BY <1>1 DEF At, ld
  <2> HIDE DEF k
  <2>3. SubSeq(text, k + 1, k + ld) = d
    BY <1>1, <2>1, <2>2, AtPiece
  <2> QED
    BY <2>1, <2>3
<1> QED
  BY <1>1, <1>2, <1>3 DEF text, la, lc, Placed

LEMMA Padding ==
  ASSUME NEW sid \in Seq(ByteSet)
  PROVE  Pad(sid) \in Seq(ByteSet) /\ Len(Pad(sid)) = ShortIdField
<1>1. Byte(0) \in ByteSet /\ ShortIdField \in Nat
  BY Zero, Lengths
<1>2. \A i \in 1..ShortIdField : (IF i <= Len(sid) THEN sid[i] ELSE Byte(0)) \in ByteSet
  BY <1>1
<1> QED
  BY <1>1, <1>2 DEF Pad

(* A sealed proof, when it is opened, tells the time by 32 bits and the    *)
(* first bytes of the short id.                                            *)
LEMMA Parsed ==
  ASSUME NEW sid \in Seq(ByteSet), NEW n \in Nat
  PROVE  LET payload == ParsePlaintext(BuildPlaintext(DefaultVersion, n, sid))
         IN  payload.timestamp = n % Stamp32 /\ payload.shortId = Pad(sid)
<1> DEFINE a == DefaultVersion
           b == <<Byte(0)>>
           c == BE(n, StampLen)
           d == Pad(sid)
           S == ByteSet \cup {Byte(1)}
<1>1. a \in Seq(S) /\ Len(a) = VersionLen
  BY Lengths DEF DefaultVersion
<1>2. b \in Seq(S) /\ Len(b) = 1
  BY Zero
<1>3. c \in Seq(S) /\ Len(c) = StampLen /\ FromBE(c) = n % Stamp32
  <2>1. c \in Seq(ByteSet) /\ Len(c) = StampLen /\ FromBE(c) = n % Power[StampLen]
    BY Lengths, BigEndian DEF ByteSet
  <2> HIDE DEF c
  <2> QED
    BY <2>1 DEF Stamp32
<1>4. d \in Seq(S)
  BY Padding
<1> HIDE DEF S
<1>5. BuildPlaintext(DefaultVersion, n, sid) = a \o b \o c \o d
  BY DEF BuildPlaintext
<1> HIDE DEF a, b, c, d
<1> DEFINE text == a \o b \o c \o d
<1>6. Placed(text, a, c, d)
  BY <1>1, <1>2, <1>3, <1>4, Pieces, Zenon
<1> HIDE DEF text
<1>7. /\ SubSeq(text, VersionLen + 2, VersionLen + 1 + StampLen) = c
      /\ SubSeq(text, VersionLen + StampLen + 2, Len(text)) = d
  BY <1>1, <1>3, <1>6 DEF Placed
<1> QED
  BY <1>3, <1>5, <1>7 DEF ParsePlaintext, text, d

(* The server compares fields, the property short ids.                     *)
LEMMA Fields ==
  ASSUME NEW a \in Seq(ByteSet), NEW b \in Seq(ByteSet)
  PROVE  Pad(a) = Pad(b) <=> SameField(a, b)
<1> DEFINE e(s, i) == IF i <= Len(s) THEN s[i] ELSE Byte(0)
           f(s, i) == IF i \in DOMAIN s THEN s[i] ELSE Byte(0)
<1>1. \A i \in 1..ShortIdField : e(a, i) = f(a, i) /\ e(b, i) = f(b, i)
  BY Lengths
<1>2. Pad(a) = [i \in 1..ShortIdField |-> e(a, i)] /\ Pad(b) = [i \in 1..ShortIdField |-> e(b, i)]
  BY DEF Pad
<1>3. SameField(a, b) <=> \A i \in 1..ShortIdField : f(a, i) = f(b, i)
  BY DEF SameField
<1> HIDE DEF e, f
<1> QED
  BY <1>1, <1>2, <1>3

-----------------------------------------------------------------------------
(* What holds of the connection at each of its stages.                     *)

Clients ==
  [pbk : { PublicFromPrivate(key) : key \in ServerKeys },
   sids : {<<>>} \cup { <<s>> : s \in ShortIds }, injector : {"unsupported", "patched"}]

Rewritten(ch) ==
  { [ch EXCEPT !.rest = "other"], [ch EXCEPT !.random = "other"],
    [ch EXCEPT !.keyShare = PublicFromPrivate("other")] }

ClocksAre == time \in Nat /\ skew \in Skews /\ client \in {NoClient} \cup Clients

Stamped ==
  result \in Busy =>
    client # NoClient /\ started \in Nat /\ started <= time /\ stamp = started % Stamp32

OnTheWay ==
  result = "sent" =>
    /\ client.injector = "patched"
    /\ hello = SealedHello
    /\ arriving \in {hello} \cup Rewritten(hello)

AuthInv == ClocksAre /\ Stamped /\ OnTheWay /\ AcceptedMeans /\ RelayedForCause

(* The proof opens for the server it was made for, and in the ClientHello  *)
(* it was made for, only.                                                  *)
LEMMA OpensForItsServer ==
  ASSUME client \in Clients, hello = SealedHello, arriving \in {hello} \cup Rewritten(hello)
  PROVE  /\ Opens(ServerKey, arriving) <=>
              arriving = hello /\ client.pbk = PublicFromPrivate(ServerKey)
         /\ arriving.sessionId = hello.sessionId
<1> DEFINE id == Seal("ephemeral", client.pbk, PickShortId, stamp, "fresh", "chrome")
           text == BuildPlaintext(DefaultVersion, stamp, PickShortId)
<1>1. PICK k \in ServerKeys : client.pbk = <<"public", k>>
  BY DEF Clients, PublicFromPrivate
<1>2. hello = [random |-> "fresh", keyShare |-> <<"public", "ephemeral">>, rest |-> "chrome", sessionId |-> id]
  BY DEF SealedHello, PublicFromPrivate
<1>3. /\ id.key = [shared |-> {"ephemeral", k}, salt |-> "fresh"] /\ id.nonce = "fresh"
      /\ id.aad = <<"fresh", <<"public", "ephemeral">>, "chrome">>
  BY <1>1 DEF Seal, DeriveAuthKey, Shared, PublicFromPrivate
<1> HIDE DEF id
<1>4. /\ arriving.sessionId = id
      /\ \/ arriving = hello
         \/ arriving # hello /\ <<arriving.random, arriving.keyShare, arriving.rest>> # id.aad
  <2>1. CASE arriving = hello
    BY <1>2, <2>1
  <2>2. CASE arriving = [hello EXCEPT !.rest = "other"]
    BY <1>2, <1>3, <2>2
  <2>3. CASE arriving = [hello EXCEPT !.random = "other"]
    BY <1>2, <1>3, <2>3
  <2>4. CASE arriving = [hello EXCEPT !.keyShare = PublicFromPrivate("other")]
    <3>1. arriving.keyShare = <<"public", "other">> /\ arriving.sessionId = id
      BY <1>2, <2>4 DEF PublicFromPrivate
    <3>2. arriving.keyShare # <<"public", "ephemeral">>
      BY <3>1
    <3> QED
      BY <1>2, <1>3, <3>1, <3>2
  <2> QED
    BY <2>1, <2>2, <2>3, <2>4 DEF Rewritten
<1>5. arriving # hello => ~ Opens(ServerKey, arriving)
  BY <1>4 DEF Opens
<1>6. ASSUME arriving = hello PROVE Opens(ServerKey, arriving) <=> k = ServerKey
  <2>1. Opens(ServerKey, hello) <=> id.key = DeriveAuthKey(Shared(ServerKey, hello.keyShare), hello.random)
    BY <1>2, <1>3 DEF Opens
  <2>2. DeriveAuthKey(Shared(ServerKey, hello.keyShare), hello.random)
          = [shared |-> {ServerKey, "ephemeral"}, salt |-> "fresh"]
    BY <1>2 DEF DeriveAuthKey, Shared
  <2>3. {"ephemeral", k} = {ServerKey, "ephemeral"} <=> k = ServerKey
    OBVIOUS
  <2>4. id.key = [shared |-> {ServerKey, "ephemeral"}, salt |-> "fresh"]
          <=> {"ephemeral", k} = {ServerKey, "ephemeral"}
    BY <1>3
  <2> QED
    BY <1>6, <2>1, <2>2, <2>3, <2>4
<1>7. client.pbk = PublicFromPrivate(ServerKey) <=> k = ServerKey
  BY <1>1 DEF PublicFromPrivate
<1>8. hello.sessionId = id
  BY <1>2
<1> QED
  BY <1>4, <1>5, <1>6, <1>7, <1>8

(* The date that travels is in the window when the one of the call is.     *)
LEMMA Window ==
  ASSUME NEW w \in Nat \ {0}, NEW s \in Nat, NEW t \in Nat, s <= t, NEW d \in Int, NEW m \in Nat,
         m - d < w
  PROVE  /\ t + d - (s % w) \in -m..m => t + d - s \in -m..m
         /\ s < w => s % w = s
<1> DEFINE q == s \div w
           r == s % w
<1>1. q \in Nat /\ r \in 0..w - 1 /\ s = w * q + r /\ (s < w => r = s)
  BY Division
<1> HIDE DEF q, r
<1>2. ASSUME q >= 1 PROVE w * q >= w
  BY <1>1, <1>2
<1> DEFINE x == w * q
<1>3. x \in Int
  BY <1>1
<1>4. q = 0 \/ x >= w
  BY <1>1, <1>2
<1>5. q = 0 => x = 0
  BY <1>1
<1> HIDE DEF x
<1>6. s = x + r
  BY <1>1 DEF x
<1>7. t + d - r \in -m..m => t + d - s \in -m..m
  <2>1. CASE x = 0
    BY <1>1, <1>6, <2>1
  <2>2. CASE x >= w
    BY <1>1, <1>3, <1>6, <2>2
  <2> QED
    BY <1>4, <1>5, <2>1, <2>2
<1> QED
  BY <1>1, <1>7 DEF r

(* The server's verdict.                                                   *)
LEMMA AnswerTells ==
  ASSUME AuthInv, result = "sent"
  PROVE  LET payload == ParsePlaintext(arriving.sessionId.text)
             ok == /\ Opens(ServerKey, arriving)
                   /\ payload.shortId \in { Pad(sid) : sid \in ServerIds }
                   /\ time + skew - payload.timestamp \in -MaxTimeDiff..MaxTimeDiff
             honest == /\ arriving = hello /\ client.pbk = PublicFromPrivate(ServerKey)
                       /\ \E sid \in ServerIds : SameField(sid, PickShortId)
                       /\ AgeOfStart \in -MaxTimeDiff..MaxTimeDiff
         IN  (ok => honest) /\ (honest => ok \/ started >= Stamp32)
<1> DEFINE payload == ParsePlaintext(arriving.sessionId.text)
<1>1. /\ client \in Clients /\ hello = SealedHello /\ arriving \in {hello} \cup Rewritten(hello)
      /\ started \in Nat /\ started <= time /\ time \in Nat /\ skew \in Skews
      /\ stamp = started % Stamp32
  BY DEF AuthInv, ClocksAre, Stamped, OnTheWay, Busy
<1>2. /\ skew \in Int /\ MaxTimeDiff \in Nat /\ MaxTimeDiff - skew < Stamp32
  BY <1>1, AuthAssumption DEF Stamp32
<1>3. Stamp32 \in Nat \ {0}
  BY Lengths, Powers DEF Stamp32
<1>4. stamp \in Nat /\ stamp % Stamp32 = stamp
  <2>1. started % Stamp32 \in 0..Stamp32 - 1
    BY <1>1, <1>3, Division
  <2>2. stamp \in Nat /\ stamp < Stamp32
    BY <1>1, <1>3, <2>1
  <2> QED
    BY <1>3, <2>2, Division
<1>5. PickShortId \in Seq(ByteSet)
  <2>1. client.sids = <<>> \/ \E s \in ShortIds : client.sids = <<s>>
    BY <1>1 DEF Clients
  <2>2. ShortIds \subseteq Seq(ByteSet)
    BY AuthAssumption DEF ByteSet
  <2>3. CASE client.sids = <<>>
    BY <2>3 DEF PickShortId
  <2>4. CASE \E s \in ShortIds : client.sids = <<s>>
    BY <2>2, <2>4 DEF PickShortId
  <2> QED
    BY <2>1, <2>3, <2>4
<1>6. payload.timestamp = stamp /\ payload.shortId = Pad(PickShortId)
  <2>1. arriving.sessionId.text = BuildPlaintext(DefaultVersion, stamp, PickShortId)
    <3>1. arriving.sessionId = SealedHello.sessionId
      BY <1>1, OpensForItsServer
    <3> QED
      BY <3>1 DEF SealedHello, Seal
  <2>2. LET p == ParsePlaintext(BuildPlaintext(DefaultVersion, stamp, PickShortId))
        IN  p.timestamp = stamp % Stamp32 /\ p.shortId = Pad(PickShortId)
    BY <1>4, <1>5, Parsed, Zenon
  <2> QED
    BY <1>4, <2>1, <2>2
<1> HIDE DEF payload
<1>7. payload.shortId \in { Pad(sid) : sid \in ServerIds }
        <=> \E sid \in ServerIds : SameField(sid, PickShortId)
  <2>1. ServerIds \subseteq Seq(ByteSet)
    BY AuthAssumption DEF ByteSet
  <2>2. \A sid \in ServerIds : Pad(sid) = Pad(PickShortId) <=> SameField(sid, PickShortId)
    BY <1>5, <2>1, Fields, Zenon
  <2> QED
    BY <1>6, <2>2
<1>8. /\ time + skew - stamp \in -MaxTimeDiff..MaxTimeDiff => AgeOfStart \in -MaxTimeDiff..MaxTimeDiff
      /\ started < Stamp32 => stamp = started
  BY <1>1, <1>2, <1>3, Window DEF AgeOfStart
<1>9. Opens(ServerKey, arriving) <=> arriving = hello /\ client.pbk = PublicFromPrivate(ServerKey)
  BY <1>1, OpensForItsServer
<1>10. started < Stamp32 \/ started >= Stamp32
  BY <1>1, <1>3
<1>11. started < Stamp32 => AgeOfStart = time + skew - stamp
  BY <1>8 DEF AgeOfStart
<1> QED
  BY <1>6, <1>7, <1>8, <1>9, <1>10, <1>11, Zenon DEF payload

-----------------------------------------------------------------------------
LEMMA AuthInitially == AuthInit => AuthInv
<1> SUFFICES ASSUME AuthInit PROVE AuthInv
  OBVIOUS
<1>1. ClocksAre
  BY AuthAssumption DEF AuthInit, ClocksAre
<1>2. Stamped /\ OnTheWay /\ AcceptedMeans /\ RelayedForCause
  BY DEF AuthInit, Stamped, OnTheWay, AcceptedMeans, RelayedForCause, Busy
<1> QED
  BY <1>1, <1>2 DEF AuthInv

(* A step that ends or begins elsewhere than at the server's answer.       *)
LEMMA NotAnswered ==
  ASSUME result' \notin {"accepted", "relayed"}
  PROVE  AcceptedMeans' /\ RelayedForCause'
BY DEF AcceptedMeans, RelayedForCause

LEMMA AuthStep == AuthInv /\ [AuthNext]_authVars => AuthInv'
<1> SUFFICES ASSUME AuthInv, [AuthNext]_authVars PROVE AuthInv'
  OBVIOUS
<1> USE DEF AuthInv
<1>1. CASE BuildClient
  <2>1. PICK key \in ServerKeys, sids \in {<<>>} \cup { <<s>> : s \in ShortIds },
             injector \in {"unsupported", "patched"} :
          \/ client' = NoClient /\ result' \in {"shortIdTooLong", "boringBuild"}
          \/ /\ client' = [pbk |-> PublicFromPrivate(key), sids |-> sids, injector |-> injector]
             /\ result' = "idle"
    BY <1>1 DEF BuildClient
  <2>2. client' \in {NoClient} \cup Clients /\ result' \in {"shortIdTooLong", "boringBuild", "idle"}
    BY <2>1 DEF Clients
  <2>3. ClocksAre'
    BY <1>1, <2>2 DEF BuildClient, ClocksAre
  <2>4. Stamped' /\ OnTheWay'
    BY <2>2 DEF Stamped, OnTheWay, Busy
  <2> QED
    BY <2>2, <2>3, <2>4, NotAnswered
<1>2. CASE BeginConnect
  <2>1. ClocksAre'
    BY <1>2 DEF BeginConnect, ClocksAre
  <2>2. Stamped'
    BY <1>2 DEF BeginConnect, ClocksAre, Stamped
  <2>3. OnTheWay'
    BY <1>2 DEF BeginConnect, OnTheWay
  <2>4. result' = "connecting"
    BY <1>2 DEF BeginConnect
  <2> QED
    BY <2>1, <2>2, <2>3, <2>4, NotAnswered
<1>3. CASE TcpConnect
  <2>1. ClocksAre'
    BY <1>3 DEF TcpConnect, ClocksAre
  <2>2. Stamped'
    BY <1>3 DEF TcpConnect, Stamped, Busy
  <2>3. OnTheWay'
    BY <1>3 DEF TcpConnect, OnTheWay
  <2>4. result' \in {"connected", "tcpConnect"}
    BY <1>3 DEF TcpConnect
  <2> QED
    BY <2>1, <2>2, <2>3, <2>4, NotAnswered
<1>4. CASE Handshake
  <2>1. ClocksAre'
    BY <1>4 DEF Handshake, ClocksAre
  <2>2. client # NoClient /\ client \in Clients
    BY <1>4 DEF Handshake, Stamped, Busy, ClocksAre
  <2>3. /\ result' \in {"sent", "boringConfig", "sessionIdInjectionUnsupported"}
        /\ result' = "sent" => /\ client.injector # "unsupported"
                               /\ hello' = SealedHello /\ arriving' = hello'
    BY <1>4 DEF Handshake, CannotInstall
  <2>4. Stamped'
    BY <1>4, <2>3 DEF Handshake, Stamped, Busy
  <2>5. OnTheWay'
    <3>1. SealedHello' = SealedHello /\ client' = client
      BY <1>4 DEF Handshake, SealedHello, PickShortId
    <3>2. client.injector \in {"unsupported", "patched"}
      BY <2>2 DEF Clients
    <3> QED
      BY <2>3, <3>1, <3>2, Zenon DEF OnTheWay
  <2> QED
    BY <2>1, <2>3, <2>4, <2>5, NotAnswered
<1>5. CASE Rewrite
  <2>1. ClocksAre'
    BY <1>5 DEF Rewrite, ClocksAre
  <2>2. Stamped'
    BY <1>5 DEF Rewrite, Stamped, Busy
  <2>3. OnTheWay'
    <3>1. SealedHello' = SealedHello /\ client' = client /\ hello' = hello /\ result = "sent"
      BY <1>5 DEF Rewrite, SealedHello, PickShortId
    <3>2. arriving' \in Rewritten(hello)
      BY <1>5 DEF Rewrite, Rewritten
    <3> QED
      BY <3>1, <3>2, Zenon DEF OnTheWay
  <2>4. result' = "sent"
    BY <1>5 DEF Rewrite
  <2> QED
    BY <2>1, <2>2, <2>3, <2>4, NotAnswered
<1>6. CASE Answer
  <2>1. ClocksAre'
    BY <1>6 DEF Answer, ClocksAre
  <2>2. result' \in {"accepted", "relayed"} /\ result = "sent"
    BY <1>6 DEF Answer
  <2>3. Stamped' /\ OnTheWay'
    BY <2>2 DEF Stamped, OnTheWay, Busy
  <2> DEFINE payload == ParsePlaintext(arriving.sessionId.text)
             ok == /\ Opens(ServerKey, arriving)
                   /\ payload.shortId \in { Pad(sid) : sid \in ServerIds }
                   /\ time + skew - payload.timestamp \in -MaxTimeDiff..MaxTimeDiff
             honest == /\ arriving = hello /\ client.pbk = PublicFromPrivate(ServerKey)
                       /\ \E sid \in ServerIds : SameField(sid, PickShortId)
                       /\ AgeOfStart \in -MaxTimeDiff..MaxTimeDiff
  <2>4. (ok => honest) /\ (honest => ok \/ started >= Stamp32)
    BY <2>2, AnswerTells
  <2>5. result' = IF ok THEN "accepted" ELSE "relayed"
    BY <1>6 DEF Answer
  <2>6. client.injector = "patched"
    BY <2>2 DEF OnTheWay
  <2>7. UNCHANGED <<time, skew, client, stamp, started, hello, arriving>>
    BY <1>6 DEF Answer
  <2>8. /\ AgeOfStart' = AgeOfStart
        /\ (\E sid \in ServerIds : SameField(sid, PickShortId))'
             <=> \E sid \in ServerIds : SameField(sid, PickShortId)
    BY <2>7 DEF AgeOfStart, PickShortId, SameField
  <2> HIDE DEF ok
  <2>9. AcceptedMeans'
    BY <2>4, <2>5, <2>6, <2>7, <2>8 DEF AcceptedMeans
  <2>10. RelayedForCause'
    BY <2>4, <2>5, <2>7, <2>8 DEF RelayedForCause
  <2> QED
    BY <2>1, <2>3, <2>9, <2>10
<1>7. CASE HandshakeFails
  <2>1. ClocksAre'
    BY <1>7 DEF HandshakeFails, ClocksAre
  <2>2. result' = "handshake"
    BY <1>7 DEF HandshakeFails
  <2>3. Stamped' /\ OnTheWay'
    BY <2>2 DEF Stamped, OnTheWay, Busy
  <2> QED
    BY <2>1, <2>2, <2>3, NotAnswered
<1>8. CASE AuthTick
  <2>1. ClocksAre'
    BY <1>8 DEF AuthTick, ClocksAre
  <2>2. Stamped'
    BY <1>8 DEF AuthTick, Stamped, ClocksAre
  <2>3. OnTheWay'
    BY <1>8 DEF AuthTick, OnTheWay, SealedHello, PickShortId
  <2>4. result' \in Busy \cup {"idle"}
    BY <1>8 DEF AuthTick
  <2> QED
    BY <2>1, <2>2, <2>3, <2>4, NotAnswered DEF Busy
<1>9. CASE UNCHANGED authVars
  <2>1. ClocksAre' /\ Stamped'
    BY <1>9 DEF authVars, ClocksAre, Stamped
  <2>2. OnTheWay'
    BY <1>9 DEF authVars, OnTheWay, SealedHello, PickShortId
  <2>3. AcceptedMeans'
    BY <1>9 DEF authVars, AcceptedMeans, PickShortId, AgeOfStart, SameField
  <2>4. RelayedForCause'
    BY <1>9 DEF authVars, RelayedForCause, PickShortId, AgeOfStart, SameField
  <2> QED
    BY <2>1, <2>2, <2>3, <2>4
<1> QED
  BY <1>1, <1>2, <1>3, <1>4, <1>5, <1>6, <1>7, <1>8, <1>9 DEF AuthNext

(* What connect has taken, sealed and sent at each of its stages.          *)
THEOREM AuthInvariant == AuthSpec => []AuthInv
<1>1. AuthInit => AuthInv
  BY AuthInitially
<1>2. AuthInv /\ [AuthNext]_authVars => AuthInv'
  BY AuthStep
<1> QED
  BY <1>1, <1>2, PTL DEF AuthSpec

(* An accepted connection is the client's own, made for this server, and   *)
(* unaltered, known and of its time.                                       *)
THEOREM AcceptedIsMeant == AuthSpec => []AcceptedMeans
<1>1. AuthInv => AcceptedMeans
  BY DEF AuthInv
<1> QED
  BY <1>1, AuthInvariant, PTL

(* And one that has all that is not turned away.                           *)
THEOREM RelaysHaveACause == AuthSpec => []RelayedForCause
<1>1. AuthInv => RelayedForCause
  BY DEF AuthInv
<1> QED
  BY <1>1, AuthInvariant, PTL

(***************************************************************************)
(* The CONNECT header (HeaderCodec), for every length of its fields, every *)
(* destination and every way the bytes are cut up on their way.            *)
(*                                                                         *)
(* Layout says where each field of an encoded request stands.  Hence every *)
(* field that has arrived is read back as it was sent (InBuffer, with the  *)
(* round trips above for the numbers), and Parses says what the            *)
(* parser makes of any first part of a request.  The inductive invariant   *)
(* needs only that the buffer and the wire are the two halves of one       *)
(* request.                                                                *)
(***************************************************************************)

-----------------------------------------------------------------------------
(* Where the fields are.                                                   *)

(* What a client may send.                                                 *)
Requests ==
  [version : {Version, Version + 1}, key : {"secret", "other"}, stamp : Stamps, target : Targets,
   payload : Payloads]

(* How many bytes precede the host, the port and the MAC, and how many     *)
(* there are in all.                                                       *)
HostOff(target) == FixedLen + (IF target.atyp = AtypDomain THEN 1 ELSE 0)
PortOff(target) == HostOff(target) + Len(target.addr)
MacOff(target) == PortOff(target) + PortLen
HeaderLen(target) == MacOff(target) + MacLen

(* What the MAC covers; the request and what follows it at once.           *)
Signed(r) == <<Byte(r.version)>> \o LE(r.stamp, TsLen) \o EncodeAddr(r.target)
Whole(r) == EncodeRequest(r.version, r.key, r.stamp, r.target) \o r.payload

Items(r) ==
  ByteSet \cup {Byte(r.version), Byte(r.target.atyp)}
    \cup { <<"mac", r.key, Signed(r), i>> : i \in 1..MacLen }

(* Every field stands in t where the parser will look for it.              *)
LaidOut(t, r) ==
  /\ At(t, 0, <<Byte(r.version)>>)
  /\ At(t, 1, LE(r.stamp, TsLen))
  /\ At(t, 1 + TsLen, <<Byte(r.target.atyp)>>)
  /\ r.target.atyp = AtypDomain => At(t, FixedLen, <<Byte(Len(r.target.addr))>>)
  /\ At(t, HostOff(r.target), r.target.addr)
  /\ At(t, PortOff(r.target), BE(r.target.port, PortLen))
  /\ At(t, 0, Signed(r))
  /\ At(t, MacOff(r.target), Mac(r.key, Signed(r)))

LEMMA HeaderLengths ==
  /\ TsLen \in Nat \ {0} /\ V4Len \in Nat \ {0} /\ V6Len \in Nat \ {0} /\ PortLen \in Nat \ {0}
  /\ MacLen \in Nat \ {0} /\ Base \in Nat \ {0} /\ MaxDomainLen \in Nat /\ MaxSkew \in Nat
  /\ MaxHeader \in Nat /\ MaxHeaderLen <= MaxHeader /\ MaxDomainLen < Base
  /\ V4Len <= MaxDomainLen /\ V6Len <= MaxDomainLen
  /\ FixedLen = TsLen + 2 /\ FixedLen \in Nat
<1>1. {TsLen, V4Len, V6Len, PortLen, MacLen, Base} \subseteq Nat \ {0}
  BY HeaderAssumption
<1>2. TsLen \in Nat \ {0} /\ FixedLen = TsLen + 2 /\ FixedLen \in Nat
  BY <1>1 DEF FixedLen
<1> QED
  BY <1>1, <1>2, HeaderAssumption

LEMMA Dates == \A ts \in Stamps : ts \in Nat /\ ts % Power[TsLen] = ts
<1> DEFINE w == Power[TsLen]
<1>1. w \in Nat \ {0}
  BY HeaderLengths, Powers
<1>2. Stamps \subseteq 0..w - 1
  BY HeaderAssumption
<1> HIDE DEF w
<1>3. \A ts \in Stamps : ts \in Nat /\ ts < w
  BY <1>1, <1>2
<1>4. \A ts \in Stamps : ts % w = ts
  BY <1>1, <1>3, Division
<1> QED
  BY <1>3, <1>4 DEF w

LEMMA Asked ==
  ASSUME NEW target \in Targets
  PROVE  /\ target \in [atyp : {AtypV4, AtypDomain, AtypV6}, addr : Seq(ByteSet),
                        port : 0..Power[PortLen] - 1]
         /\ target.atyp = AtypV4 => Len(target.addr) = V4Len
         /\ target.atyp = AtypV6 => Len(target.addr) = V6Len
         /\ target.atyp = AtypDomain => Len(target.addr) < Base /\ target.addr \in Utf8
BY HeaderAssumption DEF ByteSet

LEMMA Offsets ==
  ASSUME NEW target \in Targets
  PROVE  /\ HostOff(target) \in Nat /\ PortOff(target) \in Nat /\ MacOff(target) \in Nat
         /\ HeaderLen(target) \in Nat /\ Len(target.addr) \in Nat
         /\ FixedLen <= HostOff(target) /\ HostOff(target) <= FixedLen + 1
         /\ target.atyp = AtypDomain => HostOff(target) = FixedLen + 1
         /\ target.atyp # AtypDomain => HostOff(target) = FixedLen
         /\ PortOff(target) = HostOff(target) + Len(target.addr)
         /\ MacOff(target) = PortOff(target) + PortLen
         /\ HeaderLen(target) = MacOff(target) + MacLen
<1>1. Len(target.addr) \in Nat
  BY Asked
<1>2. /\ HostOff(target) \in Nat /\ FixedLen <= HostOff(target) /\ HostOff(target) <= FixedLen + 1
      /\ target.atyp = AtypDomain => HostOff(target) = FixedLen + 1
      /\ target.atyp # AtypDomain => HostOff(target) = FixedLen
  BY HeaderLengths DEF HostOff
<1>3. /\ PortOff(target) = HostOff(target) + Len(target.addr)
      /\ MacOff(target) = PortOff(target) + PortLen
      /\ HeaderLen(target) = MacOff(target) + MacLen
  BY DEF PortOff, MacOff, HeaderLen
<1>4. PortLen \in Nat /\ MacLen \in Nat
  BY HeaderLengths
<1>5. PortOff(target) \in Nat
  BY <1>1, <1>2, <1>3
<1>6. MacOff(target) \in Nat
  BY <1>3, <1>4, <1>5
<1>7. HeaderLen(target) \in Nat
  BY <1>3, <1>4, <1>6
<1> QED
  BY <1>1, <1>2, <1>3, <1>5, <1>6, <1>7

LEMMA Layout ==
  ASSUME NEW r \in Requests
  PROVE  /\ Whole(r) \in Seq(Items(r)) /\ Len(Whole(r)) = HeaderLen(r.target) + Len(r.payload)
         /\ Len(r.payload) \in Nat /\ At(Whole(r), HeaderLen(r.target), r.payload)
         /\ EncodeRequest(r.version, r.key, r.stamp, r.target) \in Seq(Items(r))
         /\ Len(EncodeRequest(r.version, r.key, r.stamp, r.target)) = HeaderLen(r.target)
         /\ r.payload \in Seq(Items(r))
         /\ Len(Signed(r)) = MacOff(r.target) /\ Signed(r) \in Seq(Items(r))
         /\ LaidOut(Whole(r), r)
<1> DEFINE V == Items(r)
           g == r.target
           a1 == <<Byte(r.version)>>
           a2 == LE(r.stamp, TsLen)
           a12 == a1 \o a2
           b1 == <<Byte(g.atyp)>>
           b2 == IF g.atyp = AtypDomain THEN <<Byte(Len(g.addr) % Base)>> ELSE <<>>
           b12 == b1 \o b2
           b3 == g.addr
           b123 == b12 \o b3
           b4 == BE(g.port, PortLen)
           b == b123 \o b4
           sg == a12 \o b
           m == Mac(r.key, Signed(r))
           h == sg \o m
           pl == r.payload
           t == h \o pl
           d == IF g.atyp = AtypDomain THEN 1 ELSE 0
<1>1. g \in Targets /\ r.stamp \in Stamps /\ pl \in Payloads
  BY DEF Requests
<1>2. a1 \in Seq(V) /\ Len(a1) = 1 /\ b1 \in Seq(V) /\ Len(b1) = 1
  BY DEF Items
<1>3. ByteSet \subseteq V
  BY DEF Items
<1>4. a2 \in Seq(V) /\ Len(a2) = TsLen
  <2>1. r.stamp \in Nat
    BY <1>1, Dates
  <2>2. a2 \in Seq(ByteSet) /\ Len(a2) = TsLen
    BY <2>1, HeaderLengths, LittleEndian DEF ByteSet
  <2> HIDE DEF a2, V
  <2> QED
    BY <1>3, <2>2
<1>5. b3 \in Seq(V) /\ Len(b3) \in Nat
  <2>1. b3 \in Seq(ByteSet)
    BY <1>1, Asked
  <2> HIDE DEF b3, V
  <2> QED
    BY <1>3, <2>1
<1>6. b4 \in Seq(V) /\ Len(b4) = PortLen
  <2>1. g.port \in Nat
    BY <1>1, Asked
  <2>2. b4 \in Seq(ByteSet) /\ Len(b4) = PortLen
    BY <2>1, HeaderLengths, BigEndian DEF ByteSet
  <2> HIDE DEF b4, V
  <2> QED
    BY <1>3, <2>2
<1>7. b2 \in Seq(V) /\ Len(b2) = d /\ (g.atyp = AtypDomain => b2 = <<Byte(Len(b3))>>)
  <2>1. CASE g.atyp = AtypDomain
    <3>1. Len(b3) < Base /\ Len(b3) % Base = Len(b3) /\ Len(b3) \in 0..Base - 1
      BY <1>1, <1>5, <2>1, Asked, HeaderLengths, Division
    <3>2. Byte(Len(b3)) \in V
      BY <1>3, <3>1 DEF ByteSet
    <3>3. b2 = <<Byte(Len(b3))>> /\ d = 1
      BY <2>1, <3>1
    <3> HIDE DEF V, b2, b3
    <3> QED
      BY <2>1, <3>2, <3>3
  <2>2. CASE g.atyp # AtypDomain
    <3>1. b2 = <<>> /\ d = 0
      BY <2>2
    <3> HIDE DEF V, b2
    <3> QED
      BY <2>2, <3>1
  <2> QED
    BY <2>1, <2>2
<1>8. m \in Seq(V) /\ Len(m) = MacLen
  <2>1. \A i \in 1..MacLen : <<"mac", r.key, Signed(r), i>> \in V
    BY DEF Items
  <2> HIDE DEF V
  <2> QED
    BY <2>1, HeaderLengths DEF Mac
<1>9. pl \in Seq(V) /\ Len(pl) \in Nat
  <2>1. pl \in Seq(ByteSet)
    BY <1>1, HeaderAssumption DEF ByteSet
  <2> HIDE DEF pl, V
  <2> QED
    BY <1>3, <2>1
<1>10. Signed(r) = sg /\ Whole(r) = t /\ EncodeRequest(r.version, r.key, r.stamp, r.target) = h
  BY DEF Signed, Whole, EncodeRequest, EncodeAddr
<1> HIDE DEF V, a1, a2, b1, b2, b3, b4, m, pl
<1>11. a12 \in Seq(V) /\ Len(a12) = Len(a1) + Len(a2) /\ At(a12, 0, a1) /\ At(a12, Len(a1), a2)
  BY <1>2, <1>4, AtHalves, Zenon
<1>12. b12 \in Seq(V) /\ Len(b12) = Len(b1) + Len(b2) /\ At(b12, 0, b1) /\ At(b12, Len(b1), b2)
  BY <1>2, <1>7, AtHalves, Zenon
<1> HIDE DEF a12, b12
<1>13. b123 \in Seq(V) /\ Len(b123) = Len(b12) + Len(b3) /\ At(b123, 0, b12) /\ At(b123, Len(b12), b3)
  BY <1>5, <1>12, AtHalves, Zenon
<1> HIDE DEF b123
<1>14. b \in Seq(V) /\ Len(b) = Len(b123) + Len(b4) /\ At(b, 0, b123) /\ At(b, Len(b123), b4)
  BY <1>6, <1>13, AtHalves, Zenon
<1> HIDE DEF b
<1>15. sg \in Seq(V) /\ Len(sg) = Len(a12) + Len(b) /\ At(sg, 0, a12) /\ At(sg, Len(a12), b)
  BY <1>11, <1>14, AtHalves, Zenon
<1> HIDE DEF sg
<1>16. h \in Seq(V) /\ Len(h) = Len(sg) + Len(m) /\ At(h, 0, sg) /\ At(h, Len(sg), m)
  BY <1>8, <1>15, AtHalves, Zenon
<1> HIDE DEF h
<1>17. t \in Seq(V) /\ Len(t) = Len(h) + Len(pl) /\ At(t, 0, h) /\ At(t, Len(h), pl)
  BY <1>9, <1>16, AtHalves, Zenon
<1> HIDE DEF t
<1> DEFINE l3 == Len(b3)
<1>18. /\ Len(a12) = 1 + TsLen /\ Len(b12) = 1 + d /\ Len(b123) = 1 + d + l3
       /\ Len(b) = 1 + d + l3 + PortLen /\ Len(sg) = 1 + TsLen + (1 + d + l3 + PortLen)
       /\ Len(h) = 1 + TsLen + (1 + d + l3 + PortLen) + MacLen
       /\ l3 \in Nat /\ d \in Nat
  BY <1>2, <1>4, <1>5, <1>6, <1>7, <1>8, <1>11, <1>12, <1>13, <1>14, <1>15, <1>16, HeaderLengths
<1>19. /\ HostOff(g) = 1 + TsLen + (1 + d) /\ PortOff(g) = 1 + TsLen + (1 + d + l3)
       /\ MacOff(g) = Len(sg) /\ HeaderLen(g) = Len(h)
  <2>1. HostOff(g) = FixedLen + d /\ l3 = Len(g.addr)
    BY DEF HostOff, b3
  <2>2. /\ PortOff(g) = HostOff(g) + l3 /\ MacOff(g) = PortOff(g) + PortLen
        /\ HeaderLen(g) = MacOff(g) + MacLen
    BY <2>1 DEF PortOff, MacOff, HeaderLen
  <2>3. FixedLen = TsLen + 2 /\ TsLen \in Nat /\ PortLen \in Nat /\ MacLen \in Nat
    BY HeaderLengths
  <2> HIDE DEF d, l3, g
  <2>4. HostOff(g) = 1 + TsLen + (1 + d) /\ PortOff(g) = 1 + TsLen + (1 + d + l3)
    <3>1. d \in Nat /\ l3 \in Nat /\ HostOff(g) = FixedLen + d
      BY <1>18, <2>1
    <3>2. HostOff(g) = 1 + TsLen + (1 + d)
      BY <2>3, <3>1
    <3>3. PortOff(g) = 1 + TsLen + (1 + d + l3)
      BY <2>2, <2>3, <3>1, <3>2
    <3> QED
      BY <3>2, <3>3
  <2>5. MacOff(g) = Len(sg)
    BY <1>18, <2>2, <2>3, <2>4
  <2>6. HeaderLen(g) = Len(h)
    BY <1>18, <2>2, <2>3, <2>4
  <2> QED
    BY <2>4, <2>5, <2>6
<1> HIDE DEF d, l3
<1>20. At(t, 0, sg) /\ At(t, Len(sg), m)
  <2>1. 0 + Len(sg) <= Len(h) /\ Len(sg) + Len(m) <= Len(h) /\ Len(sg) \in Nat
        /\ 0 + 0 = 0 /\ 0 + Len(sg) = Len(sg)
    BY <1>8, <1>16, <1>18, HeaderLengths
  <2>2. At(t, 0 + 0, sg) /\ At(t, 0 + Len(sg), m)
    BY <1>8, <1>15, <1>16, <1>17, <2>1, AtWithin
  <2> QED
    BY <2>1, <2>2
<1>21. At(t, 0, a12) /\ At(t, 1 + TsLen, b)
  <2>1. 0 + Len(a12) <= Len(sg) /\ Len(a12) + Len(b) <= Len(sg) /\ Len(a12) \in Nat
        /\ 0 + 0 = 0 /\ 0 + Len(a12) = 1 + TsLen
    BY <1>15, <1>18, HeaderLengths
  <2>2. At(t, 0 + 0, a12) /\ At(t, 0 + Len(a12), b)
    BY <1>11, <1>14, <1>15, <1>20, <2>1, AtWithin
  <2> QED
    BY <2>1, <2>2
<1>22. At(t, 0, a1) /\ At(t, 1, a2)
  <2>1. 0 + Len(a1) <= Len(a12) /\ Len(a1) + Len(a2) <= Len(a12) /\ Len(a1) \in Nat
        /\ 0 + 0 = 0 /\ 0 + Len(a1) = 1
    BY <1>2, <1>4, <1>11, HeaderLengths
  <2>2. At(t, 0 + 0, a1) /\ At(t, 0 + Len(a1), a2)
    BY <1>2, <1>4, <1>11, <1>21, <2>1, AtWithin
  <2> QED
    BY <2>1, <2>2
<1> DEFINE k == 1 + TsLen
<1>23. At(t, k, b123) /\ At(t, k + (1 + d + l3), b4)
  <2>1. 0 + Len(b123) <= Len(b) /\ Len(b123) + Len(b4) <= Len(b) /\ Len(b123) \in Nat
        /\ k + 0 = k /\ k \in Nat /\ Len(b123) = 1 + d + l3
    BY <1>6, <1>14, <1>18, HeaderLengths
  <2>2. At(t, k + 0, b123) /\ At(t, k + Len(b123), b4)
    BY <1>6, <1>13, <1>14, <1>21, <2>1, AtWithin
  <2> QED
    BY <2>1, <2>2
<1>24. At(t, k, b12) /\ At(t, k + (1 + d), b3)
  <2>1. 0 + Len(b12) <= Len(b123) /\ Len(b12) + Len(b3) <= Len(b123) /\ Len(b12) \in Nat
        /\ k + 0 = k /\ k \in Nat /\ Len(b12) = 1 + d
    BY <1>5, <1>13, <1>18, HeaderLengths
  <2>2. At(t, k + 0, b12) /\ At(t, k + Len(b12), b3)
    BY <1>5, <1>12, <1>13, <1>23, <2>1, AtWithin
  <2> QED
    BY <2>1, <2>2
<1>25. At(t, k, b1) /\ At(t, k + 1, b2)
  <2>1. 0 + Len(b1) <= Len(b12) /\ Len(b1) + Len(b2) <= Len(b12) /\ Len(b1) \in Nat
        /\ k + 0 = k /\ k \in Nat /\ Len(b1) = 1
    BY <1>2, <1>7, <1>12, <1>18, HeaderLengths
  <2>2. At(t, k + 0, b1) /\ At(t, k + Len(b1), b2)
    BY <1>2, <1>7, <1>12, <1>24, <2>1, AtWithin
  <2> QED
    BY <2>1, <2>2
<1>26. k + 1 = FixedLen
  BY HeaderLengths
<1>27. LaidOut(t, r)
  <2>1. At(t, HostOff(g), b3) /\ At(t, PortOff(g), b4) /\ At(t, MacOff(g), m)
    BY <1>19, <1>20, <1>23, <1>24
  <2>2. g.atyp = AtypDomain => At(t, FixedLen, <<Byte(Len(b3))>>)
    BY <1>7, <1>25, <1>26
  <2> QED
    BY <1>10, <1>20, <1>22, <1>25, <2>1, <2>2 DEF LaidOut, a1, a2, b1, b3, b4, m
<1> QED
  BY <1>9, <1>10, <1>15, <1>16, <1>17, <1>19, <1>27 DEF V, pl

-----------------------------------------------------------------------------
(* What the parser makes of the first bytes of what was sent.              *)

(* buf is the first part of what r sends.                                  *)
Begins(buf, r) ==
  /\ buf \in Seq(Items(r)) /\ Len(buf) <= Len(Whole(r))
  /\ \A i \in 1..Len(buf) : buf[i] = Whole(r)[i]

TooLong(target) == target.atyp = AtypDomain /\ Len(target.addr) > MaxDomainLen

(* The answer the parser owes to the first n bytes of r.                   *)
RightAnswer(out, r, n, now) ==
  /\ out.err \in {"truncated", "none", "badVersion", "domainTooLong", "badMac", "stale"}
  /\ out.err = "truncated" =>
       /\ out.needed \in 1..HeaderLen(r.target) - n
       /\ TooLong(r.target) => n <= FixedLen
  /\ out.err = "none" =>
       /\ r.key = "secret" /\ r.version = Version
       /\ out.target = r.target /\ out.timestamp = r.stamp /\ Fresh(r.stamp, now)
       /\ out.consumed = HeaderLen(r.target) /\ HeaderLen(r.target) <= n
  /\ out.err = "badVersion" => r.version # Version
  /\ out.err = "domainTooLong" => TooLong(r.target)
  /\ out.err = "badMac" => r.key # "secret"
  /\ out.err = "stale" => r.key = "secret" /\ ~ Fresh(r.stamp, now)

(* A field that has arrived is read as it was sent.                        *)
Arrived(r, buf, k, p, last) == At(Whole(r), k, p) /\ last = k + Len(p) /\ last <= Len(buf)

LEMMA InBuffer ==
  ASSUME NEW r \in Requests, NEW buf, Begins(buf, r), NEW k \in Nat, NEW V, NEW p \in Seq(V),
         NEW last, Arrived(r, buf, k, p, last)
  PROVE  SubSeq(buf, k + 1, last) = p
<1>0. At(Whole(r), k, p) /\ last = k + Len(p) /\ last <= Len(buf)
  BY DEF Arrived
<1>1. Len(p) \in Nat /\ Len(buf) \in Nat /\ Len(buf) <= Len(Whole(r))
  BY DEF Begins
<1>2. \A i \in 1..Len(p) : k + i \in 1..Len(buf)
  BY <1>0, <1>1
<1>3. At(buf, k, p)
  BY <1>0, <1>2 DEF At, Begins
<1> DEFINE W == Items(r) \cup V
<1>4. buf \in Seq(W) /\ p \in Seq(W)
  <2>1. buf \in Seq(Items(r))
    BY DEF Begins
  <2> DEFINE X == Items(r)
  <2> HIDE DEF X
  <2>3. buf \in Seq(X \cup V)
    BY <2>1 DEF X
  <2> QED
    BY <2>3 DEF X
<1> HIDE DEF W
<1>5. SubSeq(buf, k + 1, k + Len(p)) = p
  BY <1>0, <1>3, <1>4, AtPiece
<1> QED
  BY <1>0, <1>5

LEMMA OneItem ==
  ASSUME NEW r \in Requests, NEW buf, Begins(buf, r), NEW k \in Nat, NEW x,
         At(Whole(r), k, <<x>>), k + 1 <= Len(buf)
  PROVE  buf[k + 1] = x
<1>1. k + 1 \in 1..Len(buf)
  BY DEF Begins
<1>2. buf[k + 1] = Whole(r)[k + 1]
  BY <1>1 DEF Begins
<1>3. Len(<<x>>) = 1 /\ <<x>>[1] = x
  OBVIOUS
<1>4. Whole(r)[k + 1] = x
  BY <1>3 DEF At
<1> QED
  BY <1>2, <1>4

LEMMA OfTruncated ==
  ASSUME NEW r, NEW n, NEW now, NEW x, x \in 1..HeaderLen(r.target) - n,
         TooLong(r.target) => n <= FixedLen
  PROVE  RightAnswer(Truncated(x), r, n, now)
BY DEF RightAnswer, Truncated

LEMMA MacTells ==
  ASSUME NEW key, NEW other, NEW text
  PROVE  Mac(key, text) = Mac(other, text) <=> key = other
<1>1. 1 \in 1..MacLen
  BY HeaderLengths
<1>2. Mac(key, text)[1] = <<"mac", key, text, 1>> /\ Mac(other, text)[1] = <<"mac", other, text, 1>>
  BY <1>1 DEF Mac
<1>3. <<"mac", key, text, 1>> = <<"mac", other, text, 1>> => key = other
  OBVIOUS
<1> QED
  BY <1>2, <1>3, Zenon

(* The host is asked for, refused or there.                                *)
Host(r) == [err |-> "none", addr |-> r.target.addr, next |-> PortOff(r.target) + 1]

LEMMA Addresses ==
  ASSUME NEW r \in Requests, NEW buf, Begins(buf, r)
  PROVE  LET g == r.target
         IN  Address(buf, g.atyp, HostOff(g) + 1, Len(g.addr)) =
               IF Len(buf) < PortOff(g) THEN Truncated(PortOff(g) - Len(buf)) ELSE Host(r)
<1> DEFINE g == r.target
           n == Len(buf)
           from == HostOff(g) + 1
           l == Len(g.addr)
           a == SubSeq(buf, from, from + l - 1)
<1>1. g \in Targets
  BY DEF Requests
<1>2. n \in Nat
  BY DEF Begins
<1>3. from + l - 1 = PortOff(g) /\ from + l = PortOff(g) + 1 /\ PortOff(g) \in Nat /\ l \in Nat
      /\ HostOff(g) \in Nat
  BY <1>1, Offsets
<1>4. ASSUME ~(n < PortOff(g)) PROVE a = g.addr
  <2>1. At(Whole(r), HostOff(g), g.addr)
    BY Layout DEF LaidOut
  <2>2. g.addr \in Seq(ByteSet)
    BY <1>1, Asked
  <2>3. from + l - 1 = HostOff(g) + l /\ from + l - 1 <= n
    BY <1>1, <1>2, <1>3, <1>4, Offsets
  <2> DEFINE q == g.addr
             k == HostOff(g)
             last == from + l - 1
  <2>4. Arrived(r, buf, k, q, last)
    BY <2>1, <2>3 DEF Arrived
  <2>5. q \in Seq(ByteSet) /\ k \in Nat
    BY <1>3, <2>2
  <2>6. SubSeq(buf, k + 1, last) = q
    <3> HIDE DEF q, k, last
    <3> QED
      BY <2>4, <2>5, InBuffer
  <2> QED
    BY <2>6
<1>5. g.atyp = AtypDomain => g.addr \in Utf8
  BY <1>1, Asked
<1>6. CASE n < PortOff(g)
  <2>1. Address(buf, g.atyp, from, l) = Truncated(PortOff(g) - n)
    BY <1>3, <1>6 DEF Address
  <2> QED
    BY <1>6, <2>1
<1>7. CASE ~(n < PortOff(g))
  <2>1. a = g.addr
    BY <1>4, <1>7
  <2>2. ~(n < from + l - 1) /\ ~(g.atyp = AtypDomain /\ a \notin Utf8)
    BY <1>3, <1>5, <1>7, <2>1
  <2>3. Address(buf, g.atyp, from, l) = [err |-> "none", addr |-> a, next |-> from + l]
    BY <2>2, Zenon DEF Address
  <2>4. Address(buf, g.atyp, from, l) = Host(r)
    BY <1>3, <2>1, <2>3 DEF Host
  <2> QED
    BY <1>7, <2>4
<1> QED
  BY <1>6, <1>7

LEMMA Hosts ==
  ASSUME NEW r \in Requests, NEW buf, Begins(buf, r), Len(buf) >= FixedLen
  PROVE  LET g == r.target
         IN  \/ ParseHost(buf) = Host(r) /\ Len(buf) >= PortOff(g) /\ ~ TooLong(g)
             \/ /\ ParseHost(buf) = Truncated(PortOff(g) - Len(buf))
                /\ Len(buf) < PortOff(g) /\ ~ TooLong(g)
             \/ ParseHost(buf) = Truncated(1) /\ Len(buf) <= FixedLen /\ g.atyp = AtypDomain
             \/ ParseHost(buf) = Refused("domainTooLong") /\ TooLong(g)
<1> DEFINE g == r.target
           n == Len(buf)
           address == Address(buf, g.atyp, HostOff(g) + 1, Len(g.addr))
<1>1. g \in Targets /\ n \in Nat
  BY DEF Requests, Begins
<1>2. buf[FixedLen][1] = g.atyp
  <2>1. At(Whole(r), 1 + TsLen, <<Byte(g.atyp)>>)
    BY Layout DEF LaidOut
  <2>3. 1 + TsLen \in Nat /\ (1 + TsLen) + 1 <= n /\ (1 + TsLen) + 1 = FixedLen
    BY <1>1, HeaderLengths
  <2>5. buf[(1 + TsLen) + 1] = Byte(g.atyp)
    BY <2>1, <2>3, OneItem
  <2> QED
    BY <2>3, <2>5 DEF Byte
<1>3. address = IF n < PortOff(g) THEN Truncated(PortOff(g) - n) ELSE Host(r)
  BY Addresses
<1>4. /\ g.atyp \in {AtypV4, AtypDomain, AtypV6}
      /\ g.atyp = AtypV4 => Len(g.addr) = V4Len
      /\ g.atyp = AtypV6 => Len(g.addr) = V6Len
  BY <1>1, Asked
<1>5. /\ g.atyp = AtypDomain => HostOff(g) + 1 = FixedLen + 2
      /\ g.atyp # AtypDomain => HostOff(g) + 1 = FixedLen + 1
  BY <1>1, Offsets, HeaderLengths
<1>6. n < PortOff(g) \/ (n >= PortOff(g) /\ ~(n < PortOff(g)))
  BY <1>1, Offsets
<1>7. AtypV4 # AtypDomain /\ AtypV6 # AtypDomain /\ AtypV4 # AtypV6
  BY DEF AtypV4, AtypV6, AtypDomain
<1> HIDE DEF address
<1>8. CASE g.atyp # AtypDomain
  <2>1. ParseHost(buf) = address
    <3>1. CASE g.atyp = AtypV4
      BY <1>2, <1>4, <1>5, <1>7, <3>1 DEF ParseHost, address
    <3>2. CASE g.atyp = AtypV6
      BY <1>2, <1>4, <1>5, <1>7, <3>2 DEF ParseHost, address
    <3> QED
      BY <1>4, <1>8, <3>1, <3>2
  <2>2. ~ TooLong(g)
    BY <1>8 DEF TooLong
  <2> QED
    BY <1>3, <1>6, <2>1, <2>2, Zenon
<1>9. CASE g.atyp = AtypDomain
  <2>1. ParseHost(buf) = ParseDomain(buf)
    BY <1>2, <1>7, <1>9 DEF ParseHost
  <2>2. CASE n <= FixedLen
    BY <1>9, <2>1, <2>2, Zenon DEF ParseDomain
  <2>3. CASE ~(n <= FixedLen)
    <3>1. buf[FixedLen + 1][1] = Len(g.addr)
      <4>1. At(Whole(r), FixedLen, <<Byte(Len(g.addr))>>)
        BY <1>9, Layout DEF LaidOut
      <4>3. FixedLen \in Nat /\ FixedLen + 1 <= n
        BY <1>1, <2>3, HeaderLengths
      <4>5. buf[FixedLen + 1] = Byte(Len(g.addr))
        BY <4>1, <4>3, OneItem
      <4> QED
        BY <4>5 DEF Byte
    <3>2. CASE Len(g.addr) > MaxDomainLen
      <4>1. ParseDomain(buf) = Refused("domainTooLong")
        BY <2>3, <3>1, <3>2, Zenon DEF ParseDomain
      <4> QED
        BY <1>9, <2>1, <3>2, <4>1, Zenon DEF TooLong
    <3>3. CASE ~(Len(g.addr) > MaxDomainLen)
      <4>1. ParseDomain(buf) = Address(buf, AtypDomain, FixedLen + 2, Len(g.addr))
        BY <2>3, <3>1, <3>3, Zenon DEF ParseDomain
      <4>2. ParseHost(buf) = address
        BY <1>5, <1>9, <2>1, <4>1, Zenon DEF address
      <4>3. ~ TooLong(g)
        BY <3>3 DEF TooLong
      <4> QED
        BY <1>3, <1>6, <4>2, <4>3, Zenon
    <3> QED
      BY <3>2, <3>3
  <2> QED
    BY <2>2, <2>3
<1> QED
  BY <1>8, <1>9

(* Port, MAC and freshness, once the host is known.                        *)
LEMMA TailParses ==
  ASSUME NEW r \in Requests, NEW buf, Begins(buf, r), NEW now, Len(buf) >= PortOff(r.target),
         r.version = Version, ~ TooLong(r.target)
  PROVE  RightAnswer(ParseTail(buf, "secret", now, Host(r)), r, Len(buf), now)
<1> DEFINE g == r.target
           n == Len(buf)
           next == PortOff(g) + 1
           needed == TailNeeded(buf, next)
           end == next + PortLen
           signed == SubSeq(buf, 1, end - 1)
           timestamp == FromLE(SubSeq(buf, 2, 1 + TsLen))
           mac == SubSeq(buf, end, end + MacLen - 1)
           out == ParseTail(buf, "secret", now, Host(r))
<1>1. g \in Targets /\ n \in Nat /\ r.stamp \in Stamps
  BY DEF Requests, Begins
<1>2. /\ PortOff(g) \in Nat /\ MacOff(g) \in Nat /\ HeaderLen(g) \in Nat
      /\ MacOff(g) = PortOff(g) + PortLen /\ HeaderLen(g) = MacOff(g) + MacLen
      /\ FixedLen <= PortOff(g) /\ PortLen \in Nat \ {0} /\ MacLen \in Nat \ {0}
  <2>1. /\ HostOff(g) \in Nat /\ Len(g.addr) \in Nat /\ FixedLen \in Nat /\ FixedLen <= HostOff(g)
        /\ PortOff(g) = HostOff(g) + Len(g.addr)
    BY <1>1, Offsets, HeaderLengths
  <2>2. FixedLen <= PortOff(g)
    BY <2>1
  <2> QED
    BY <1>1, <2>2, Offsets, HeaderLengths
<1>3. /\ end = MacOff(g) + 1 /\ end - 1 = MacOff(g) /\ end + MacLen - 1 = HeaderLen(g)
      /\ next + PortLen - 1 = MacOff(g) /\ next + PortLen + MacLen - 1 = HeaderLen(g)
  <2> DEFINE po == PortOff(g)
             mo == MacOff(g)
             hl == HeaderLen(g)
  <2>1. po \in Nat /\ mo = po + PortLen /\ hl = mo + MacLen /\ PortLen \in Nat /\ MacLen \in Nat
    BY <1>2
  <2>2. next = po + 1 /\ end = next + PortLen
    OBVIOUS
  <2> HIDE DEF po, mo, hl, next, end
  <2>3. end = mo + 1 /\ next + PortLen - 1 = mo
    BY <2>1, <2>2
  <2>4. end - 1 = mo /\ end + MacLen - 1 = hl /\ next + PortLen + MacLen - 1 = hl
    BY <2>1, <2>2
  <2> QED
    BY <2>3, <2>4 DEF po, mo, hl
<1>4. needed = IF n < MacOff(g) THEN MacOff(g) ELSE HeaderLen(g)
  BY <1>3 DEF TailNeeded
<1>5. Host(r).next = next /\ Host(r).addr = g.addr
  BY DEF Host
<1>6. out = IF n < needed THEN Truncated(needed - n)
            ELSE IF mac # Mac("secret", signed) THEN Refused("badMac")
            ELSE IF ~Fresh(timestamp, now) THEN Refused("stale")
            ELSE [err |-> "none",
                  target |-> [atyp |-> buf[FixedLen][1], addr |-> g.addr,
                              port |-> PortOf(SubSeq(buf, next, end - 1))],
                  timestamp |-> timestamp,
                  consumed |-> end + MacLen - 1]
  BY <1>5, Zenon DEF ParseTail
<1> HIDE DEF out
<1>7. CASE n < needed
  <2>1. needed - n \in 1..HeaderLen(g) - n
    BY <1>1, <1>2, <1>4, <1>7
  <2>2. out = Truncated(needed - n)
    BY <1>6, <1>7, Zenon
  <2> HIDE DEF needed
  <2> QED
    BY <2>1, <2>2, OfTruncated DEF out
<1>8. CASE ~(n < needed)
  <2>1. n >= HeaderLen(g)
    BY <1>1, <1>2, <1>4, <1>8
  <2>2. LaidOut(Whole(r), r) /\ Signed(r) \in Seq(Items(r)) /\ Len(Signed(r)) = MacOff(g)
    BY Layout
  <2>3. signed = Signed(r)
    <3>1. 0 + Len(Signed(r)) <= n /\ Len(Signed(r)) > 0 /\ 0 + 1 = 1 /\ 0 + Len(Signed(r)) = end - 1
      BY <1>1, <1>2, <1>3, <2>1, <2>2, HeaderLengths
    <3>2. At(Whole(r), 0, Signed(r))
      BY <2>2 DEF LaidOut
    <3> DEFINE p == Signed(r)
               last == end - 1
    <3>3. Arrived(r, buf, 0, p, last) /\ p \in Seq(Items(r))
      BY <2>2, <3>1, <3>2 DEF Arrived
    <3>4. SubSeq(buf, 0 + 1, last) = p
      <4> HIDE DEF p, last
      <4> QED
        BY <3>3, InBuffer
    <3> QED
      BY <3>1, <3>4
  <2>4. mac = Mac(r.key, Signed(r))
    <3> DEFINE m == Mac(r.key, Signed(r))
               V == { m[i] : i \in 1..MacLen }
    <3>1. m \in Seq(V) /\ Len(m) = MacLen
      BY <1>2 DEF Mac
    <3>2. At(Whole(r), MacOff(g), m)
      BY <2>2 DEF LaidOut
    <3> HIDE DEF m, V
    <3>3. MacOff(g) + Len(m) <= n /\ Len(m) > 0 /\ MacOff(g) + Len(m) = end + MacLen - 1
      BY <1>1, <1>2, <1>3, <2>1, <3>1
    <3> DEFINE k == MacOff(g)
               last == end + MacLen - 1
    <3>4. Arrived(r, buf, k, m, last) /\ k \in Nat
      BY <1>2, <3>2, <3>3 DEF Arrived
    <3>6. SubSeq(buf, k + 1, last) = m
      <4> HIDE DEF k, last
      <4> QED
        BY <3>1, <3>4, InBuffer
    <3>5. mac = m
      BY <1>3, <3>6
    <3> QED
      BY <3>5 DEF m
  <2>5. timestamp = r.stamp
    <3> DEFINE c == LE(r.stamp, TsLen)
    <3>1. c \in Seq(ByteSet) /\ Len(c) = TsLen /\ FromLE(c) = r.stamp % Power[TsLen]
      BY <1>1, Dates, HeaderLengths, LittleEndian DEF ByteSet
    <3>2. At(Whole(r), 1, c)
      BY <2>2 DEF LaidOut
    <3> HIDE DEF c
    <3>3. 1 + Len(c) <= n /\ Len(c) > 0 /\ 1 + 1 = 2
      BY <1>1, <1>2, <2>1, <3>1, HeaderLengths
    <3> DEFINE last == 1 + TsLen
    <3>4. Arrived(r, buf, 1, c, last)
      BY <3>1, <3>2, <3>3 DEF Arrived
    <3>7. SubSeq(buf, 1 + 1, last) = c
      <4> HIDE DEF last
      <4> QED
        BY <3>1, <3>4, InBuffer
    <3>5. SubSeq(buf, 2, 1 + TsLen) = c
      BY <3>3, <3>7
    <3>6. r.stamp % Power[TsLen] = r.stamp
      BY <1>1, Dates
    <3> QED
      BY <3>1, <3>5, <3>6
  <2>6. mac = Mac("secret", signed) <=> r.key = "secret"
    BY <2>3, <2>4, MacTells, Zenon
  <2> HIDE DEF mac, signed, needed, timestamp
  <2>7. CASE r.key # "secret"
    <3>1. out = Refused("badMac")
      BY <1>6, <1>8, <2>6, <2>7, Zenon
    <3> QED
      BY <2>7, <3>1 DEF RightAnswer, Refused, out
  <2>8. CASE r.key = "secret" /\ ~ Fresh(r.stamp, now)
    <3>1. out = Refused("stale")
      BY <1>6, <1>8, <2>5, <2>6, <2>8, Zenon
    <3> QED
      BY <2>8, <3>1 DEF RightAnswer, Refused, out
  <2>9. CASE r.key = "secret" /\ Fresh(r.stamp, now)
    <3> DEFINE target == [atyp |-> buf[FixedLen][1], addr |-> g.addr,
                          port |-> PortOf(SubSeq(buf, next, end - 1))]
    <3>1. out = [err |-> "none", target |-> target, timestamp |-> timestamp,
                 consumed |-> end + MacLen - 1]
      BY <1>6, <1>8, <2>5, <2>6, <2>9, Zenon
    <3>2. buf[FixedLen][1] = g.atyp
      <4>1. At(Whole(r), 1 + TsLen, <<Byte(g.atyp)>>)
        BY <2>2 DEF LaidOut
      <4>3. 1 + TsLen \in Nat /\ (1 + TsLen) + 1 <= n /\ (1 + TsLen) + 1 = FixedLen
        BY <1>1, <1>2, <2>1, HeaderLengths
      <4>5. buf[(1 + TsLen) + 1] = Byte(g.atyp)
        BY <4>1, <4>3, OneItem
      <4> QED
        BY <4>3, <4>5 DEF Byte
    <3>3. PortOf(SubSeq(buf, next, end - 1)) = g.port
      <4> DEFINE c == BE(g.port, PortLen)
                 w == Power[PortLen]
                 q == g.port
      <4>1. q \in 0..w - 1
        BY <1>1, Asked
      <4>2. w \in Nat \ {0}
        BY HeaderLengths, Powers
      <4> HIDE DEF q
      <4>0. q \in Nat /\ q < w
        <5> HIDE DEF w
        <5> QED
          BY <4>1, <4>2
      <4>3. c \in Seq(ByteSet) /\ Len(c) = PortLen /\ FromBE(c) = q % w
        <5>1. c = BE(q, PortLen)
          BY DEF q
        <5> HIDE DEF c
        <5> QED
          BY <4>0, <5>1, HeaderLengths, BigEndian DEF ByteSet
      <4>4. At(Whole(r), PortOff(g), c)
        BY <2>2 DEF LaidOut
      <4> HIDE DEF c, w
      <4>5. q % w = q
        BY <4>0, <4>2, Division
      <4>6. PortOff(g) + Len(c) <= n /\ Len(c) > 0 /\ PortOff(g) + Len(c) = end - 1
        BY <1>1, <1>2, <1>3, <2>1, <4>3
      <4> DEFINE k == PortOff(g)
                 last == end - 1
      <4>8. Arrived(r, buf, k, c, last) /\ k \in Nat
        BY <1>2, <4>4, <4>6 DEF Arrived
      <4>7. SubSeq(buf, k + 1, last) = c
        <5> HIDE DEF k, last
        <5> QED
          BY <4>3, <4>8, InBuffer
      <4> QED
        BY <4>3, <4>5, <4>6, <4>7 DEF PortOf, q
    <3>4. target = g
      <4>1. g \in [atyp : {AtypV4, AtypDomain, AtypV6}, addr : Seq(ByteSet), port : 0..Power[PortLen] - 1]
        BY <1>1, Asked
      <4> QED
        BY <3>2, <3>3, <4>1
    <3> HIDE DEF target, g
    <3>5. /\ out.err = "none" /\ out.target = target /\ out.timestamp = timestamp
          /\ out.consumed = end + MacLen - 1
      BY <3>1
    <3> QED
      BY <1>3, <2>1, <2>5, <2>9, <3>4, <3>5 DEF RightAnswer, out, g
  <2> QED
    BY <2>7, <2>8, <2>9
<1> QED
  BY <1>7, <1>8

(* All of it: what a buffer that holds the first bytes of what was sent is *)
(* parsed to.                                                              *)
LEMMA Parses ==
  ASSUME NEW r \in Requests, NEW buf, Begins(buf, r), NEW now
  PROVE  RightAnswer(ParseRequest(buf, "secret", now), r, Len(buf), now)
<1> DEFINE g == r.target
           n == Len(buf)
           host == ParseHost(buf)
           out == ParseRequest(buf, "secret", now)
<1>1. g \in Targets /\ n \in Nat
  BY DEF Requests, Begins
<1>2. /\ FixedLen \in Nat /\ PortOff(g) \in Nat /\ MacOff(g) \in Nat /\ HeaderLen(g) \in Nat
      /\ FixedLen + 1 <= HeaderLen(g) /\ PortOff(g) <= HeaderLen(g)
      /\ (g.atyp = AtypDomain => FixedLen + 1 <= PortOff(g))
  <2>1. /\ FixedLen \in Nat /\ PortLen \in Nat \ {0} /\ MacLen \in Nat \ {0}
    BY HeaderLengths
  <2>2. /\ HostOff(g) \in Nat /\ PortOff(g) \in Nat /\ MacOff(g) \in Nat /\ HeaderLen(g) \in Nat
        /\ Len(g.addr) \in Nat /\ FixedLen <= HostOff(g)
        /\ PortOff(g) = HostOff(g) + Len(g.addr) /\ MacOff(g) = PortOff(g) + PortLen
        /\ HeaderLen(g) = MacOff(g) + MacLen
    BY <1>1, Offsets
  <2>3. FixedLen + 1 <= HeaderLen(g) /\ PortOff(g) <= HeaderLen(g)
    BY <2>1, <2>2
  <2>4. g.atyp = AtypDomain => HostOff(g) = FixedLen + 1
    BY <1>1, Offsets
  <2>5. g.atyp = AtypDomain => FixedLen + 1 <= PortOff(g)
    BY <2>1, <2>2, <2>4
  <2> QED
    BY <2>1, <2>2, <2>3, <2>5
<1>3. out = IF n < FixedLen THEN Truncated(FixedLen - n)
            ELSE IF buf[1] # Byte(Version) THEN Refused("badVersion")
            ELSE IF host.err = "none" THEN ParseTail(buf, "secret", now, host) ELSE host
  BY DEF ParseRequest
<1> HIDE DEF out, host
<1>4. CASE n < FixedLen
  <2>1. FixedLen - n \in 1..HeaderLen(g) - n /\ n <= FixedLen
    BY <1>1, <1>2, <1>4
  <2>2. out = Truncated(FixedLen - n)
    BY <1>3, <1>4, Zenon
  <2> QED
    BY <2>1, <2>2, OfTruncated DEF out
<1>5. CASE ~(n < FixedLen)
  <2>0. n >= FixedLen
    BY <1>1, <1>2, <1>5
  <2>1. buf[1] = Byte(r.version)
    <3>1. At(Whole(r), 0, <<Byte(r.version)>>)
      BY Layout DEF LaidOut
    <3>2. 0 + 1 <= n /\ 0 + 1 = 1
      BY <1>1, <2>0, HeaderLengths
    <3>3. buf[0 + 1] = Byte(r.version)
      BY <3>1, <3>2, OneItem
    <3> QED
      BY <3>2, <3>3
  <2>2. CASE r.version # Version
    <3>1. buf[1] # Byte(Version)
      BY <2>1, <2>2 DEF Byte
    <3>2. out = Refused("badVersion")
      BY <1>3, <1>5, <3>1, Zenon
    <3> QED
      BY <2>2, <3>2 DEF RightAnswer, Refused, out
  <2>3. CASE r.version = Version
    <3>1. out = IF host.err = "none" THEN ParseTail(buf, "secret", now, host) ELSE host
      BY <1>3, <1>5, <2>1, <2>3, Zenon
    <3>2. CASE host = Host(r) /\ n >= PortOff(g) /\ ~ TooLong(g)
      <4>1. out = ParseTail(buf, "secret", now, Host(r))
        <5>1. host.err = "none"
          BY <3>2 DEF Host
        <5> QED
          BY <3>1, <3>2, <5>1, Zenon
      <4> QED
        BY <2>3, <3>2, <4>1, TailParses DEF out
    <3>3. CASE host = Truncated(PortOff(g) - n) /\ n < PortOff(g) /\ ~ TooLong(g)
      <4>1. out = Truncated(PortOff(g) - n)
        BY <3>1, <3>3 DEF Truncated
      <4>2. PortOff(g) - n \in 1..HeaderLen(g) - n
        BY <1>1, <1>2, <3>3
      <4> QED
        BY <3>3, <4>1, <4>2, OfTruncated DEF out
    <3>4. CASE host = Truncated(1) /\ n <= FixedLen /\ g.atyp = AtypDomain
      <4>1. out = Truncated(1)
        BY <3>1, <3>4 DEF Truncated
      <4>2. 1 \in 1..HeaderLen(g) - n
        BY <1>1, <1>2, <3>4
      <4> QED
        BY <3>4, <4>1, <4>2, OfTruncated DEF out
    <3>5. CASE host = Refused("domainTooLong") /\ TooLong(g)
      <4>1. out = Refused("domainTooLong")
        BY <3>1, <3>5 DEF Refused
      <4> QED
        BY <3>5, <4>1 DEF RightAnswer, Refused, out
    <3> QED
      BY <2>0, <3>2, <3>3, <3>4, <3>5, Hosts, Zenon DEF host
  <2> QED
    BY <2>2, <2>3
<1> QED
  BY <1>4, <1>5 DEF out

-----------------------------------------------------------------------------
(* The stream: what was read and what is still to be read.                 *)

Streams(b, w, t, V) == b \in Seq(V) /\ w \in Seq(V) /\ b \o w = t

(* A read takes bytes off the wire and adds them to the buffer.            *)
LEMMA Reading ==
  ASSUME NEW V, NEW b, NEW w, NEW t, Streams(b, w, t, V), NEW n \in 1..Len(w)
  PROVE  Streams(b \o SubSeq(w, 1, n), SubSeq(w, n + 1, Len(w)), t, V)
<1> DEFINE front == SubSeq(w, 1, n)
           rest == SubSeq(w, n + 1, Len(w))
<1>1. b \in Seq(V) /\ w \in Seq(V) /\ b \o w = t
  BY DEF Streams
<1>2. front \in Seq(V) /\ rest \in Seq(V)
  <2>1. \A i \in 1..n : i \in 1..Len(w)
    BY <1>1
  <2>2. \A i \in n + 1..Len(w) : i \in 1..Len(w)
    BY <1>1
  <2>3. \A i \in 1..Len(w) : w[i] \in V
    BY <1>1, ElementOfSeq
  <2> QED
    BY <1>1, <2>1, <2>2, <2>3, SubSeqProperties
<1>3. front \o rest = w
  <2>1. 1 \in 1..Len(w) + 1 /\ n \in 1 - 1..Len(w) /\ Len(w) \in n..Len(w)
    BY <1>1
  <2>2. front \o rest = SubSeq(w, 1, Len(w))
    BY <1>1, <2>1, ConcatAdjacentSubSeq
  <2> QED
    BY <1>1, <2>2, SubSeqFull
<1> HIDE DEF front, rest
<1>4. b \o front \in Seq(V)
  BY <1>1, <1>2, ConcatProperties
<1>5. (b \o front) \o rest = b \o (front \o rest)
  <2>1. \A x, y, z \in Seq(V) : (x \o y) \o z = x \o (y \o z)
    BY ConcatAssociative
  <2> QED
    BY <1>1, <1>2, <2>1, Zenon
<1> QED
  BY <1>1, <1>2, <1>3, <1>4, <1>5, Zenon DEF Streams, front, rest

(* What was read is the beginning of what was sent.                        *)
LEMMA ReadSoFar ==
  ASSUME NEW r, NEW b, NEW w, Streams(b, w, Whole(r), Items(r))
  PROVE  Begins(b, r)
<1> DEFINE V == Items(r)
           t == Whole(r)
<1>1. b \in Seq(V) /\ w \in Seq(V) /\ b \o w = t
  BY DEF Streams
<1> HIDE DEF V, t
<1>2. Joins(t, b, w, V)
  BY <1>1, Concatenation
<1>3. Len(t) = Len(b) + Len(w) /\ \A i \in 1..Len(b) : t[i] = b[i]
  BY <1>2 DEF Joins
<1>4. Len(b) \in Nat /\ Len(w) \in Nat
  BY <1>1
<1>5. Len(b) <= Len(t)
  BY <1>3, <1>4
<1> QED
  BY <1>1, <1>3, <1>5 DEF Begins, V, t

(* Past the first Len(h) bytes comes what follows h.                       *)
LEMMA PastHeader ==
  ASSUME NEW V, NEW h \in Seq(V), NEW p \in Seq(V), NEW b, NEW w,
         Streams(b, w, h \o p, V), Len(h) <= Len(b)
  PROVE  SubSeq(b, Len(h) + 1, Len(b)) \o w = p
<1> DEFINE n == Len(h)
           first == SubSeq(b, 1, n)
           rest == SubSeq(b, n + 1, Len(b))
           t == h \o p
<1>1. b \in Seq(V) /\ w \in Seq(V) /\ b \o w = t
  BY DEF Streams
<1>2. n \in Nat /\ Len(b) \in Nat /\ n <= Len(b)
  BY <1>1
<1>3. first = h
  <2>1. Joins(t, h, p, V) /\ Joins(t, b, w, V)
    BY <1>1, Concatenation
  <2>2. \A i \in 1..n : i \in 1..Len(b) /\ 0 + i = i
    BY <1>2
  <2>3. At(b, 0, h)
    BY <2>1, <2>2 DEF At, Joins
  <2>4. 0 + n <= Len(b) /\ 0 + 1 = 1 /\ 0 + n = n
    BY <1>2
  <2>5. SubSeq(b, 0 + 1, 0 + n) = h
    BY <1>1, <2>3, <2>4, AtPiece
  <2> QED
    BY <2>4, <2>5
<1>4. first \o rest = b
  <2>1. 1 \in 1..Len(b) + 1 /\ n \in 1 - 1..Len(b) /\ Len(b) \in n..Len(b)
    BY <1>2
  <2>2. first \o rest = SubSeq(b, 1, Len(b))
    BY <1>1, <2>1, ConcatAdjacentSubSeq
  <2> QED
    BY <1>1, <2>2, SubSeqFull
<1>5. rest \in Seq(V)
  <2>1. \A i \in n + 1..Len(b) : i \in 1..Len(b)
    BY <1>2
  <2>2. \A i \in 1..Len(b) : b[i] \in V
    BY <1>1, ElementOfSeq
  <2> QED
    BY <1>2, <2>1, <2>2, SubSeqProperties
<1> HIDE DEF first, rest, t
<1>6. (h \o rest) \o w = h \o (rest \o w)
  <2>1. \A x, y, z \in Seq(V) : (x \o y) \o z = x \o (y \o z)
    BY ConcatAssociative
  <2> QED
    BY <1>1, <1>5, <2>1, Zenon
<1>7. rest \o w \in Seq(V)
  BY <1>1, <1>5, ConcatProperties
<1>8. h \o (rest \o w) = h \o p
  BY <1>1, <1>3, <1>4, <1>6 DEF t
<1>9. rest \o w = p
  <2> DEFINE x == rest \o w
  <2> HIDE DEF x
  <2>1. x \in Seq(V) /\ h \o x = h \o p
    BY <1>7, <1>8 DEF x
  <2>2. \A u \in Seq(V) : \A c, d \in Seq(V) : u \o c = u \o d => c = d
    BY ConcatSimplifications, Zenon
  <2> QED
    BY <2>1, <2>2, Zenon DEF x
<1> QED
  BY <1>9 DEF rest

-----------------------------------------------------------------------------
(* The inductive invariant.  What the client sent is still whole, the      *)
(* buffer and the wire being its two halves, and the last parse is what    *)
(* Parses says of such a buffer: nothing else of the past matters.         *)

SentOf(r) ==
  <<[version |-> r.version, key |-> r.key, stamp |-> r.stamp, target |-> r.target,
     payload |-> r.payload, len |-> HeaderLen(r.target)]>>

LastParse(r) ==
  \/ outcome.err = "reading" /\ buffer = <<>>
  \/ outcome.err = "closed"
  \/ RightAnswer(outcome, r, Len(buffer), clock) /\ clock \in Stamps

HeaderInv ==
  \/ outcome = [err |-> "idle"]
  \/ \E r \in Requests :
       sent = SentOf(r) /\ Streams(buffer, wire, Whole(r), Items(r)) /\ LastParse(r)

(* A header that is still being read fits the buffer, so that the limit on *)
(* what is buffered is never met.                                          *)
LEMMA ReadingFits ==
  ASSUME NEW r \in Requests, NEW n \in Nat, NEW out, out.err = "truncated",
         NEW now, RightAnswer(out, r, n, now)
  PROVE  n < MaxHeader
<1> DEFINE g == r.target
           l == Len(g.addr)
           h == HeaderLen(g)
<1>1. g \in Targets
  BY DEF Requests
<1>2. /\ h \in Nat /\ l \in Nat
      /\ h = FixedLen + (IF g.atyp = AtypDomain THEN 1 ELSE 0) + l + PortLen + MacLen
  <2>1. /\ HostOff(g) \in Nat /\ PortOff(g) \in Nat /\ MacOff(g) \in Nat /\ h \in Nat /\ l \in Nat
        /\ PortOff(g) = HostOff(g) + l /\ MacOff(g) = PortOff(g) + PortLen /\ h = MacOff(g) + MacLen
    BY <1>1, Offsets
  <2>2. HostOff(g) = FixedLen + (IF g.atyp = AtypDomain THEN 1 ELSE 0)
    BY DEF HostOff
  <2> HIDE DEF h, l, g
  <2> QED
    BY <2>1, <2>2
<1>3. out.needed \in 1..h - n /\ (TooLong(g) => n <= FixedLen)
  BY DEF RightAnswer
<1>4. n < h
  BY <1>2, <1>3
<1>5. MaxHeaderLen = FixedLen + 1 + MaxDomainLen + PortLen + MacLen
  BY DEF MaxHeaderLen
<1>6. CASE TooLong(g)
  <2>1. n <= FixedLen
    BY <1>3, <1>6
  <2>2. FixedLen < MaxHeaderLen
    BY <1>5, HeaderLengths
  <2>3. FixedLen \in Nat /\ MaxHeader \in Nat /\ MaxHeaderLen <= MaxHeader /\ MaxHeaderLen \in Nat
    BY <1>5, HeaderLengths
  <2> QED
    BY <2>1, <2>2, <2>3
<1>7. CASE ~ TooLong(g)
  <2>1. l <= MaxDomainLen
    <3>1. g.atyp \in {AtypV4, AtypDomain, AtypV6}
      BY <1>1, Asked
    <3>2. (g.atyp = AtypV4 => l = V4Len) /\ (g.atyp = AtypV6 => l = V6Len)
      BY <1>1, Asked
    <3>3. g.atyp = AtypDomain => ~(l > MaxDomainLen)
      BY <1>7 DEF TooLong
    <3> QED
      BY <1>2, <3>1, <3>2, <3>3, HeaderLengths
  <2>2. h <= MaxHeaderLen
    <3> HIDE DEF h, l, g
    <3> QED
      BY <1>2, <1>5, <2>1, HeaderLengths
  <2>3. MaxHeader \in Nat /\ MaxHeaderLen <= MaxHeader /\ MaxHeaderLen \in Nat
    BY <1>5, HeaderLengths
  <2> QED
    BY <1>2, <1>4, <2>2, <2>3
<1> QED
  BY <1>6, <1>7

LEMMA HeaderStarts == HeaderInit => HeaderInv
BY DEF HeaderInit, HeaderInv

LEMMA SendKeeps ==
  ASSUME SendRequest
  PROVE  HeaderInv'
<1>1. PICK version \in {Version, Version + 1}, key \in {"secret", "other"},
           ts \in Stamps, g \in Targets, pl \in Payloads :
        /\ sent' = <<[version |-> version, key |-> key, stamp |-> ts, target |-> g, payload |-> pl,
                      len |-> Len(EncodeRequest(version, key, ts, g))]>>
        /\ wire' = EncodeRequest(version, key, ts, g) \o pl
  BY Zenon DEF SendRequest
<1>2. buffer' = <<>> /\ outcome' = [err |-> "reading"]
  BY DEF SendRequest
<1> DEFINE r == [version |-> version, key |-> key, stamp |-> ts, target |-> g, payload |-> pl]
<1>3. r \in Requests
  BY DEF Requests
<1>4. /\ r.version = version /\ r.key = key /\ r.stamp = ts /\ r.target = g /\ r.payload = pl
  OBVIOUS
<1> HIDE DEF r
<1>5. wire' = Whole(r)
  BY <1>1, <1>4, Zenon DEF Whole
<1>6. sent' = SentOf(r)
  <2>1. Len(EncodeRequest(version, key, ts, g)) = HeaderLen(g)
    BY <1>3, <1>4, Layout
  <2> QED
    BY <1>1, <1>4, <2>1, Zenon DEF SentOf
<1>7. Streams(buffer', wire', Whole(r), Items(r))
  <2> DEFINE V == Items(r)
             t == Whole(r)
  <2>1. t \in Seq(V)
    BY <1>3, Layout
  <2> HIDE DEF V, t
  <2>2. <<>> \in Seq(V) /\ <<>> \o t = t
    BY <2>1, ConcatEmptySeq
  <2> QED
    BY <1>2, <1>5, <2>1, <2>2 DEF Streams, V, t
<1>8. LastParse(r)'
  BY <1>2 DEF LastParse
<1> QED
  BY <1>3, <1>6, <1>7, <1>8, Zenon DEF HeaderInv

LEMMA ReadKeeps ==
  ASSUME HeaderInv, ReadBytes
  PROVE  HeaderInv'
<1>1. outcome.err \in {"reading", "truncated"} /\ sent' = sent
  BY DEF ReadBytes
<1>2. PICK r \in Requests :
        sent = SentOf(r) /\ Streams(buffer, wire, Whole(r), Items(r)) /\ LastParse(r)
  BY <1>1 DEF HeaderInv
<1>3. Len(buffer) \in Nat /\ Len(wire) \in Nat
  BY <1>2 DEF Streams
<1>4. ~(Len(buffer) >= MaxHeader)
  <2>1. CASE outcome.err = "reading"
    <3>1. buffer = <<>>
      BY <1>2, <2>1 DEF LastParse, RightAnswer
    <3>2. Len(buffer) = 0
      BY <3>1
    <3>3. MaxHeader \in Nat /\ 0 < MaxHeader
      <4>1. MaxHeaderLen = FixedLen + 1 + MaxDomainLen + PortLen + MacLen
        BY DEF MaxHeaderLen
      <4> QED
        BY <4>1, HeaderLengths
    <3> QED
      BY <3>2, <3>3
  <2>2. CASE outcome.err = "truncated"
    <3>1. RightAnswer(outcome, r, Len(buffer), clock)
      BY <1>2, <2>2 DEF LastParse
    <3>2. Len(buffer) < MaxHeader
      BY <1>3, <2>2, <3>1, ReadingFits
    <3> QED
      BY <1>3, <3>2, HeaderLengths
  <2> QED
    BY <1>1, <2>1, <2>2
<1>5. PICK n \in 1..(IF Len(wire) < MaxHeader THEN Len(wire) ELSE MaxHeader), now \in Stamps :
        /\ buffer' = buffer \o SubSeq(wire, 1, n)
        /\ wire' = SubSeq(wire, n + 1, Len(wire))
        /\ outcome' = ParseRequest(buffer', "secret", now)
        /\ clock' = now
  BY <1>4, Zenon DEF ReadBytes
<1>6. n \in 1..Len(wire)
  BY <1>3, HeaderLengths
<1>7. Streams(buffer', wire', Whole(r), Items(r))
  <2> DEFINE V == Items(r)
             t == Whole(r)
  <2>1. Streams(buffer, wire, t, V)
    BY <1>2
  <2> HIDE DEF V, t
  <2>2. Streams(buffer', wire', t, V)
    BY <1>5, <1>6, <2>1, Reading
  <2> QED
    BY <2>2 DEF V, t
<1>8. Begins(buffer', r)
  BY <1>7, ReadSoFar, Zenon
<1>9. RightAnswer(outcome', r, Len(buffer'), clock')
  <2>1. RightAnswer(ParseRequest(buffer', "secret", now), r, Len(buffer'), now)
    BY <1>8, Parses, Zenon
  <2> QED
    BY <1>5, <2>1, Zenon
<1>10. LastParse(r)'
  BY <1>5, <1>9, Zenon DEF LastParse
<1> QED
  BY <1>1, <1>2, <1>7, <1>10, Zenon DEF HeaderInv

LEMMA HeaderStep ==
  ASSUME HeaderInv, [HeaderNext]_headerVars
  PROVE  HeaderInv'
<1>1. CASE SendRequest
  BY <1>1, SendKeeps
<1>2. CASE ReadBytes
  BY <1>2, ReadKeeps
<1>3. CASE ConnectionLost
  <2>1. outcome.err \in {"reading", "truncated"} /\ outcome' = Refused("closed")
        /\ UNCHANGED <<sent, wire, buffer, clock>>
    BY <1>3 DEF ConnectionLost
  <2>2. PICK r \in Requests :
          sent = SentOf(r) /\ Streams(buffer, wire, Whole(r), Items(r)) /\ LastParse(r)
    BY <2>1 DEF HeaderInv
  <2>3. LastParse(r)'
    BY <2>1 DEF LastParse, Refused
  <2> QED
    BY <2>1, <2>2, <2>3, Zenon DEF HeaderInv
<1>4. CASE UNCHANGED headerVars
  <2>1. UNCHANGED <<sent, wire, buffer, outcome, clock>>
    BY <1>4 DEF headerVars
  <2> QED
    BY <2>1, Zenon DEF HeaderInv, LastParse
<1> QED
  BY <1>1, <1>2, <1>3, <1>4 DEF HeaderNext

(* At every step of every connection the buffer and the wire still make up *)
(* what was sent, and the last parse is right about it.                    *)
THEOREM HeaderInvariant == HeaderSpec => []HeaderInv
<1>1. HeaderInit => HeaderInv
  BY HeaderStarts
<1>2. HeaderInv /\ [HeaderNext]_headerVars => HeaderInv'
  BY HeaderStep
<1> QED
  BY <1>1, <1>2, PTL DEF HeaderSpec

LEMMA InvAsks == HeaderInv => AsksForWhatIsMissing
<1> SUFFICES ASSUME HeaderInv, outcome.err = "truncated"
             PROVE  outcome.needed \in 1..(sent[1].len - Len(buffer))
  BY DEF AsksForWhatIsMissing
<1>1. PICK r \in Requests : sent = SentOf(r) /\ LastParse(r)
  BY DEF HeaderInv
<1>2. outcome.needed \in 1..HeaderLen(r.target) - Len(buffer)
  BY <1>1 DEF LastParse, RightAnswer
<1>3. sent[1].len = HeaderLen(r.target)
  BY <1>1 DEF SentOf
<1> QED
  BY <1>2, <1>3, Zenon

LEMMA FreshMeans ==
  ASSUME NEW ts \in Stamps, NEW now \in Stamps
  PROVE  Fresh(ts, now) <=> now <= ts + MaxSkew /\ ts <= now + MaxSkew
BY Dates, HeaderLengths DEF Fresh

LEMMA InvAccepts == HeaderInv => AcceptsWhatWasSent
<1> SUFFICES ASSUME HeaderInv, outcome.err = "none"
             PROVE  /\ sent[1].key = "secret" /\ sent[1].version = Version
                    /\ outcome.target = sent[1].target
                    /\ outcome.timestamp = sent[1].stamp
                    /\ clock <= outcome.timestamp + MaxSkew /\ outcome.timestamp <= clock + MaxSkew
                    /\ SubSeq(buffer, outcome.consumed + 1, Len(buffer)) \o wire = sent[1].payload
  BY DEF AcceptsWhatWasSent
<1>1. PICK r \in Requests :
        sent = SentOf(r) /\ Streams(buffer, wire, Whole(r), Items(r)) /\ LastParse(r)
  BY DEF HeaderInv
<1>2. RightAnswer(outcome, r, Len(buffer), clock) /\ clock \in Stamps
  BY <1>1 DEF LastParse
<1>3. /\ r.key = "secret" /\ r.version = Version
      /\ outcome.target = r.target /\ outcome.timestamp = r.stamp /\ Fresh(r.stamp, clock)
      /\ outcome.consumed = HeaderLen(r.target) /\ HeaderLen(r.target) <= Len(buffer)
  BY <1>2 DEF RightAnswer
<1>4. /\ sent[1].key = r.key /\ sent[1].version = r.version /\ sent[1].target = r.target
      /\ sent[1].stamp = r.stamp /\ sent[1].payload = r.payload
  BY <1>1 DEF SentOf
<1>5. clock <= r.stamp + MaxSkew /\ r.stamp <= clock + MaxSkew
  <2>1. r.stamp \in Stamps
    BY DEF Requests
  <2> QED
    BY <1>2, <1>3, <2>1, FreshMeans
<1>6. SubSeq(buffer, outcome.consumed + 1, Len(buffer)) \o wire = r.payload
  <2> DEFINE h == EncodeRequest(r.version, r.key, r.stamp, r.target)
             p == r.payload
             V == Items(r)
  <2>1. h \in Seq(V) /\ p \in Seq(V) /\ Len(h) = HeaderLen(r.target)
    BY Layout
  <2>2. Streams(buffer, wire, h \o p, V)
    BY <1>1 DEF Whole
  <2> HIDE DEF h, p, V
  <2>3. SubSeq(buffer, Len(h) + 1, Len(buffer)) \o wire = p
    BY <1>3, <2>1, <2>2, PastHeader
  <2> QED
    BY <1>3, <2>1, <2>3, Zenon DEF p
<1> QED
  BY <1>3, <1>4, <1>5, <1>6, Zenon

LEMMA InvRefusals == HeaderInv => RefusalHasItsCause
<1> SUFFICES ASSUME HeaderInv
             PROVE  RefusalHasItsCause
  OBVIOUS
<1>1. CASE outcome = [err |-> "idle"]
  BY <1>1 DEF RefusalHasItsCause
<1>2. CASE \E r \in Requests : sent = SentOf(r) /\ LastParse(r)
  <2>1. PICK r \in Requests : sent = SentOf(r) /\ LastParse(r)
    BY <1>2
  <2>2. CASE outcome.err \in {"reading", "closed"}
    BY <2>2 DEF RefusalHasItsCause
  <2>3. CASE RightAnswer(outcome, r, Len(buffer), clock) /\ clock \in Stamps
    <3>1. /\ sent[1].key = r.key /\ sent[1].version = r.version /\ sent[1].target = r.target
          /\ sent[1].stamp = r.stamp
      BY <2>1 DEF SentOf
    <3>2. ~ Fresh(r.stamp, clock) => clock > r.stamp + MaxSkew \/ r.stamp > clock + MaxSkew
      <4>1. r.stamp \in Stamps
        BY DEF Requests
      <4> QED
        BY <2>3, <4>1, FreshMeans, Dates, HeaderLengths
    <3>3. /\ outcome.err \in {"truncated", "none", "badVersion", "domainTooLong", "badMac", "stale"}
          /\ outcome.err = "badVersion" => sent[1].version # Version
          /\ outcome.err = "domainTooLong" =>
               sent[1].target.atyp = AtypDomain /\ Len(sent[1].target.addr) > MaxDomainLen
          /\ outcome.err = "badMac" => sent[1].key # "secret"
          /\ outcome.err = "stale" =>
               /\ sent[1].key = "secret"
               /\ clock > sent[1].stamp + MaxSkew \/ sent[1].stamp > clock + MaxSkew
      BY <2>3, <3>1, <3>2, Zenon DEF RightAnswer, TooLong
    <3> QED
      BY <3>3 DEF RefusalHasItsCause
  <2> QED
    BY <2>1, <2>2, <2>3 DEF LastParse
<1> QED
  BY <1>1, <1>2 DEF HeaderInv

(* Whatever the lengths, the cuts and the clocks: a parser that waits for  *)
(* more waits for bytes the header still has, never for more than those.   *)
THEOREM NeverWaitsForMore == HeaderSpec => []AsksForWhatIsMissing
BY HeaderInvariant, InvAsks, PTL

(* Whatever the lengths, the cuts and the clocks: a request the exit node  *)
(* accepts is the one that was sent, and none of the payload behind it is  *)
(* lost or taken for the header.                                           *)
THEOREM AcceptedIsSent == HeaderSpec => []AcceptsWhatWasSent
BY HeaderInvariant, InvAccepts, PTL

(* Whatever the lengths, the cuts and the clocks: the exit node refuses    *)
(* only for the causes a request can have, and never for its length.       *)
THEOREM RefusedForCause == HeaderSpec => []RefusalHasItsCause
BY HeaderInvariant, InvRefusals, PTL
==============================================================================
