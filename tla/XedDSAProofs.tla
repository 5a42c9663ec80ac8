---------------------------- MODULE XedDSAProofs ----------------------------
(***************************************************************************)
(* Proofs for XedDSA: what the functions of algorithms.cpp promise of a    *)
(* signature holds on every curve that meets SizeAssumption and            *)
(* CurveAssumption, curve 25519 being one, for all keys and hashes.  The   *)
(* argument: the multiples of the base point form a group that is the      *)
(* integers modulo Q, so the equation sB = R + hA is one between scalars;  *)
(* an encoding determines its point; and the conversion of a public key to *)
(* Montgomery form and back is the identity.  Times is a recursive         *)
(* function; its recurrence is proved first, with SetInduction.            *)
(***************************************************************************)
EXTENDS XedDSA, Induction

-----------------------------------------------------------------------------
(* Arithmetic modulo n *)

\* Division with remainder, as TLA+ defines it.
LEMMA ModType ==
    ASSUME NEW a \in Int, NEW n \in Nat \ {0}
    PROVE  /\ a % n \in 0 .. n - 1 /\ a \div n \in Int
           /\ a = n * (a \div n) + (a % n)
OBVIOUS

\* A multiple of n strictly between -n and n is 0.
LEMMA MultipleBound ==
    ASSUME NEW n \in Nat \ {0}, NEW d \in Int, -n < n * d, n * d < n
    PROVE  d = 0
<1>1. CASE d >= 1
  <2>1. n * d >= n * 1
    BY <1>1
  <2> QED BY <2>1
<1>2. CASE d <= -1
  <2>1. n * d <= n * (-1)
    BY <1>2
  <2> QED BY <2>1
<1> QED BY <1>1, <1>2

\* The remainder is the only number of its range that fits.
LEMMA ModUnique ==
    ASSUME NEW a \in Int, NEW n \in Nat \ {0}, NEW k \in Int, NEW r \in 0 .. n - 1, a = n * k + r
    PROVE  a % n = r
<1> DEFINE q == a \div n
           t == a % n
<1>1. t \in 0 .. n - 1 /\ q \in Int /\ a = n * q + t
  BY ModType
<1> HIDE DEF q, t
<1>2. n * (q - k) = n * q - n * k
  BY <1>1
<1>3. n * q \in Int /\ n * k \in Int
  BY <1>1
<1>4. -n < n * (q - k) /\ n * (q - k) < n
  BY <1>1, <1>2, <1>3
<1>5. q - k = 0
  BY <1>1, <1>4, MultipleBound
<1>6. q = k
  BY <1>1, <1>5
<1> QED BY <1>1, <1>3, <1>6 DEF t

\* Adding a multiple of n does not change the remainder.
LEMMA ModShift ==
    ASSUME NEW a \in Int, NEW n \in Nat \ {0}, NEW k \in Int
    PROVE  (a + n * k) % n = a % n
<1> DEFINE q == a \div n
           t == a % n
<1>1. t \in 0 .. n - 1 /\ q \in Int /\ a = n * q + t
  BY ModType
<1> HIDE DEF q, t
<1>2. n * (q + k) = n * q + n * k
  BY <1>1
<1>3. n * q \in Int /\ n * k \in Int /\ q + k \in Int
  BY <1>1
<1>4. a + n * k = n * (q + k) + t
  BY <1>1, <1>2, <1>3
<1>5. a + n * k \in Int
  BY <1>3
<1>6. (a + n * k) % n = t
  BY <1>1, <1>3, <1>4, <1>5, ModUnique
<1> QED BY <1>6 DEF t

\* An operand reduced beforehand gives the same reduced sum or product: what
\* lets sign32 and libsodium reduce at every step.
LEMMA ModOfMod ==
    ASSUME NEW a \in Int, NEW b \in Int, NEW n \in Nat \ {0}
    PROVE  /\ ((a % n) + b) % n = (a + b) % n
           /\ (b + (a % n)) % n = (b + a) % n
           /\ (b * (a % n)) % n = (b * a) % n
           /\ ((a % n) * b) % n = (a * b) % n
           /\ (a % n) % n = a % n
<1> DEFINE q == a \div n
           t == a % n
<1>1. t \in 0 .. n - 1 /\ q \in Int /\ a = n * q + t
  BY ModType
<1> HIDE DEF q, t
<1>2. /\ t + b \in Int /\ b * t \in Int /\ b * q \in Int /\ n * q \in Int
      /\ t * b = b * t /\ a * b = b * a
  BY <1>1
<1>3. a + b = (t + b) + n * q
  BY <1>1, <1>2
<1>4. b * a = b * t + n * (b * q)
  <2>1. b * a = b * (n * q + t)
    BY <1>1
  <2>2. b * (n * q + t) = b * (n * q) + b * t
    BY <1>1, <1>2
  <2>3. b * (n * q) = n * (b * q)
    BY <1>1
  <2> QED BY <1>2, <2>1, <2>2, <2>3
<1>5. (t + b) % n = (a + b) % n
  <2>1. ((t + b) + n * q) % n = (t + b) % n
    BY <1>1, <1>2, ModShift
  <2> QED BY <1>3, <2>1
<1>6. (b * t) % n = (b * a) % n
  <2> DEFINE c == b * t
             d == b * q
  <2>1. c \in Int /\ d \in Int
    BY <1>2
  <2> HIDE DEF c, d
  <2>2. (c + n * d) % n = c % n
    BY <2>1, ModShift
  <2> QED BY <1>4, <2>2 DEF c, d
<1>7. t % n = t
  BY <1>1
<1> QED BY <1>1, <1>2, <1>5, <1>6, <1>7 DEF t

\* Every number is a multiple of n plus its remainder.
LEMMA Quotient ==
    ASSUME NEW a \in Int, NEW n \in Nat \ {0}
    PROVE  \E k \in Int : a = n * k + (a % n)
BY ModType

-----------------------------------------------------------------------------
(* Times, the recursive function behind scalar multiplication *)

\* f is the function Times is defined with: f[i] is i times A, for i up to n.
MultipleOf(f, A, n) ==
    f = [i \in 0 .. n |-> IF i = 0 THEN Neutral ELSE Add(f[i - 1], A)]

\* What such a function has at each place.
LEMMA MultipleValue ==
    ASSUME NEW f, NEW A, NEW n, MultipleOf(f, A, n), NEW i \in 0 .. n
    PROVE  f[i] = IF i = 0 THEN Neutral ELSE Add(f[i - 1], A)
<1> DEFINE h == [j \in 0 .. n |-> IF j = 0 THEN Neutral ELSE Add(f[j - 1], A)]
<1>1. f = h
  BY Zenon DEF MultipleOf
<1>2. h[i] = IF i = 0 THEN Neutral ELSE Add(f[i - 1], A)
  OBVIOUS
<1> HIDE DEF h
<1> QED BY <1>1, <1>2

\* There is one for every n: the recursion defines a function.
LEMMA MultipleExists ==
    ASSUME NEW A
    PROVE  \A n \in Nat : \E f : MultipleOf(f, A, n)
<1> DEFINE S == {n \in Nat : \E f : MultipleOf(f, A, n)}
<1>1. 0 \in S
  <2> DEFINE f == [i \in 0 .. 0 |-> Neutral]
  <2>1. MultipleOf(f, A, 0)
    <3>1. f = [i \in 0 .. 0 |-> IF i = 0 THEN Neutral ELSE Add(f[i - 1], A)]
      <4>1. \A i \in 0 .. 0 : i = 0
        OBVIOUS
      <4> QED BY <4>1
    <3> QED BY <3>1 DEF MultipleOf
  <2> QED BY <2>1
<1>2. ASSUME NEW n \in Nat, n \in S
      PROVE  n + 1 \in S
  <2>1. PICK f : MultipleOf(f, A, n)
    BY <1>2
  <2> DEFINE g == [i \in 0 .. n + 1 |-> IF i = 0 THEN Neutral ELSE Add(f[i - 1], A)]
  <2>2. ASSUME NEW i \in 0 .. n
        PROVE  g[i] = f[i]
    <3>1. f[i] = IF i = 0 THEN Neutral ELSE Add(f[i - 1], A)
      BY <2>1, MultipleValue
    <3>2. i \in 0 .. n + 1
      OBVIOUS
    <3> QED BY <3>1, <3>2
  <2>3. ASSUME NEW i \in 0 .. n + 1, i # 0
        PROVE  f[i - 1] = g[i - 1]
    <3>1. i - 1 \in 0 .. n
      BY <2>3
    <3> HIDE DEF g
    <3> QED BY <2>2, <3>1
  <2>4. g = [i \in 0 .. n + 1 |-> IF i = 0 THEN Neutral ELSE Add(g[i - 1], A)]
    BY <2>3
  <2>5. MultipleOf(g, A, n + 1)
    BY <2>4 DEF MultipleOf
  <2> QED BY <2>5
<1> HIDE DEF S
<1>3. Nat \subseteq S
  BY <1>1, <1>2, SetInduction
<1> QED BY <1>3 DEF S

\* Times is the last value of such a function.
LEMMA TimesFunction ==
    ASSUME NEW A, NEW n \in Nat
    PROVE  \E f : MultipleOf(f, A, n) /\ Times(n, A) = f[n]
<1>1. PICK f : MultipleOf(f, A, n)
  BY MultipleExists
<1> QED BY <1>1 DEF Times, MultipleOf

\* Two of them agree as far as both go.
LEMMA MultiplesAgree ==
    ASSUME NEW A, NEW n \in Nat, NEW m \in Nat, n <= m,
           NEW f, MultipleOf(f, A, m), NEW g, MultipleOf(g, A, n)
    PROVE  \A i \in 0 .. n : f[i] = g[i]
<1> DEFINE S == {i \in Nat : i \in 0 .. n => f[i] = g[i]}
<1>1. 0 \in S
  <2>1. 0 \in 0 .. n /\ 0 \in 0 .. m
    OBVIOUS
  <2>2. f[0] = Neutral /\ g[0] = Neutral
    BY <2>1, MultipleValue
  <2> QED BY <2>2
<1>2. ASSUME NEW i \in Nat, i \in S
      PROVE  i + 1 \in S
  <2> SUFFICES ASSUME i + 1 \in 0 .. n
               PROVE  f[i + 1] = g[i + 1]
    OBVIOUS
  <2>1. i + 1 \in 0 .. m /\ (i + 1) - 1 = i /\ i \in 0 .. n /\ i + 1 # 0
    OBVIOUS
  <2>2. f[i + 1] = Add(f[i], A)
    BY <2>1, MultipleValue
  <2>3. g[i + 1] = Add(g[i], A)
    BY <2>1, MultipleValue
  <2>4. f[i] = g[i]
    BY <1>2, <2>1
  <2> QED BY <2>2, <2>3, <2>4
<1> HIDE DEF S
<1>3. Nat \subseteq S
  BY <1>1, <1>2, SetInduction
<1> QED BY <1>3 DEF S

\* The recurrence of Times: no times A is the neutral point, and one time more
\* adds A.
LEMMA TimesSteps ==
    ASSUME NEW A
    PROVE  /\ Times(0, A) = Neutral
           /\ \A n \in Nat : Times(n + 1, A) = Add(Times(n, A), A)
<1>1. Times(0, A) = Neutral
  <2>1. PICK f : MultipleOf(f, A, 0) /\ Times(0, A) = f[0]
    BY TimesFunction
  <2>2. 0 \in 0 .. 0
    OBVIOUS
  <2> QED BY <2>1, <2>2, MultipleValue
<1>2. ASSUME NEW n \in Nat
      PROVE  Times(n + 1, A) = Add(Times(n, A), A)
  <2>1. PICK m \in Nat : m = n + 1 /\ m \in 0 .. m /\ n <= m /\ m - 1 = n /\ m # 0 /\ n \in 0 .. n
    OBVIOUS
  <2>2. PICK f : MultipleOf(f, A, m) /\ Times(m, A) = f[m]
    BY TimesFunction
  <2>3. PICK g : MultipleOf(g, A, n) /\ Times(n, A) = g[n]
    BY TimesFunction
  <2>4. f[m] = IF m = 0 THEN Neutral ELSE Add(f[m - 1], A)
    BY <2>1, <2>2, MultipleValue
  <2>5. f[n] = g[n]
    BY <2>1, <2>2, <2>3, MultiplesAgree
  <2> QED BY <2>1, <2>2, <2>3, <2>4, <2>5
<1> QED BY <1>1, <1>2

-----------------------------------------------------------------------------
(* The group of the base point *)

\* n times the base point, for any integer n: its multiples repeat after Q.
Nth(n) == Multiples[(n % Q) + 1]

\* The part of SizeAssumption most proofs need.
LEMMA Sizes ==
    /\ P \in Nat /\ Q \in Nat \ {0} /\ SignBit \in Nat \ {0} /\ ScalarBound \in Nat /\ D \in Nat
    /\ P < SignBit /\ Q < ScalarBound /\ ScalarBound <= SignBit /\ SignBit < 8 * Q
BY SizeAssumption

\* Nth(n) is a point of the group and n % Q times the base point.
LEMMA NthInGroup ==
    ASSUME NEW n \in Int
    PROVE  /\ n % Q \in 0 .. Q - 1 /\ Nth(n) = Times(n % Q, BasePoint)
           /\ Nth(n) \in Group /\ Nth(n) \in Field \X Field
<1>1. n % Q \in 0 .. Q - 1
  BY Sizes, ModType
<1>2. PICK i : i = n % Q
  OBVIOUS
<1>3. i + 1 \in 1 .. Q /\ (i + 1) - 1 = i
  BY <1>1, <1>2, Sizes
<1>4. Multiples[i + 1] = Times(i, BasePoint) /\ Multiples[i + 1] \in Group
  BY <1>3 DEF Multiples, Group
<1>5. Group \subseteq Field \X Field
  BY CurveAssumption
<1> QED BY <1>1, <1>2, <1>4, <1>5 DEF Nth

\* Every point of the group is a multiple of the base point.
LEMMA GroupHasNth ==
    ASSUME NEW A \in Group
    PROVE  \E n \in 0 .. Q - 1 : A = Nth(n) /\ n % Q = n
<1>1. PICK i \in 1 .. Q : A = Multiples[i]
  BY DEF Group
<1>2. PICK n \in 0 .. Q - 1 : n = i - 1 /\ n + 1 = i
  BY <1>1, Sizes
<1>3. n % Q = n
  BY Sizes, <1>2
<1> QED BY <1>1, <1>2, <1>3 DEF Nth

\* The field has at least three elements, and the neutral point is in the group.
LEMMA FieldHasOne == P > 2 /\ 0 \in Field /\ 1 \in Field /\ Neutral \in Group
<1>1. 0 % Q = 0
  BY Sizes
<1>2. Nth(0) = Neutral /\ Nth(0) \in Group /\ Nth(0) \in Field \X Field
  BY <1>1, NthInGroup, TimesSteps
<1>3. 0 \in Field /\ 1 \in Field
  BY <1>2 DEF Neutral
<1>4. P % 2 = 1 /\ P \in Nat
  BY SizeAssumption
<1>5. P > 1
  BY <1>3, <1>4 DEF Field
<1>6. P # 2
  BY <1>4
<1> QED BY <1>2, <1>3, <1>4, <1>5, <1>6

\* What the inverse of an element that is not 0 is.
LEMMA InverseInField ==
    ASSUME NEW a \in 1 .. P - 1
    PROVE  Inverse(a) \in Field /\ (a * Inverse(a)) % P = 1
<1>1. a \in Field \ {0}
  BY Sizes DEF Field
<1>2. \E b \in Field : (a * b) % P = 1
  BY <1>1, CurveAssumption
<1> QED BY <1>2 DEF Inverse

\* 1 is its own inverse.
LEMMA InverseOfOne == Inverse(1) = 1
<1>1. 1 \in 1 .. P - 1
  BY FieldHasOne, Sizes
<1>2. Inverse(1) \in Field /\ (1 * Inverse(1)) % P = 1
  BY <1>1, InverseInField
<1>3. PICK b \in Field : b = Inverse(1)
  BY <1>2
<1>4. 1 * b = b /\ b % P = b
  BY Sizes DEF Field
<1> QED BY <1>2, <1>3, <1>4

\* The addition law with the neutral point on the right.
LEMMA AddNeutral ==
    ASSUME NEW A \in Field \X Field
    PROVE  Add(A, Neutral) = A
<1> DEFINE x == A[1]
           y == A[2]
           t == ((D * ((x * 0) % P)) % P) * ((y * 1) % P) % P
<1>1. x \in Field /\ y \in Field /\ A = <<x, y>>
  OBVIOUS
<1>2. t = 0
  <2>1. x * 0 = 0 /\ y * 1 = y /\ y \in Nat
    BY <1>1, Sizes DEF Field
  <2>2. 0 % P = 0 /\ y % P = y
    BY <1>1, FieldHasOne, Sizes DEF Field
  <2>3. D * 0 = 0 /\ 0 * y = 0
    BY <2>1, Sizes
  <2> QED BY <2>1, <2>2, <2>3
<1>3. Add(A, Neutral) = <<((x * 1 + 0 * y) * Inverse((1 + t) % P)) % P,
                          ((y * 1 + x * 0) * Inverse((1 - t) % P)) % P>>
  BY DEF Add, Neutral
<1> HIDE DEF x, y, t
<1>4. (1 + t) % P = 1 /\ (1 - t) % P = 1
  BY <1>2, FieldHasOne, Sizes
<1>5. ((x * 1 + 0 * y) * 1) % P = x /\ ((y * 1 + x * 0) * 1) % P = y
  <2>1. (x * 1 + 0 * y) * 1 = x /\ (y * 1 + x * 0) * 1 = y
    BY <1>1, Sizes DEF Field
  <2>2. x % P = x /\ y % P = y
    BY <1>1, FieldHasOne, Sizes DEF Field
  <2> QED BY <2>1, <2>2
<1> QED BY <1>1, <1>3, <1>4, <1>5, InverseOfOne

\* Multiples with the same remainder modulo Q are the same point.
LEMMA NthOfMod ==
    ASSUME NEW m \in Int, NEW n \in Int, m % Q = n % Q
    PROVE  Nth(m) = Nth(n)
BY DEF Nth

\* The neutral point is the multiple of 0, and of nothing but multiples of Q.
LEMMA NthZero ==
    /\ Nth(0) = Neutral
    /\ \A n \in Int : Nth(n) = Neutral => n % Q = 0
<1>1. 0 % Q = 0
  BY Sizes
<1>2. Nth(0) = Neutral
  BY <1>1, NthInGroup, TimesSteps
<1>3. ASSUME NEW n \in Int, Nth(n) = Neutral, n % Q # 0
      PROVE  FALSE
  <2>1. n % Q \in 0 .. Q - 1
    BY NthInGroup
  <2>2. (n % Q) + 1 \in 2 .. Q
    BY <1>3, <2>1, Sizes
  <2>3. Multiples[(n % Q) + 1] # Neutral
    BY <2>2, CurveAssumption
  <2> QED BY <1>3, <2>3 DEF Nth
<1> QED BY <1>2, <1>3

\* One time more adds the base point, also where the multiples start again.
LEMMA NthSuccessor ==
    ASSUME NEW n \in Int
    PROVE  Nth(n + 1) = Add(Nth(n), BasePoint)
<1>1. PICK i \in 0 .. Q - 1 : i = n % Q
  BY NthInGroup
<1>2. i \in Nat /\ Q \in Nat \ {0}
  BY Sizes
<1>3. Add(Nth(n), BasePoint) = Times(i + 1, BasePoint)
  BY <1>1, <1>2, NthInGroup, TimesSteps
<1>4. (i + 1) % Q = (n + 1) % Q
  <2>1. ((n % Q) + 1) % Q = (n + 1) % Q
    <3>1. 1 \in Int /\ n \in Int /\ Q \in Nat \ {0}
      BY <1>2
    <3> QED BY <3>1, ModOfMod, Zenon
  <2> QED BY <1>1, <2>1
<1>5. CASE i + 1 = Q
  <2>1. (i + 1) % Q = 0
    BY <1>2, <1>5
  <2>2. (n + 1) % Q = 0 % Q
    BY <1>2, <1>4, <2>1
  <2>3. Nth(n + 1) = Neutral
    BY <2>2, NthOfMod, NthZero
  <2>4. Times(Q, BasePoint) = Neutral
    BY CurveAssumption
  <2> QED BY <1>3, <1>5, <2>3, <2>4
<1>6. CASE i + 1 # Q
  <2>1. (i + 1) % Q = i + 1
    BY <1>2, <1>6
  <2>2. Nth(n + 1) = Times((n + 1) % Q, BasePoint)
    BY NthInGroup
  <2> QED BY <1>3, <1>4, <2>1, <2>2
<1> QED BY <1>5, <1>6

\* The sum of two multiples is the multiple of the sum.  By induction on the
\* second one, with the associativity assumed of the curve.
LEMMA NthAdd ==
    ASSUME NEW m \in Int, NEW n \in Int
    PROVE  Add(Nth(m), Nth(n)) = Nth(m + n)
<1> DEFINE S == {i \in Nat : Add(Nth(m), Nth(i)) = Nth(m + i)}
<1>1. 0 \in S
  BY NthZero, NthInGroup, AddNeutral
<1>2. ASSUME NEW i \in Nat, i \in S
      PROVE  i + 1 \in S
  <2>1. Nth(i + 1) = Add(Nth(i), BasePoint)
    BY NthSuccessor
  <2>2. Nth(m) \in Group /\ Nth(i) \in Group
    BY NthInGroup
  <2>3. Add(Nth(m), Add(Nth(i), BasePoint)) = Add(Add(Nth(m), Nth(i)), BasePoint)
    BY <2>2, CurveAssumption
  <2>4. Add(Nth(m), Nth(i)) = Nth(m + i)
    BY <1>2
  <2>5. Nth((m + i) + 1) = Add(Nth(m + i), BasePoint)
    BY NthSuccessor
  <2>6. (m + i) + 1 = m + (i + 1)
    OBVIOUS
  <2>7. Add(Nth(m), Nth(i + 1)) = Nth(m + (i + 1))
    BY <2>1, <2>3, <2>4, <2>5, <2>6
  <2> QED BY <2>7
<1> HIDE DEF S
<1>3. Nat \subseteq S
  BY <1>1, <1>2, SetInduction
<1>4. PICK i \in Nat : i = n % Q
  BY NthInGroup
<1>5. Add(Nth(m), Nth(i)) = Nth(m + i)
  BY <1>3 DEF S
<1>6. i % Q = n % Q /\ (m + i) % Q = (m + n) % Q
  <2>1. (n % Q) % Q = n % Q /\ (m + (n % Q)) % Q = (m + n) % Q
    BY Sizes, ModOfMod, Zenon
  <2> QED BY <1>4, <2>1
<1>7. Nth(i) = Nth(n) /\ Nth(m + i) = Nth(m + n)
  <2>1. m + i \in Int /\ m + n \in Int
    OBVIOUS
  <2> QED BY <1>6, <2>1, NthOfMod
<1> QED BY <1>5, <1>7

\* A multiple of a multiple is the multiple of the product.
LEMMA NthTimes ==
    ASSUME NEW h \in Nat, NEW n \in Int
    PROVE  Times(h, Nth(n)) = Nth(h * n)
<1> DEFINE S == {i \in Nat : Times(i, Nth(n)) = Nth(i * n)}
<1>1. 0 \in S
  <2>1. 0 * n = 0
    OBVIOUS
  <2> QED BY <2>1, NthZero, TimesSteps
<1>2. ASSUME NEW i \in Nat, i \in S
      PROVE  i + 1 \in S
  <2>1. Times(i + 1, Nth(n)) = Add(Nth(i * n), Nth(n))
    BY <1>2, TimesSteps
  <2>2. (i + 1) * n = i * n + n /\ i * n \in Int
    OBVIOUS
  <2>3. Add(Nth(i * n), Nth(n)) = Nth(i * n + n)
    BY <2>2, NthAdd
  <2>4. Times(i + 1, Nth(n)) = Nth((i + 1) * n)
    BY <2>1, <2>2, <2>3
  <2> QED BY <2>4
<1> HIDE DEF S
<1>3. Nat \subseteq S
  BY <1>1, <1>2, SetInduction
<1> QED BY <1>3 DEF S

\* The negation of a multiple is the multiple of the negated number: why
\* calculate_key_pair may negate the private key instead of the point.
LEMMA NthNegate ==
    ASSUME NEW n \in Int
    PROVE  Negate(Nth(n)) = Nth(-n)
<1>1. Negate(Nth(n)) \in Group /\ Add(Nth(n), Negate(Nth(n))) = Neutral
  BY NthInGroup, CurveAssumption
<1>2. PICK j \in Int : Negate(Nth(n)) = Nth(j)
  BY <1>1, GroupHasNth
<1>3. Nth(n + j) = Neutral
  BY <1>1, <1>2, NthAdd
<1>4. (n + j) % Q = 0
  BY <1>3, NthZero
<1>5. PICK k \in Int : n + j = Q * k
  <2>1. n + j \in Int
    OBVIOUS
  <2>2. (n + j) \div Q \in Int /\ n + j = Q * ((n + j) \div Q) + ((n + j) % Q)
    BY <2>1, Sizes, ModType
  <2>3. PICK k \in Int : k = (n + j) \div Q
    BY <2>2
  <2>4. Q * k \in Int
    BY Sizes
  <2> QED BY <1>4, <2>2, <2>3, <2>4
<1>6. Q * k \in Int
  BY Sizes
<1>7. j = -n + Q * k
  BY <1>5, <1>6
<1>8. (-n + Q * k) % Q = (-n) % Q
  <2>1. -n \in Int /\ Q \in Nat \ {0}
    BY Sizes
  <2> QED BY <2>1, ModShift, Zenon
<1> QED BY <1>2, <1>7, <1>8, NthOfMod

-----------------------------------------------------------------------------
(* Encoding and decoding points *)

\* An encoded point is a key of 32 bytes, and ycoord and signbit take it apart
\* again: y never reaches the highest bit.
LEMMA EncodeParts ==
    ASSUME NEW A \in Group
    PROVE  /\ A = <<A[1], A[2]>> /\ A[1] \in Field /\ A[2] \in Field /\ A[1] % 2 \in {0, 1}
           /\ Encode(A) \in xckey
           /\ ycoord(Encode(A)) = A[2] /\ signbit(Encode(A)) = A[1] % 2
<1>1. A \in Field \X Field
  BY CurveAssumption
<1>2. PICK x \in Field, y \in Field : A = <<x, y>>
  BY <1>1
<1>3. PICK b \in {0, 1} : b = x % 2
  BY Sizes DEF Field
<1>4. y \in 0 .. SignBit - 1 /\ SignBit \in Nat \ {0}
  BY Sizes DEF Field
<1>5. PICK e \in Int : e = SignBit * b + y /\ e = y + SignBit * b /\ e \in xckey
  <2>1. b = 0 \/ b = 1
    OBVIOUS
  <2>2. SignBit * b = IF b = 0 THEN 0 ELSE SignBit
    BY <2>1, <1>4
  <2> QED BY <1>4, <2>2 DEF xckey
<1>6. e % SignBit = y
  BY <1>4, <1>5, ModUnique
<1>7. e \div SignBit = b
  <2>1. e \div SignBit \in Int /\ e = SignBit * (e \div SignBit) + (e % SignBit)
    BY <1>4, ModType
  <2>2. PICK q \in Int : q = e \div SignBit
    BY <2>1
  <2>3. e = SignBit * q + y
    BY <1>6, <2>1, <2>2
  <2>4. SignBit * q \in Int /\ SignBit * b \in Int /\ y \in Int
    BY <1>4
  <2>5. SignBit * (q - b) = SignBit * q - SignBit * b
    BY <1>4
  <2>6. SignBit * (q - b) = 0
    BY <1>5, <2>3, <2>4, <2>5
  <2>7. q - b \in Int /\ -SignBit < SignBit * (q - b) /\ SignBit * (q - b) < SignBit
    BY <1>4, <2>6
  <2>8. q - b = 0
    BY <1>4, <2>7, MultipleBound
  <2> QED BY <2>2, <2>8
<1>8. Encode(A) = e /\ A[1] = x /\ A[2] = y
  BY <1>2, <1>3, <1>5 DEF Encode
<1> QED BY <1>2, <1>3, <1>5, <1>6, <1>7, <1>8 DEF ycoord, signbit

\* Negation keeps y and flips the parity of an x other than 0, P being odd.
LEMMA NegateParts ==
    ASSUME NEW A \in Group
    PROVE  /\ Negate(A)[2] = A[2]
           /\ A[1] = 0 => Negate(A) = A
           /\ A[1] # 0 => Negate(A)[1] % 2 = 1 - (A[1] % 2)
<1>1. PICK x \in Field, y \in Field : A = <<x, y>> /\ A[1] = x /\ A[2] = y
  BY EncodeParts
<1>2. Negate(A) = <<(-x) % P, y>>
  BY <1>1 DEF Negate
<1>3. P \in Nat \ {0} /\ P % 2 = 1 /\ x \in 0 .. P - 1
  BY FieldHasOne, SizeAssumption DEF Field
<1>4. CASE x = 0
  <2>1. (-x) % P = 0
    BY <1>3, <1>4
  <2> QED BY <1>1, <1>2, <1>4, <2>1
<1>5. CASE x # 0
  <2>1. P * (-1) = -P
    BY <1>3
  <2>2. P - x \in 0 .. P - 1 /\ -x = P * (-1) + (P - x) /\ -x \in Int /\ -1 \in Int
    BY <1>3, <1>5, <2>1
  <2>3. (-x) % P = P - x
    BY <1>3, <2>2, ModUnique
  <2>4. (P - x) % 2 = 1 - (x % 2)
    BY <1>3
  <2> QED BY <1>1, <1>2, <1>5, <2>3, <2>4
<1> QED BY <1>4, <1>5

\* Two points of the group have different encodings.
LEMMA EncodeInjective ==
    ASSUME NEW A \in Group, NEW B \in Group, Encode(A) = Encode(B)
    PROVE  A = B
<1>1. A[2] = B[2] /\ A[1] % 2 = B[1] % 2 /\ B[1] % 2 \in {0, 1}
  BY EncodeParts
<1>2. A \in {B, Negate(B)}
  BY <1>1, CurveAssumption
<1>3. ASSUME A = Negate(B), A # B
      PROVE  FALSE
  <2>1. Negate(B)[1] % 2 = 1 - (B[1] % 2)
    BY <1>3, NegateParts
  <2>2. B[1] % 2 = 1 - (B[1] % 2)
    BY <1>1, <1>3, <2>1
  <2> QED BY <1>1, <2>2
<1> QED BY <1>2, <1>3

\* Decoding finds the point that was encoded.
LEMMA DecodeEncode ==
    ASSUME NEW A \in Group
    PROVE  Decode(Encode(A)) = A
<1>1. \E B \in Group : Encode(B) = Encode(A)
  OBVIOUS
<1>2. Decode(Encode(A)) \in Group /\ Encode(Decode(Encode(A))) = Encode(A)
  BY <1>1 DEF Decode
<1> QED BY <1>2, EncodeInjective

-----------------------------------------------------------------------------
(* Keys: clamping, the Montgomery form and the derived key pair *)

\* A clamped key has its highest bit clear and is no multiple of Q, so that its
\* public key is never the neutral point: a clamped key is 8 times a number and
\* positive, and the odd Q would have to divide it fewer than 8 times.
LEMMA ClampedKey ==
    ASSUME NEW K \in xckey
    PROVE  clamp(K) \in 0 .. SignBit - 1 /\ clamp(K) % Q # 0
<1>1. PICK q \in Nat, g \in Nat \ {0} : Q = 2 * q + 1 /\ SignBit = 16 * g
  <2>1. Q = 2 * (Q \div 2) + 1 /\ Q \div 2 \in Nat
    BY SizeAssumption
  <2>2. SignBit = 16 * (SignBit \div 16) /\ SignBit \div 16 \in Nat \ {0}
    BY SizeAssumption, Sizes
  <2> QED BY <2>1, <2>2
<1>2. SignBit \div 2 = 8 * g /\ K \in Nat
  BY <1>1, Sizes DEF xckey
<1> DEFINE l == K % (8 * g)
           b == K % 8
<1>3. l \in 0 .. 8 * g - 1 /\ b \in 0 .. 7
  BY <1>1, <1>2, ModType
<1>4. PICK d \in Nat : l - b = 8 * d
  <2>1. PICK j \in Int : K = (8 * g) * j + l
    <3>1. K \in Int /\ 8 * g \in Nat \ {0}
      BY <1>1, <1>2
    <3> QED BY <3>1, Quotient, Zenon
  <2>2. PICK i \in Int : K = 8 * i + b
    <3>1. K \in Int /\ 8 \in Nat \ {0}
      BY <1>2
    <3> QED BY <3>1, Quotient, Zenon
  <2> HIDE DEF l, b
  <2>3. PICK p \in Int : p = g * j
    BY <1>1
  <2>4. (8 * g) * j = 8 * p
    BY <1>1, <2>3
  <2>5. l - b = 8 * (i - p)
    BY <1>3, <2>1, <2>2, <2>4
  <2>6. i - p \in Nat
    BY <1>3, <2>5
  <2> QED BY <2>5, <2>6
<1>5. PICK c \in Nat : c = clamp(K) /\ c = 8 * (g + d)
  <2>1. clamp(K) = 8 * g + l - b
    BY <1>2 DEF clamp
  <2> HIDE DEF l, b
  <2> QED BY <1>1, <1>3, <1>4, <2>1
<1> HIDE DEF l, b
<1>6. c \in 0 .. SignBit - 1
  BY <1>1, <1>3, <1>4, <1>5
<1>7. ASSUME c % Q = 0
      PROVE  FALSE
  <2>1. PICK e \in Int : c = Q * e
    <3>0. c \in Int /\ Q \in Nat \ {0}
      BY <1>6, Sizes
    <3>1. PICK e \in Int : c = Q * e + (c % Q)
      BY <3>0, Quotient, Zenon
    <3>2. Q * e \in Int
      BY Sizes
    <3> QED BY <1>7, <3>1, <3>2
  <2>2. e > 0
    <3>1. CASE e <= 0
      <4>1. Q * e <= 0
        BY <3>1, Sizes
      <4> QED BY <1>1, <1>5, <2>1, <4>1
    <3> QED BY <3>1
  <2>3. e < 8
    <3>1. CASE e >= 8
      <4>1. Q * e >= Q * 8
        BY <3>1, Sizes
      <4> QED BY <1>6, <2>1, <4>1, Sizes
    <3> QED BY <3>1
  <2>4. 8 * (g + d) = (2 * q + 1) * e
    BY <1>1, <1>5, <2>1
  <2>5. e \in {1, 2, 3, 4, 5, 6, 7}
    BY <2>2, <2>3
  <2>6. PICK z \in Int : z = g + d
    BY <1>1
  <2>7. 8 * z # 2 * q + 1 /\ 8 * z # 4 * q + 2 /\ 8 * z # 6 * q + 3 /\ 8 * z # 8 * q + 4
        /\ 8 * z # 10 * q + 5 /\ 8 * z # 12 * q + 6 /\ 8 * z # 14 * q + 7
    OBVIOUS
  <2> QED BY <2>4, <2>5, <2>6, <2>7
<1> QED BY <1>5, <1>6, <1>7

\* From Edwards to Montgomery form and back: u = (1 + y) / (1 - y) gives
\* y = (u - 1) / (u + 1), and neither denominator is 0 for a point of the group
\* other than the neutral one.
LEMMA MontgomeryAndBack ==
    ASSUME NEW A \in Group, A # Neutral
    PROVE  /\ Montgomery(A) \in Field
           /\ ((Montgomery(A) - 1) * Inverse((Montgomery(A) + 1) % P)) % P = A[2]
<1>0. P \in Nat \ {0} /\ P > 2
  BY FieldHasOne, Sizes
<1>1. PICK y \in Field : y = A[2]
  BY EncodeParts
<1>2. y \in 0 .. P - 1 /\ y # 1
  <2>1. ASSUME y = 1
        PROVE  FALSE
    <3>1. Neutral \in Group /\ Neutral[1] = 0 /\ Neutral[2] = 1
      BY FieldHasOne DEF Neutral
    <3>2. A \in {Neutral, Negate(Neutral)}
      BY <1>1, <2>1, <3>1, CurveAssumption
    <3>3. Negate(Neutral) = Neutral
      BY <3>1, NegateParts
    <3> QED BY <3>2, <3>3
  <2> QED BY <2>1 DEF Field
<1>3. PICK d \in 1 .. P - 1 : d = (1 - y) % P
  <2>1. CASE y = 0
    <3>1. (1 - y) % P = 1
      BY <1>0, <2>1
    <3> QED BY <1>0, <3>1
  <2>2. CASE y # 0
    <3>1. P * (-1) = -P
      BY <1>0
    <3>2. P + 1 - y \in 1 .. P - 1 /\ 1 - y = P * (-1) + (P + 1 - y)
      BY <1>0, <1>2, <2>2, <3>1
    <3>3. (1 - y) % P = P + 1 - y
      BY <1>0, <1>2, <3>2, ModUnique
    <3> QED BY <3>2, <3>3
  <2> QED BY <2>1, <2>2
<1>4. PICK i \in Int : i = Inverse(d) /\ (d * i) % P = 1
  <2>1. Inverse(d) \in Field /\ (d * Inverse(d)) % P = 1
    BY InverseInField
  <2>2. Inverse(d) \in Int
    BY <1>0, <2>1 DEF Field
  <2> QED BY <2>1, <2>2
<1>5. PICK u \in Field : u = Montgomery(A) /\ u = ((1 + y) * i) % P
  <2>1. (1 + y) * i \in Int
    BY <1>2
  <2>2. ((1 + y) * i) % P \in Field
    BY <1>0, <2>1, ModType DEF Field
  <2> QED BY <1>1, <1>3, <1>4, <2>2 DEF Montgomery
<1>6. PICK k1 \in Int : (1 - y) * i = P * k1 + 1
  <2>1. 1 - y \in Int /\ (1 - y) * i \in Int
    BY <1>2
  <2>2. (((1 - y) % P) * i) % P = ((1 - y) * i) % P
    BY <1>0, <2>1, ModOfMod
  <2>3. ((1 - y) * i) % P = 1
    BY <1>3, <1>4, <2>2
  <2> QED BY <1>0, <2>1, <2>3, Quotient
<1>7. PICK k2 \in Int : (1 + y) * i = P * k2 + u
  <2>1. (1 + y) * i \in Int
    BY <1>2
  <2> QED BY <1>0, <1>5, <2>1, Quotient
<1>8. PICK m \in Int : u * (1 - y) = (1 + y) + P * m
  <2>0. y \in Int /\ u \in Int
    BY <1>2, <1>0, <1>5 DEF Field
  <2>1. PICK v \in Int : v = 1 - y
    BY <2>0
  <2>2. PICK w \in Int : w = 1 + y
    BY <2>0
  <2>3. v * i = P * k1 + 1 /\ w * i = P * k2 + u
    BY <1>6, <1>7, <2>1, <2>2
  <2>4. w * (v * i) = v * (w * i)
    OBVIOUS
  <2>5. w * (P * k1 + 1) = P * (w * k1) + w
    BY <1>0
  <2>6. v * (P * k2 + u) = P * (v * k2) + u * v
    BY <1>0, <2>0
  <2>7. P * (w * k1) + w = P * (v * k2) + u * v
    BY <2>3, <2>4, <2>5, <2>6
  <2>8. P * (w * k1 - v * k2) = P * (w * k1) - P * (v * k2)
    BY <1>0
  <2>9. w * k1 - v * k2 \in Int /\ P * (w * k1) \in Int /\ P * (v * k2) \in Int /\ u * v \in Int
    BY <1>0, <2>0
  <2>10. u * v = w + P * (w * k1 - v * k2)
    BY <2>7, <2>8, <2>9
  <2> QED BY <2>1, <2>2, <2>9, <2>10
<1>9. PICK e \in 1 .. P - 1 : e = (u + 1) % P
  <2>0. y \in Int /\ u \in Int /\ u + 1 \in Int
    BY <1>2, <1>0, <1>5 DEF Field
  <2>1. (u + 1) % P \in 0 .. P - 1
    BY <1>0, <2>0, ModType
  <2>2. ASSUME (u + 1) % P = 0
        PROVE  FALSE
    <3>1. PICK n \in Int : u + 1 = P * n
      <4>1. PICK n \in Int : u + 1 = P * n + 0
        BY <1>0, <2>0, <2>2, Quotient
      <4>2. P * n \in Int
        BY <1>0
      <4> QED BY <4>1, <4>2
    <3>2. (u + 1) * (1 - y) = u * (1 - y) + (1 - y)
      BY <2>0
    <3>3. P * m \in Int /\ u * (1 - y) \in Int
      BY <1>0, <2>0
    <3>4. (u + 1) * (1 - y) = 2 + P * m
      BY <1>8, <2>0, <3>2, <3>3
    <3>5. PICK v \in Int : v = 1 - y
      BY <2>0
    <3>6. (P * n) * v = 2 + P * m
      BY <3>1, <3>4, <3>5
    <3>7. P * (n * v - m) = (P * n) * v - P * m
      BY <1>0
    <3>8. PICK z \in Int : z = n * v - m
      OBVIOUS
    <3>9. P * z = 2
      BY <1>0, <3>3, <3>6, <3>7, <3>8
    <3>10. z = 0
      BY <1>0, <3>9, MultipleBound
    <3> QED BY <1>0, <3>9, <3>10
  <2> QED BY <2>1, <2>2
<1>10. PICK j \in Int : j = Inverse(e) /\ (e * j) % P = 1
  <2>1. Inverse(e) \in Field /\ (e * Inverse(e)) % P = 1
    BY InverseInField
  <2>2. Inverse(e) \in Int
    BY <1>0, <2>1 DEF Field
  <2> QED BY <2>1, <2>2
<1>11. ((u - 1) * j) % P = y
  <2>0. y \in Int /\ u \in Int /\ u + 1 \in Int /\ u - 1 \in Int
    BY <1>2, <1>0, <1>5 DEF Field
  <2>1. PICK k3 \in Int : (u + 1) * j = P * k3 + 1
    <3>1. (u + 1) * j \in Int
      BY <2>0
    <3>2. (((u + 1) % P) * j) % P = ((u + 1) * j) % P
      <4>1. u + 1 \in Int /\ j \in Int /\ P \in Nat \ {0}
        BY <1>0, <2>0
      <4> QED BY <4>1, ModOfMod, Zenon
    <3>3. ((u + 1) * j) % P = 1
      BY <1>9, <1>10, <3>2
    <3>4. \E k \in Int : (u + 1) * j = P * k + (((u + 1) * j) % P)
      <4>1. P \in Nat \ {0}
        BY <1>0
      <4> QED BY <3>1, <4>1, Quotient, Zenon
    <3> QED BY <3>3, <3>4
  <2>2. u * (1 - y) = u - y * u
    BY <2>0
  <2>3. y * (u + 1) = y * u + y
    BY <2>0
  <2>4. u - 1 = y * (u + 1) + P * m
    <3>1. P * m \in Int /\ y * u \in Int
      BY <1>0, <2>0
    <3> QED BY <1>8, <2>0, <2>2, <2>3, <3>1
  <2>5. PICK a \in Int : a = (u + 1) * j
    BY <2>0
  <2>6. (y * (u + 1) + P * m) * j = y * ((u + 1) * j) + P * (m * j)
    BY <1>0, <2>0
  <2>7. (u - 1) * j = y * (P * k3 + 1) + P * (m * j)
    BY <2>1, <2>4, <2>6
  <2>8. y * (P * k3 + 1) = P * (y * k3) + y
    BY <1>0, <2>0
  <2>9. P * (y * k3 + m * j) = P * (y * k3) + P * (m * j)
    BY <1>0, <2>0
  <2>10. /\ y * k3 + m * j \in Int /\ (u - 1) * j \in Int
         /\ P * (y * k3) \in Int /\ P * (m * j) \in Int
    BY <1>0, <2>0
  <2>11. (u - 1) * j = P * (y * k3 + m * j) + y
    BY <2>0, <2>7, <2>8, <2>9, <2>10
  <2>12. PICK c \in Int, k \in Int : c = (u - 1) * j /\ k = y * k3 + m * j
    BY <2>10
  <2>13. c = P * k + y
    BY <2>11, <2>12
  <2>14. c % P = y
    BY <1>0, <1>2, <2>13, ModUnique
  <2> QED BY <2>12, <2>14
<1> QED BY <1>1, <1>5, <1>9, <1>10, <1>11

\* bpscale multiplies the base point by the low bits of the scalar.
LEMMA YCoord ==
    ASSUME NEW K \in xckey
    PROVE  ycoord(K) \in 0 .. SignBit - 1 /\ bpscale(K) = Encode(Nth(ycoord(K)))
<1>1. K \in Int /\ SignBit \in Nat \ {0}
  BY Sizes DEF xckey
<1>2. ycoord(K) \in 0 .. SignBit - 1
  BY <1>1, ModType DEF ycoord
<1> QED BY <1>2 DEF bpscale, Nth

\* A reduced scalar is a key whose highest bit is clear.
LEMMA ReducedScalar ==
    ASSUME NEW r \in 0 .. Q - 1
    PROVE  r \in xckey /\ bpscale(r) = Encode(Nth(r))
<1>1. r \in 0 .. SignBit - 1 /\ r \in xckey
  BY Sizes DEF xckey
<1>2. ycoord(r) = r
  BY <1>1, Sizes DEF ycoord
<1> QED BY <1>1, <1>2, YCoord

\* The public key calculate_key_pair derives is a field element.
LEMMA KeyPairTypes ==
    ASSUME NEW K \in xckey
    PROVE  calculate_key_pair(K).Public \in Field /\ calculate_key_pair(K).Private \in Nat
<1>1. ycoord(bpscale(K)) \in Field
  <2>1. ycoord(K) \in Int
    BY YCoord, Sizes
  <2>2. Nth(ycoord(K)) \in Group
    BY <2>1, NthInGroup
  <2> QED BY <2>2, YCoord, EncodeParts
<1>2. K \in Nat /\ -K \in Int
  BY Sizes DEF xckey
<1>3. (-K) % Q \in Nat
  BY <1>2, Sizes, ModType
<1> QED BY <1>1, <1>2, <1>3 DEF calculate_key_pair

\* The two keys calculate_key_pair derives belong together: the point encoded by
\* the public key, with its sign bit cleared, is the private key times the base
\* point.  If the sign bit was set both are negated.
LEMMA KeyPairPoint ==
    ASSUME NEW K \in xckey, K = ycoord(K)
    PROVE  Decode(calculate_key_pair(K).Public) = Nth(calculate_key_pair(K).Private)
<1>1. K \in Int /\ -K \in Int /\ Nth(K) \in Group /\ bpscale(K) = Encode(Nth(K))
  BY YCoord, NthInGroup, Sizes DEF xckey
<1>2. PICK A \in Group : A = Nth(K) /\ bpscale(K) = Encode(A)
  BY <1>1
<1>3. /\ A[1] % 2 \in {0, 1} /\ A[2] \in Nat
      /\ ycoord(bpscale(K)) = A[2] /\ signbit(bpscale(K)) = A[1] % 2
  BY <1>2, EncodeParts, Sizes DEF Field
<1>4. calculate_key_pair(K).Public = A[2]
      /\ calculate_key_pair(K).Private = IF A[1] % 2 = 1 THEN (-K) % Q ELSE K
  BY <1>3 DEF calculate_key_pair
<1>5. CASE A[1] % 2 = 0
  <2>1. Encode(A) = A[2]
    BY <1>3, <1>5, Sizes DEF Encode
  <2> QED BY <1>2, <1>4, <1>5, <2>1, DecodeEncode
<1>6. CASE A[1] % 2 = 1
  <2>1. A[1] # 0
    BY <1>6
  <2>2. PICK B \in Group : B = Negate(A)
    BY CurveAssumption
  <2>3. B[2] = A[2] /\ B[1] % 2 = 0
    BY <1>6, <2>1, <2>2, NegateParts
  <2>4. Encode(B) = A[2]
    BY <1>3, <2>3, Sizes DEF Encode
  <2>5. Decode(A[2]) = B
    BY <2>4, DecodeEncode
  <2>6. B = Nth(-K)
    BY <1>1, <1>2, <2>2, NthNegate
  <2>7. Nth((-K) % Q) = Nth(-K)
    <3>1. Q \in Nat \ {0} /\ 0 \in Int
      BY Sizes
    <3>2. PICK m \in Int : m = -K
      BY <1>1
    <3>3. m % Q \in 0 .. Q - 1
      BY <3>1, <3>2, ModType, Zenon
    <3>4. m % Q \in Int
      BY <3>1, <3>3
    <3>5. (m % Q) % Q = m % Q
      BY <3>1, <3>3
    <3> QED BY <3>2, <3>4, <3>5, NthOfMod
  <2> QED BY <1>4, <1>6, <2>5, <2>6, <2>7
<1> QED BY <1>3, <1>5, <1>6

-----------------------------------------------------------------------------
(* Signatures *)

\* The equation of EdDSA for a signature of sign32 and the public key it derives:
\* sB = rB + h(aB) when s = r + ha modulo Q.
LEMMA SignatureEquation ==
    ASSUME NEW K \in xckey, K = ycoord(K), NEW r \in 0 .. Q - 1, NEW h \in 0 .. Q - 1
    PROVE  Equation(calculate_key_pair(K).Public, sign32(K, r, h), h)
<1>1. PICK a \in Nat : a = calculate_key_pair(K).Private
  BY KeyPairTypes
<1>2. Decode(calculate_key_pair(K).Public) = Nth(a)
  BY <1>1, KeyPairPoint
<1>3. sign32(K, r, h).s = (r + h * a) % Q /\ sign32(K, r, h).R = Encode(Nth(r))
  BY <1>1, ReducedScalar DEF sign32
<1>4. r \in Int /\ h \in Nat /\ h * a \in Int /\ r + h * a \in Int
  BY Sizes
<1>5. Decode(Encode(Nth(r))) = Nth(r)
  BY <1>4, NthInGroup, DecodeEncode
<1>6. Times(h, Nth(a)) = Nth(h * a)
  <2>1. h \in Nat /\ a \in Int
    BY <1>1, <1>4
  <2> QED BY <2>1, NthTimes, Zenon
<1>7. Add(Nth(r), Nth(h * a)) = Nth(r + h * a)
  BY <1>4, NthAdd
<1>8. Nth(r + h * a) = Multiples[((r + h * a) % Q) + 1]
  BY DEF Nth
<1> QED BY <1>2, <1>3, <1>5, <1>6, <1>7, <1>8 DEF Equation

\* The types of a signature.
LEMMA SignatureTypes ==
    ASSUME NEW K \in xckey, NEW r \in 0 .. Q - 1, NEW h \in 0 .. Q - 1
    PROVE  sign32(K, r, h) \in [R : xckey, s : 0 .. Q - 1]
<1>1. PICK a \in Nat : a = calculate_key_pair(K).Private
  BY KeyPairTypes
<1>2. r + h * a \in Int /\ r \in Int
  BY Sizes
<1>3. (r + h * a) % Q \in 0 .. Q - 1
  BY <1>2, Sizes, ModType
<1>4. Encode(Nth(r)) \in xckey
  BY <1>2, NthInGroup, EncodeParts
<1> QED BY <1>1, <1>3, <1>4, ReducedScalar DEF sign32

\* What crypto_box_keypair returns: the drawn private key, and a public key whose
\* conversion to Edwards form is the one calculate_key_pair derives if the private
\* key is clamped.
LEMMA PublicKey ==
    ASSUME NEW K \in xckey
    PROVE  /\ make_pair(K).Private = K /\ make_pair(K).Public \in Field
           /\ K = clamp(K) =>
                 LET u == make_pair(K).Public
                 IN  /\ K = ycoord(K)
                     /\ ((u - 1) * Inverse((u + 1) % P)) % P = calculate_key_pair(K).Public
<1>1. PICK c \in 0 .. SignBit - 1 : c = clamp(K) /\ c % Q # 0
  BY ClampedKey
<1>2. c \in Int /\ c \in xckey /\ ycoord(c) = c
  BY Sizes DEF ycoord, xckey
<1>3. PICK A \in Group : A = Nth(c) /\ A # Neutral
  BY <1>1, <1>2, NthInGroup, NthZero
<1>4. PICK u \in Field : u = Montgomery(A) /\ ((u - 1) * Inverse((u + 1) % P)) % P = A[2]
  BY <1>3, MontgomeryAndBack
<1>5. make_pair(K).Private = K /\ make_pair(K).Public = u
  BY <1>1, <1>3, <1>4 DEF make_pair, Nth
<1>6. calculate_key_pair(c).Public = A[2]
  BY <1>2, <1>3, YCoord, EncodeParts DEF calculate_key_pair
<1> QED BY <1>1, <1>2, <1>4, <1>5, <1>6

-----------------------------------------------------------------------------
(* The invariant and the theorems *)

\* The signatures sign32 can return for a key pair.
Signatures(pair) ==
    {[signature |-> sign32(pair.Private, r, h), hash |-> h,
      A |-> calculate_key_pair(pair.Private).Public] : r \in Hashes, h \in Hashes}

\* The inductive invariant: the key pair is one make_pair returns, there is at
\* most one, and what is signed was signed with it.  The properties relate the
\* signature to the pair, which TypeOK does not.
IInv ==
    /\ identity \subseteq {make_pair(K) : K \in PrivateKeys}
    /\ \A p1, p2 \in identity : p1 = p2
    /\ signed \subseteq UNION {Signatures(pair) : pair \in identity}
    /\ verdict \subseteq {"accepts", "rejects", "throws"}

\* The invariant holds initially and every step preserves it.
LEMMA SpecIInv == Spec => []IInv
<1>1. Init => IInv
  BY DEF Init, IInv
<1>2. IInv /\ [Next]_vars => IInv'
  <2> SUFFICES ASSUME IInv, [Next]_vars PROVE IInv'
    OBVIOUS
  <2>1. CASE MakePair
    <3>1. signed = {} /\ signed' = signed /\ verdict' = verdict
      BY <2>1 DEF MakePair, IInv
    <3>2. PICK K \in PrivateKeys : identity' = {make_pair(K)}
      BY <2>1 DEF MakePair
    <3> QED BY <3>1, <3>2 DEF IInv
  <2>2. CASE Sign
    <3>1. PICK pair \in identity, r \in Hashes, h \in Hashes :
             signed' = {[signature |-> sign32(pair.Private, r, h), hash |-> h,
                         A |-> calculate_key_pair(pair.Private).Public]}
      BY <2>2 DEF Sign
    <3>2. signed' \subseteq Signatures(pair)
      BY <3>1 DEF Signatures
    <3>3. identity' = identity /\ verdict' = {}
      BY <2>2 DEF Sign
    <3> QED BY <3>2, <3>3 DEF IInv
  <2>3. CASE Verify
    <3>1. identity' = identity /\ signed' = signed
      BY <2>3 DEF Verify
    <3>2. \E U, R, s, h : verdict' = {verify32(U, R, s, h)}
      BY <2>3 DEF Verify
    <3>3. \A U, R, s, h : verify32(U, R, s, h) \in {"accepts", "rejects", "throws"}
      BY Zenon DEF verify32
    <3>4. verdict' \subseteq {"accepts", "rejects", "throws"}
      BY <3>2, <3>3
    <3> QED BY <3>1, <3>4 DEF IInv
  <2>4. CASE UNCHANGED vars
    BY <2>4 DEF vars, IInv
  <2> QED BY <2>1, <2>2, <2>3, <2>4 DEF Next
<1> QED BY <1>1, <1>2, PTL DEF Spec

\* What the invariant says of the key pair and the signatures at hand.
LEMMA SignedByIdentity ==
    ASSUME IInv, NEW pair \in identity
    PROVE  /\ \E K \in PrivateKeys : K \in xckey /\ pair = make_pair(K) /\ pair.Private = K
           /\ \A sig \in signed : \E r \in Hashes, h \in Hashes :
                 /\ r \in 0 .. Q - 1 /\ h \in 0 .. Q - 1
                 /\ sig = [signature |-> sign32(pair.Private, r, h), hash |-> h,
                           A |-> calculate_key_pair(pair.Private).Public]
<1>1. PICK K \in PrivateKeys : pair = make_pair(K)
  BY DEF IInv
<1>2. K \in xckey
  BY SizeAssumption
<1>3. ASSUME NEW sig \in signed
      PROVE  sig \in Signatures(pair)
  BY DEF IInv
<1>4. Hashes \subseteq 0 .. Q - 1
  BY SizeAssumption
<1> QED BY <1>1, <1>2, <1>3, <1>4, PublicKey DEF Signatures

\* The invariant implies the type invariant.
LEMMA IInvImpliesTypeOK == IInv => TypeOK
<1> SUFFICES ASSUME IInv PROVE TypeOK
  OBVIOUS
<1>1. ASSUME NEW pair \in identity
      PROVE  pair \in [Private : xckey, Public : Field]
  <2>1. PICK K \in xckey : pair = make_pair(K)
    BY SignedByIdentity
  <2>2. make_pair(K).Private \in xckey /\ make_pair(K).Public \in Field
    BY PublicKey
  <2>3. make_pair(K) = [Private |-> make_pair(K).Private, Public |-> make_pair(K).Public]
    BY DEF make_pair
  <2> QED BY <2>1, <2>2, <2>3
<1>2. ASSUME NEW sig \in signed
      PROVE  sig \in [signature : [R : xckey, s : 0 .. Q - 1], hash : Hashes, A : Field]
  <2>1. PICK pair \in identity : TRUE
    BY DEF IInv
  <2>2. PICK K \in xckey : pair.Private = K
    BY SignedByIdentity
  <2>3. PICK r \in Hashes, h \in Hashes :
           /\ r \in 0 .. Q - 1 /\ h \in 0 .. Q - 1
           /\ sig = [signature |-> sign32(pair.Private, r, h), hash |-> h,
                     A |-> calculate_key_pair(pair.Private).Public]
    BY SignedByIdentity
  <2>4. /\ sign32(pair.Private, r, h) \in [R : xckey, s : 0 .. Q - 1]
        /\ calculate_key_pair(pair.Private).Public \in Field
    BY <2>2, <2>3, SignatureTypes, KeyPairTypes
  <2> QED BY <2>3, <2>4
<1>3. verdict \subseteq {"accepts", "rejects", "throws"}
  BY DEF IInv
<1> QED BY <1>1, <1>2, <1>3 DEF TypeOK

\* Type correctness: s is always reduced modulo Q, R and the keys fit into 32
\* bytes, and a public key is a field element, for every curve that meets the
\* assumptions, every private key and every hash.
THEOREM XedTypeCorrect == Spec => []TypeOK
BY SpecIInv, IInvImpliesTypeOK, PTL

\* What sign32 returns satisfies the equation of EdDSA for the public key that
\* sign32 derives itself, for every private key whose highest bit is clear.
THEOREM OwnKeySignatures == Spec => []OwnKeyVerifies
<1>1. IInv => OwnKeyVerifies
  <2> SUFFICES ASSUME IInv, NEW pair \in identity, NEW sig \in signed,
                      pair.Private = ycoord(pair.Private)
               PROVE  Equation(sig.A, sig.signature, sig.hash)
    BY DEF OwnKeyVerifies
  <2>1. PICK K \in xckey : pair.Private = K
    BY SignedByIdentity
  <2>2. PICK r \in Hashes, h \in Hashes :
           /\ r \in 0 .. Q - 1 /\ h \in 0 .. Q - 1
           /\ sig = [signature |-> sign32(pair.Private, r, h), hash |-> h,
                     A |-> calculate_key_pair(pair.Private).Public]
    BY SignedByIdentity
  <2>3. Equation(calculate_key_pair(K).Public, sign32(K, r, h), h)
    BY <2>1, <2>2, SignatureEquation
  <2> QED BY <2>1, <2>2, <2>3
<1> QED BY <1>1, SpecIInv, PTL

\* What sign32 returns for a clamped private key is a signature the XEdDSA
\* specification accepts for the public key crypto_box_keypair returned.
THEOREM ClampedKeySignatures == Spec => []ClampedKeyVerifies
<1>1. IInv => ClampedKeyVerifies
  <2> SUFFICES ASSUME IInv, NEW pair \in identity, NEW sig \in signed,
                      pair.Private = clamp(pair.Private)
               PROVE  SpecAccepts(pair.Public, sig.signature, sig.hash)
    BY DEF ClampedKeyVerifies
  <2>1. PICK K \in xckey : pair = make_pair(K) /\ pair.Private = K
    BY SignedByIdentity
  <2>2. PICK r \in Hashes, h \in Hashes :
           /\ r \in 0 .. Q - 1 /\ h \in 0 .. Q - 1
           /\ sig = [signature |-> sign32(pair.Private, r, h), hash |-> h,
                     A |-> calculate_key_pair(pair.Private).Public]
    BY SignedByIdentity
  <2>3. /\ K = ycoord(K)
        /\ ((pair.Public - 1) * Inverse((pair.Public + 1) % P)) % P = calculate_key_pair(K).Public
    BY <2>1, PublicKey
  <2>4. Equation(calculate_key_pair(K).Public, sign32(K, r, h), h)
    BY <2>2, <2>3, SignatureEquation
  <2> QED BY <2>1, <2>2, <2>3, <2>4 DEF SpecAccepts
<1> QED BY <1>1, SpecIInv, PTL
=============================================================================
