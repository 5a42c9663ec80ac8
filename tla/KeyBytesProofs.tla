--------------------------- MODULE KeyBytesProofs ---------------------------
(***************************************************************************)
(* Proofs for KeyBytes: the two properties its run checks hold for keys of *)
(* any bytes, sizes and number.  Both follow from one inductive invariant, *)
(* which says where each key lies in the buffer and that a blob is cut out *)
(* of it, and holds no key of its own, as long as no load has succeeded on *)
(* it; the load that succeeds is the last one.  The concatenation is       *)
(* FlattenSeq, a recursive function; its recurrence is proved first, with  *)
(* SetInduction.                                                           *)
(***************************************************************************)
EXTENDS KeyBytes, SequenceTheorems, Induction

-----------------------------------------------------------------------------
(* FlattenSeq, the recursive function behind the concatenation *)

\* f is the function FlattenSeq is defined with: f[i] joins the first i
\* elements of s, for each i up to n.
Flattens(f, s, n) ==
    f = [i \in 1 .. n |-> IF i = 1 THEN s[i] ELSE f[i - 1] \o s[i]]

\* What such a function has at each place.
LEMMA FlattensValue ==
    ASSUME NEW f, NEW s, NEW n, Flattens(f, s, n), NEW i \in 1 .. n
    PROVE  f[i] = IF i = 1 THEN s[i] ELSE f[i - 1] \o s[i]
<1> DEFINE h == [j \in 1 .. n |-> IF j = 1 THEN s[j] ELSE f[j - 1] \o s[j]]
<1>1. f = h
  BY Zenon DEF Flattens
<1>2. h[i] = IF i = 1 THEN s[i] ELSE f[i - 1] \o s[i]
  OBVIOUS
<1> HIDE DEF h
<1> QED BY <1>1, <1>2

\* There is one for every n: the recursion defines a function.
LEMMA FlattensExists ==
    ASSUME NEW s
    PROVE  \A n \in Nat : \E f : Flattens(f, s, n)
<1> DEFINE S == {n \in Nat : \E f : Flattens(f, s, n)}
<1>1. 0 \in S
  <2> DEFINE f == [i \in 1 .. 0 |-> s[i]]
  <2>1. Flattens(f, s, 0)
    BY DEF Flattens
  <2> QED BY <2>1
<1>2. ASSUME NEW n \in Nat, n \in S
      PROVE  n + 1 \in S
  <2>1. PICK f : Flattens(f, s, n)
    BY <1>2
  <2> DEFINE g == [i \in 1 .. n + 1 |-> IF i = 1 THEN s[i] ELSE f[i - 1] \o s[i]]
  <2>2. ASSUME NEW i \in 1 .. n
        PROVE g[i] = f[i]
    <3>1. f[i] = IF i = 1 THEN s[i] ELSE f[i - 1] \o s[i]
      BY <2>1, FlattensValue
    <3>2. i \in 1 .. n + 1
      OBVIOUS
    <3> QED BY <3>1, <3>2
  <2>3. ASSUME NEW i \in 1 .. n + 1, i # 1
        PROVE f[i - 1] = g[i - 1]
    <3>1. i - 1 \in 1 .. n
      BY <2>3
    <3> HIDE DEF g
    <3> QED BY <2>2, <3>1
  <2>4. g = [i \in 1 .. n + 1 |-> IF i = 1 THEN s[i] ELSE g[i - 1] \o s[i]]
    BY <2>3
  <2>5. Flattens(g, s, n + 1)
    BY <2>4 DEF Flattens
  <2> QED BY <2>5
<1> HIDE DEF S
<1>3. Nat \subseteq S
  BY <1>1, <1>2, SetInduction
<1> QED BY <1>3 DEF S

\* FlattenSeq takes its result from such a function.
LEMMA FlattenSeqFunction ==
    ASSUME NEW s, Len(s) \in Nat \ {0}
    PROVE  \E f : Flattens(f, s, Len(s)) /\ FlattenSeq(s) = f[Len(s)]
<1>1. PICK f : Flattens(f, s, Len(s))
  BY FlattensExists
<1> QED BY <1>1 DEF FlattenSeq, Flattens

\* Two such functions agree as far as their sequences do.
LEMMA FlattensAgree ==
    ASSUME NEW n \in Nat, NEW m \in Nat, n <= m,
           NEW f, NEW s, Flattens(f, s, m),
           NEW g, NEW t, Flattens(g, t, n),
           \A i \in 1 .. n : s[i] = t[i]
    PROVE  \A i \in 1 .. n : f[i] = g[i]
<1> DEFINE S == {i \in Nat : i \in 1 .. n => f[i] = g[i]}
<1>1. 0 \in S
  OBVIOUS
<1>2. ASSUME NEW i \in Nat, i \in S
      PROVE  i + 1 \in S
  <2> SUFFICES ASSUME i + 1 \in 1 .. n
               PROVE  f[i + 1] = g[i + 1]
    OBVIOUS
  <2>1. i + 1 \in 1 .. m /\ i + 1 \in 1 .. n /\ (i + 1) - 1 = i
    OBVIOUS
  <2>2. f[i + 1] = IF i + 1 = 1 THEN s[i + 1] ELSE f[i] \o s[i + 1]
    BY <2>1, FlattensValue
  <2>3. g[i + 1] = IF i + 1 = 1 THEN t[i + 1] ELSE g[i] \o t[i + 1]
    BY <2>1, FlattensValue
  <2>4. i + 1 # 1 => f[i] = g[i]
    BY <1>2
  <2> QED BY <2>2, <2>3, <2>4
<1> HIDE DEF S
<1>3. Nat \subseteq S
  BY <1>1, <1>2, SetInduction
<1> QED BY <1>3 DEF S

\* The recurrence FlattenSeq obeys: one more element adds its own elements at
\* the end.
LEMMA FlattenStep ==
    ASSUME NEW T, NEW s \in Seq(Seq(T)), NEW m \in 1 .. Len(s)
    PROVE  FlattenSeq(SubSeq(s, 1, m)) = FlattenSeq(SubSeq(s, 1, m - 1)) \o s[m]
<1>1. PICK n \in Nat : n = m - 1
  OBVIOUS
<1> DEFINE long  == SubSeq(s, 1, m)
           short == SubSeq(s, 1, n)
<1> SUFFICES FlattenSeq(long) = FlattenSeq(short) \o s[m]
  BY <1>1
<1>2. \A i \in 1 .. Len(s) : s[i] \in Seq(T)
  BY ElementOfSeq
<1>3. m \in Nat \ {0} /\ n <= m /\ \A i \in 1 .. m : i \in 1 .. Len(s)
  BY <1>1, LenProperties
<1>4. Len(long) = m /\ \A i \in 1 .. m : long[i] = s[i]
  <2>1. \A i \in 1 .. m : s[i] \in Seq(T)
    BY <1>2, <1>3
  <2>2. /\ Len(long) = IF 1 <= m THEN m - 1 + 1 ELSE 0
        /\ \A i \in 1 .. m - 1 + 1 : long[i] = s[1 + i - 1]
    BY <1>3, <2>1, SubSeqProperties
  <2> HIDE DEF long
  <2> QED BY <1>3, <2>2
<1>5. Len(short) = n /\ \A i \in 1 .. n : short[i] = s[i]
  <2>1. \A i \in 1 .. n : s[i] \in Seq(T)
    BY <1>1, <1>2, <1>3
  <2>2. /\ Len(short) = IF 1 <= n THEN n - 1 + 1 ELSE 0
        /\ \A i \in 1 .. n - 1 + 1 : short[i] = s[1 + i - 1]
    BY <2>1, SubSeqProperties
  <2> HIDE DEF short
  <2> QED BY <2>2
<1>6. n = 0 => short = <<>>
  BY SubSeqEmpty
<1> HIDE DEF long, short
<1>7. PICK f : Flattens(f, long, m) /\ FlattenSeq(long) = f[m]
  BY <1>3, <1>4, FlattenSeqFunction
<1>8. f[m] = IF n = 0 THEN s[1] ELSE f[n] \o s[m]
  <2>1. m \in 1 .. m /\ m - 1 = n /\ (m = 1 <=> n = 0)
    BY <1>1, <1>3
  <2>2. f[m] = IF m = 1 THEN long[m] ELSE f[m - 1] \o long[m]
    BY <1>7, <2>1, FlattensValue
  <2> QED BY <1>4, <2>1, <2>2
<1>9. CASE n = 0
  <2>1. FlattenSeq(<<>>) = <<>>
    BY DEF FlattenSeq
  <2>2. m = 1 /\ s[1] \in Seq(T)
    BY <1>1, <1>2, <1>3, <1>9
  <2>3. <<>> \o s[1] = s[1]
    BY <2>2, ConcatEmptySeq
  <2> QED BY <1>6, <1>7, <1>8, <1>9, <2>1, <2>2, <2>3
<1>10. CASE n # 0
  <2>1. PICK g : Flattens(g, short, n) /\ FlattenSeq(short) = g[n]
    BY <1>5, <1>10, FlattenSeqFunction
  <2>2. \A i \in 1 .. n : long[i] = short[i]
    <3>1. \A i \in 1 .. n : i \in 1 .. m
      BY <1>3
    <3> QED BY <1>4, <1>5, <3>1
  <2>3. n \in 1 .. n /\ n <= n /\ n <= m /\ m \in Nat
    BY <1>3, <1>10
  <2>4. \A i \in 1 .. n : f[i] = g[i]
    BY <1>7, <2>1, <2>2, <2>3, FlattensAgree
  <2> QED BY <1>7, <1>8, <1>10, <2>1, <2>3, <2>4
<1> QED BY <1>9, <1>10


\* The first i elements of s, joined.
Joined(s, i) == FlattenSeq(SubSeq(s, 1, i))

\* Joining nothing, joining everything, the recurrence and the type of the
\* result.
LEMMA JoinedSteps ==
    ASSUME NEW T, NEW s \in Seq(Seq(T))
    PROVE  /\ Joined(s, 0) = <<>>
           /\ Joined(s, Len(s)) = FlattenSeq(s)
           /\ \A i \in 1 .. Len(s) : Joined(s, i) = Joined(s, i - 1) \o s[i]
           /\ \A i \in 0 .. Len(s) : Joined(s, i) \in Seq(T)
<1>1. Joined(s, 0) = <<>>
  <2>1. SubSeq(s, 1, 0) = <<>>
    BY SubSeqEmpty
  <2>2. FlattenSeq(<<>>) = <<>>
    BY DEF FlattenSeq
  <2> QED BY <2>1, <2>2 DEF Joined
<1>2. Joined(s, Len(s)) = FlattenSeq(s)
  BY SubSeqFull DEF Joined
<1>3. \A i \in 1 .. Len(s) : Joined(s, i) = Joined(s, i - 1) \o s[i]
  BY FlattenStep DEF Joined
<1>4. \A i \in 0 .. Len(s) : Joined(s, i) \in Seq(T)
  <2> DEFINE S == {i \in Nat : i \in 0 .. Len(s) => Joined(s, i) \in Seq(T)}
  <2>1. 0 \in S
    BY <1>1, EmptySeq
  <2>2. ASSUME NEW i \in Nat, i \in S
        PROVE  i + 1 \in S
    <3> SUFFICES ASSUME i + 1 \in 0 .. Len(s)
                 PROVE  Joined(s, i + 1) \in Seq(T)
      OBVIOUS
    <3>1. Len(s) \in Nat
      BY LenProperties
    <3>2. i + 1 \in 1 .. Len(s) /\ (i + 1) - 1 = i /\ i \in 0 .. Len(s)
      BY <3>1
    <3>3. Joined(s, i + 1) = Joined(s, i) \o s[i + 1]
      BY <1>3, <3>2
    <3>4. Joined(s, i) \in Seq(T)
      BY <2>2, <3>2
    <3>5. s[i + 1] \in Seq(T)
      BY <3>2, ElementOfSeq
    <3> QED BY <3>3, <3>4, <3>5, ConcatProperties
  <2> HIDE DEF S
  <2>3. Nat \subseteq S
    BY <2>1, <2>2, SetInduction
  <2> QED BY <2>3, LenProperties DEF S
<1> QED BY <1>1, <1>2, <1>3, <1>4

\* Joining more elements leaves what was joined before where it was.
LEMMA JoinedPrefix ==
    ASSUME NEW T, NEW s \in Seq(Seq(T)), NEW i \in 0 .. Len(s), NEW j \in i .. Len(s)
    PROVE  /\ Len(Joined(s, i)) <= Len(Joined(s, j))
           /\ \A k \in 1 .. Len(Joined(s, i)) : Joined(s, j)[k] = Joined(s, i)[k]
<1>0. Len(s) \in Nat
  BY LenProperties
<1> DEFINE n == Len(Joined(s, i))
<1> DEFINE S == {m \in Nat : m \in i .. Len(s) =>
                    /\ n <= Len(Joined(s, m))
                    /\ \A k \in 1 .. n : Joined(s, m)[k] = Joined(s, i)[k]}
<1>1. \A m \in 0 .. Len(s) : Joined(s, m) \in Seq(T) /\ Len(Joined(s, m)) \in Nat
  BY JoinedSteps, LenProperties
<1>2. n \in Nat
  BY <1>1
<1>3. 0 \in S
  <2>1. 0 \in i .. Len(s) => i = 0
    OBVIOUS
  <2> QED BY <1>2, <2>1
<1>4. ASSUME NEW m \in Nat, m \in S
      PROVE  m + 1 \in S
  <2> SUFFICES ASSUME m + 1 \in i .. Len(s)
               PROVE  /\ n <= Len(Joined(s, m + 1))
                      /\ \A k \in 1 .. n : Joined(s, m + 1)[k] = Joined(s, i)[k]
    OBVIOUS
  <2>1. CASE m + 1 = i
    BY <1>2, <2>1
  <2>2. CASE m + 1 # i
    <3>1. m \in i .. Len(s) /\ m \in 0 .. Len(s) /\ m + 1 \in 1 .. Len(s) /\ (m + 1) - 1 = m
      BY <1>0, <2>2
    <3> DEFINE a == Joined(s, m)
               b == s[m + 1]
    <3>2. n <= Len(a) /\ \A k \in 1 .. n : a[k] = Joined(s, i)[k]
      BY <1>4, <3>1
    <3>3. Joined(s, m + 1) = a \o b
      BY <3>1, JoinedSteps
    <3>4. a \in Seq(T) /\ b \in Seq(T) /\ Len(a) \in Nat
      BY <1>1, <3>1, ElementOfSeq
    <3>5. Len(b) \in Nat
      BY <3>4, LenProperties
    <3> HIDE DEF a, b, n
    <3>6. /\ Len(a \o b) = Len(a) + Len(b)
          /\ \A k \in 1 .. Len(a) + Len(b) : (a \o b)[k] = IF k <= Len(a) THEN a[k] ELSE b[k - Len(a)]
      BY <3>4, ConcatProperties
    <3>7. \A k \in 1 .. n : k \in 1 .. Len(a) + Len(b) /\ k <= Len(a)
      BY <1>2, <3>2, <3>4, <3>5
    <3>8. \A k \in 1 .. n : (a \o b)[k] = Joined(s, i)[k]
      BY <3>2, <3>6, <3>7
    <3>9. n <= Len(a \o b)
      BY <1>2, <3>2, <3>4, <3>5, <3>6
    <3> QED BY <3>3, <3>8, <3>9
  <2> QED BY <2>1, <2>2
<1> HIDE DEF S
<1>5. Nat \subseteq S
  BY <1>3, <1>4, SetInduction
<1>6. j \in Nat /\ j \in S
  BY <1>5
<1> QED BY <1>6 DEF S

\* Where the i-th element of s lies in any joining that has it.
LEMMA JoinedPart ==
    ASSUME NEW T, NEW s \in Seq(Seq(T)), NEW j \in 1 .. Len(s), NEW i \in 1 .. j
    PROVE  /\ Len(Joined(s, i)) = Len(Joined(s, i - 1)) + Len(s[i])
           /\ Len(Joined(s, i - 1)) + Len(s[i]) <= Len(Joined(s, j))
           /\ \A k \in 1 .. Len(s[i]) : Joined(s, j)[Len(Joined(s, i - 1)) + k] = s[i][k]
<1>0. Len(s) \in Nat
  BY LenProperties
<1>1. i \in 1 .. Len(s) /\ i \in 0 .. Len(s) /\ i - 1 \in 0 .. Len(s) /\ j \in i .. Len(s)
  BY <1>0
<1> DEFINE a == Joined(s, i - 1)
           b == s[i]
<1>2. Joined(s, i) = a \o b
  BY <1>1, JoinedSteps
<1>3. a \in Seq(T) /\ b \in Seq(T)
  BY <1>1, JoinedSteps, ElementOfSeq
<1>4. Len(a) \in Nat /\ Len(b) \in Nat
  BY <1>3, LenProperties
<1>5. /\ Len(Joined(s, i)) <= Len(Joined(s, j))
      /\ \A k \in 1 .. Len(Joined(s, i)) : Joined(s, j)[k] = Joined(s, i)[k]
  BY <1>1, JoinedPrefix
<1> SUFFICES /\ Len(Joined(s, i)) = Len(a) + Len(b)
             /\ Len(a) + Len(b) <= Len(Joined(s, j))
             /\ \A k \in 1 .. Len(b) : Joined(s, j)[Len(a) + k] = b[k]
  OBVIOUS
<1> HIDE DEF a, b
<1>6. /\ Len(a \o b) = Len(a) + Len(b)
      /\ \A k \in 1 .. Len(a) + Len(b) : (a \o b)[k] = IF k <= Len(a) THEN a[k] ELSE b[k - Len(a)]
  BY <1>3, ConcatProperties
<1>7. ASSUME NEW k \in 1 .. Len(b)
      PROVE  Joined(s, j)[Len(a) + k] = b[k]
  <2>1. /\ Len(a) + k \in 1 .. Len(a) + Len(b) /\ ~ (Len(a) + k <= Len(a))
        /\ (Len(a) + k) - Len(a) = k
    BY <1>4
  <2>2. (a \o b)[Len(a) + k] = b[k]
    BY <1>6, <2>1
  <2> QED BY <1>2, <1>5, <1>6, <2>1, <2>2
<1> QED BY <1>2, <1>5, <1>6, <1>7


-----------------------------------------------------------------------------
(* The operations on bytes *)

\* A key is a sequence of bytes of positive length, and filled makes keys.
LEMMA KeysAreSequences ==
    /\ keys \subseteq Seq(Byte)
    /\ \A k \in keys : Len(k) \in Nat \ {0} /\ filled(Len(k), 0) \in keys
<1>1. ASSUME NEW n \in Sizes, NEW k \in [1 .. n -> Byte]
      PROVE  k \in Seq(Byte) /\ Len(k) = n /\ n \in Nat \ {0}
  <2>1. n \in Nat \ {0}
    BY BytesAssumption
  <2>2. k \in Seq(Byte)
    BY <2>1
  <2> QED BY <2>1, <2>2
<1>2. \A k \in keys : \E n \in Sizes : k \in [1 .. n -> Byte]
  BY DEF keys
<1>3. \A n \in Sizes : filled(n, 0) \in keys
  <2>1. \A n \in Sizes : filled(n, 0) \in [1 .. n -> Byte]
    BY BytesAssumption DEF filled
  <2> QED BY <2>1 DEF keys
<1> QED BY <1>1, <1>2, <1>3

\* The same for the keys in a sequence of keys.
LEMMA KeysInParts ==
    ASSUME NEW s \in Seq(keys)
    PROVE  /\ Len(s) \in Nat
           /\ s \in Seq(Seq(Byte))
           /\ \A i \in 1 .. Len(s) :
                 /\ s[i] \in keys /\ s[i] \in Seq(Byte) /\ Len(s[i]) \in Nat \ {0}
                 /\ filled(Len(s[i]), 0) \in keys
<1>1. \A i \in 1 .. Len(s) : s[i] \in keys
  BY ElementOfSeq
<1>2. s \in Seq(Seq(Byte))
  BY KeysAreSequences, SeqMonotonic
<1> QED BY <1>1, <1>2, KeysAreSequences, LenProperties

\* What joining does to keys: types, ends, the recurrence and the lengths.
LEMMA JoinedKeys ==
    ASSUME NEW s \in Seq(keys)
    PROVE  /\ Joined(s, 0) = <<>> /\ Joined(s, Len(s)) = FlattenSeq(s)
           /\ FlattenSeq(s) \in Seq(Byte) /\ Len(FlattenSeq(s)) \in Nat
           /\ \A i \in 0 .. Len(s) : Joined(s, i) \in Seq(Byte) /\ Len(Joined(s, i)) \in Nat
           /\ \A i \in 0 .. Len(s) :
                 i # Len(s) => /\ Joined(s, i + 1) = Joined(s, i) \o s[i + 1]
                               /\ Len(Joined(s, i + 1)) = Len(Joined(s, i)) + Len(s[i + 1])
                               /\ Len(Joined(s, i)) + Len(s[i + 1]) <= Len(FlattenSeq(s))
<1>1. s \in Seq(Seq(Byte)) /\ Len(s) \in Nat
  BY KeysInParts
<1>2. Joined(s, 0) = <<>> /\ Joined(s, Len(s)) = FlattenSeq(s)
  BY <1>1, JoinedSteps
<1>3. \A i \in 0 .. Len(s) : Joined(s, i) \in Seq(Byte)
  BY <1>1, JoinedSteps
<1>4. \A i \in 0 .. Len(s) : Len(Joined(s, i)) \in Nat
  BY <1>3, LenProperties
<1>5. ASSUME NEW i \in 0 .. Len(s), i # Len(s)
      PROVE  /\ Joined(s, i + 1) = Joined(s, i) \o s[i + 1]
             /\ Len(Joined(s, i + 1)) = Len(Joined(s, i)) + Len(s[i + 1])
             /\ Len(Joined(s, i)) + Len(s[i + 1]) <= Len(FlattenSeq(s))
  <2>1. i + 1 \in 1 .. Len(s) /\ i + 1 \in 1 .. i + 1 /\ (i + 1) - 1 = i /\ Len(s) \in 1 .. Len(s)
    BY <1>1, <1>5
  <2>2. Joined(s, i + 1) = Joined(s, (i + 1) - 1) \o s[i + 1]
    BY <1>1, <2>1, JoinedSteps
  <2>3. /\ Len(Joined(s, i + 1)) = Len(Joined(s, (i + 1) - 1)) + Len(s[i + 1])
        /\ Len(Joined(s, (i + 1) - 1)) + Len(s[i + 1]) <= Len(Joined(s, Len(s)))
    BY <1>1, <2>1, JoinedPart
  <2> QED BY <1>2, <2>1, <2>2, <2>3
<1>6. FlattenSeq(s) \in Seq(Byte) /\ Len(FlattenSeq(s)) \in Nat
  <2>1. Len(s) \in 0 .. Len(s)
    BY <1>1
  <2> QED BY <1>2, <1>3, <1>4, <2>1
<1> QED BY <1>2, <1>3, <1>4, <1>5, <1>6

\* The bytes of a filled key.
LEMMA FilledBytes ==
    ASSUME NEW n \in Nat
    PROVE  filled(n, 0) \in Seq(Byte) /\ Len(filled(n, 0)) = n
           /\ \A i \in 1 .. n : filled(n, 0)[i] = 0
<1>1. filled(n, 0) \in [1 .. n -> Byte]
  BY BytesAssumption DEF filled
<1> QED BY <1>1 DEF filled

\* memcpy changes the bytes it covers and no other, within the buffer.
LEMMA MemcpyBytes ==
    ASSUME NEW b \in Seq(Byte), NEW k \in Seq(Byte), NEW at \in Nat
    PROVE  /\ memcpy(b, at, k) \in Seq(Byte)
           /\ Len(memcpy(b, at, k)) = Len(b)
           /\ \A i \in 1 .. Len(b) :
                 memcpy(b, at, k)[i] = IF at < i /\ i <= at + Len(k) THEN k[i - at] ELSE b[i]
<1>1. /\ Len(b) \in Nat /\ Len(k) \in Nat /\ DOMAIN b = 1 .. Len(b)
      /\ \A i \in 1 .. Len(b) : b[i] \in Byte
      /\ \A i \in 1 .. Len(k) : k[i] \in Byte
  BY LenProperties, ElementOfSeq
<1>2. \A i \in 1 .. Len(b) : at < i /\ i <= at + Len(k) => i - at \in 1 .. Len(k)
  BY <1>1
<1>3. memcpy(b, at, k) \in [1 .. Len(b) -> Byte]
  BY <1>1, <1>2 DEF memcpy
<1> QED BY <1>1, <1>3 DEF memcpy

\* A key copied to where the zeros of a buffer begin is appended to what
\* comes before them.
LEMMA CopyIntoZeros ==
    ASSUME NEW a \in Seq(Byte), NEW k \in Seq(Byte), NEW n \in Nat, Len(a) + Len(k) <= n
    PROVE  memcpy(a \o filled(n - Len(a), 0), Len(a), k) = (a \o k) \o filled(n - Len(a \o k), 0)
<1>1. Len(a) \in Nat /\ Len(k) \in Nat
  BY LenProperties
<1>2. a \o k \in Seq(Byte) /\ Len(a \o k) = Len(a) + Len(k)
  BY ConcatProperties
<1>3. n - Len(a) \in Nat /\ n - Len(a \o k) \in Nat
  BY <1>1, <1>2
<1> DEFINE z == filled(n - Len(a), 0)
           y == filled(n - Len(a \o k), 0)
<1>4. /\ z \in Seq(Byte) /\ Len(z) = n - Len(a) /\ \A i \in 1 .. n - Len(a) : z[i] = 0
      /\ y \in Seq(Byte) /\ Len(y) = n - Len(a \o k) /\ \A i \in 1 .. n - Len(a \o k) : y[i] = 0
  BY <1>3, FilledBytes
<1> SUFFICES memcpy(a \o z, Len(a), k) = (a \o k) \o y
  OBVIOUS
<1> HIDE DEF z, y
<1>5. /\ a \o z \in Seq(Byte) /\ Len(a \o z) = Len(a) + Len(z)
      /\ \A i \in 1 .. Len(a) + Len(z) : (a \o z)[i] = IF i <= Len(a) THEN a[i] ELSE z[i - Len(a)]
  BY <1>4, ConcatProperties
<1>6. \A i \in 1 .. Len(a) + Len(k) : (a \o k)[i] = IF i <= Len(a) THEN a[i] ELSE k[i - Len(a)]
  BY ConcatProperties
<1> DEFINE l == memcpy(a \o z, Len(a), k)
           r == (a \o k) \o y
<1>7. /\ r \in Seq(Byte) /\ Len(r) = Len(a \o k) + Len(y)
      /\ \A i \in 1 .. Len(a \o k) + Len(y) :
            r[i] = IF i <= Len(a \o k) THEN (a \o k)[i] ELSE y[i - Len(a \o k)]
  <2> DEFINE c == a \o k
  <2>1. c \in Seq(Byte) /\ y \in Seq(Byte)
    BY <1>2, <1>4
  <2> HIDE DEF c
  <2>2. /\ c \o y \in Seq(Byte) /\ Len(c \o y) = Len(c) + Len(y)
        /\ \A i \in 1 .. Len(c) + Len(y) : (c \o y)[i] = IF i <= Len(c) THEN c[i] ELSE y[i - Len(c)]
    BY <2>1, ConcatProperties
  <2> QED BY <2>2 DEF c
<1>8. /\ l \in Seq(Byte) /\ Len(l) = Len(a \o z)
      /\ \A i \in 1 .. Len(a \o z) :
            l[i] = IF Len(a) < i /\ i <= Len(a) + Len(k) THEN k[i - Len(a)] ELSE (a \o z)[i]
  BY <1>1, <1>5, MemcpyBytes
<1> SUFFICES l = r
  OBVIOUS
<1> HIDE DEF l, r
<1>9. Len(l) = n /\ Len(r) = n
  BY <1>1, <1>2, <1>4, <1>5, <1>7, <1>8
<1>10. ASSUME NEW i \in 1 .. n
       PROVE  l[i] = r[i]
  <2>1. i \in 1 .. Len(a \o z) /\ i \in 1 .. Len(a) + Len(z) /\ i \in 1 .. Len(a \o k) + Len(y)
    BY <1>1, <1>2, <1>4, <1>5
  <2>2. CASE i <= Len(a)
    <3>1. i \in 1 .. Len(a) + Len(k) /\ i <= Len(a \o k) /\ ~ (Len(a) < i)
      BY <1>1, <1>2, <2>2
    <3> QED BY <1>5, <1>6, <1>7, <1>8, <2>1, <2>2, <3>1
  <2>3. CASE Len(a) < i /\ i <= Len(a) + Len(k)
    <3>1. i \in 1 .. Len(a) + Len(k) /\ i <= Len(a \o k) /\ ~ (i <= Len(a))
      BY <1>1, <1>2, <2>3
    <3> QED BY <1>6, <1>7, <1>8, <2>1, <2>3, <3>1
  <2>4. CASE Len(a) + Len(k) < i
    <3>1. /\ ~ (i <= Len(a)) /\ ~ (i <= Len(a) + Len(k)) /\ ~ (i <= Len(a \o k))
          /\ i - Len(a) \in 1 .. n - Len(a) /\ i - Len(a \o k) \in 1 .. n - Len(a \o k)
      BY <1>1, <1>2, <2>4
    <3>2. l[i] = z[i - Len(a)] /\ r[i] = y[i - Len(a \o k)]
      BY <1>5, <1>7, <1>8, <2>1, <3>1
    <3> QED BY <1>4, <3>1, <3>2
  <2> QED BY <1>1, <2>2, <2>3, <2>4
<1> QED BY <1>7, <1>8, <1>9, <1>10, SeqEqual


\* bytes is what is left of the keys of s, joined and then cut at some length.
Saved(s, bytes) ==
    /\ bytes \in Seq(Byte)
    /\ Len(bytes) <= Len(FlattenSeq(s))
    /\ \A x \in 1 .. Len(bytes) : bytes[x] = FlattenSeq(s)[x]

\* What load_keyb_s gives for half i of the pair s, loaded at an offset.
Result(s, i, bytes, at) == load_keyb_s(bytes, filled(Len(s[i]), 0), at)

\* A load of one half at its offset, from bytes that were saved, gives that half
\* if it succeeds; if it fails it leaves the key zero and the bytes as they were.
\* The offset of the private half is right only if both halves have the same
\* size; if they have not, then even a whole blob has too few bytes behind that
\* offset, and the load fails.
LEMMA LoadResult ==
    ASSUME NEW s \in Seq(keys), Len(s) = 2, Len(s[1]) <= Len(s[2]), NEW i \in 1 .. 2,
           NEW b, Saved(s, b), NEW at, at = IF i = 1 THEN 0 ELSE Len(s[i])
    PROVE  /\ Result(s, i, b, at).ref =
                 IF Result(s, i, b, at).success THEN s[i] ELSE filled(Len(s[i]), 0)
           /\ ~ Result(s, i, b, at).success => Result(s, i, b, at).bytes = b
<1> DEFINE all == FlattenSeq(s)
<1>1. PICK k : k = s[i]
  OBVIOUS
<1>2. PICK zeros : zeros = filled(Len(k), 0)
  OBVIOUS
<1>3. PICK r : r = Result(s, i, b, at)
  OBVIOUS
<1>4. /\ Len(s[1]) \in Nat \ {0} /\ Len(s[2]) \in Nat \ {0}
      /\ k \in Seq(Byte) /\ Len(k) \in Nat /\ s \in Seq(Seq(Byte))
  BY <1>1, KeysInParts
<1>5. Len(zeros) = Len(k)
  BY <1>2, <1>4, FilledBytes
<1>6. Len(b) \in Nat /\ at \in Nat
  BY <1>4, LenProperties DEF Saved
<1>7. /\ Len(Joined(s, 0)) = 0 /\ Len(Joined(s, 1)) = Len(s[1])
      /\ Len(all) = Len(s[1]) + Len(s[2]) /\ all = Joined(s, 2)
  <2>1. Joined(s, 0) = <<>> /\ Joined(s, Len(s)) = all
    BY JoinedKeys
  <2>2. 0 \in 0 .. Len(s) /\ 0 # Len(s) /\ 1 \in 0 .. Len(s) /\ 1 # Len(s)
    OBVIOUS
  <2>3. Len(Joined(s, 0 + 1)) = Len(Joined(s, 0)) + Len(s[0 + 1])
    BY <2>2, JoinedKeys
  <2>4. Len(Joined(s, 1 + 1)) = Len(Joined(s, 1)) + Len(s[1 + 1])
    BY <2>2, JoinedKeys
  <2>5. Len(Joined(s, 0)) = 0
    BY <2>1
  <2>6. 0 + 1 = 1 /\ 1 + 1 = 2
    OBVIOUS
  <2> HIDE DEF all
  <2> QED BY <1>4, <2>1, <2>3, <2>4, <2>5, <2>6
<1>8. ASSUME Len(k) + at <= Len(b)
      PROVE  kcpy(b, Len(k), at) = k
  <2>1. Len(b) <= Len(s[1]) + Len(s[2])
    BY <1>7 DEF Saved
  <2>2. at = Len(Joined(s, i - 1))
    <3>1. CASE i = 1
      BY <1>7, <3>1
    <3>2. CASE i = 2
      BY <1>1, <1>4, <1>6, <1>7, <1>8, <2>1, <3>2
    <3> QED BY <3>1, <3>2
  <2>3. 2 \in 1 .. Len(s) /\ i \in 1 .. 2
    OBVIOUS
  <2>4. \A x \in 1 .. Len(s[i]) : Joined(s, 2)[Len(Joined(s, i - 1)) + x] = s[i][x]
    BY <1>4, <2>3, JoinedPart
  <2>5. \A x \in 1 .. Len(k) : all[at + x] = k[x]
    BY <1>1, <1>7, <2>2, <2>4
  <2>6. \A x \in 1 .. Len(k) : at + x \in 1 .. Len(b)
    BY <1>4, <1>6, <1>8
  <2>7. \A x \in 1 .. Len(k) : b[at + x] = k[x]
    BY <2>5, <2>6 DEF Saved
  <2>8. k = [x \in 1 .. Len(k) |-> k[x]]
    BY <1>4, LenProperties
  <2> QED BY <2>7, <2>8 DEF kcpy
<1> DEFINE loading == load_keyb(b, zeros, at)
<1>9. /\ r.success = loading.success /\ r.ref = loading.ref
      /\ ~ loading.success => r.bytes = b
  <2>1. r = load_keyb_s(b, zeros, at)
    BY <1>1, <1>2, <1>3 DEF Result
  <2> QED BY <2>1 DEF load_keyb_s
<1>10. CASE Len(k) + at > Len(b)
  <2>1. loading = [success |-> FALSE, ref |-> zeros]
    BY <1>5, <1>10 DEF load_keyb
  <2> HIDE DEF loading
  <2> QED BY <1>1, <1>2, <1>3, <1>9, <2>1
<1>11. CASE ~ (Len(k) + at > Len(b))
  <2>1. loading = [success |-> TRUE, ref |-> kcpy(b, Len(k), at)]
    BY <1>5, <1>11 DEF load_keyb
  <2>2. kcpy(b, Len(k), at) = k
    BY <1>4, <1>6, <1>8, <1>11
  <2> HIDE DEF loading
  <2> QED BY <1>1, <1>2, <1>3, <1>9, <2>1, <2>2
<1> QED BY <1>10, <1>11

-----------------------------------------------------------------------------
(* The inductive invariant *)

\* The buffer holds the keys that have been copied and zeros up to its end.
BufferInv ==
    /\ parts \in Seq(keys)
    /\ copied \in 0 .. Len(parts)
    /\ out = Joined(parts, copied)
             \o filled(Len(FlattenSeq(parts)) - Len(Joined(parts, copied)), 0)

\* A blob is there only after everything was copied, and holds the pair that
\* was saved, cut at some length, until a load succeeds.
BlobInv ==
    /\ blob = {} => loaded = {} /\ offset = Len(Joined(parts, copied))
    /\ blob # {} =>
          /\ copied = Len(parts) /\ Len(parts) = 2 /\ Len(parts[1]) <= Len(parts[2])
          /\ (\A l \in loaded : ~l.success) => \A bytes \in blob : Saved(parts, bytes)

\* The inductive invariant.
IInv == BufferInv /\ BlobInv /\ LoadedWhole

\* When every key is copied the buffer is the keys joined.
LEMMA WholeBuffer ==
    ASSUME BufferInv, copied = Len(parts)
    PROVE  out = FlattenSeq(parts) /\ out \in Seq(Byte) /\ Len(out) \in Nat
<1> DEFINE all == FlattenSeq(parts)
<1>1. parts \in Seq(keys)
  BY DEF BufferInv
<1>2. Joined(parts, copied) = all /\ all \in Seq(Byte)
  BY <1>1, JoinedKeys
<1>3. Len(all) \in Nat
  BY <1>1, JoinedKeys
<1>4. out = all \o filled(Len(all) - Len(all), 0)
  BY <1>2 DEF BufferInv
<1>5. filled(Len(all) - Len(all), 0) = <<>>
  <2>1. filled(0, 0) = <<>>
    <3>1. Len(filled(0, 0)) = 0 /\ filled(0, 0) \in Seq(Byte)
      BY FilledBytes
    <3> QED BY <3>1, EmptySeq
  <2> QED BY <1>3, <2>1
<1> HIDE DEF all
<1>6. out = all
  BY <1>2, <1>4, <1>5, ConcatEmptySeq
<1> QED BY <1>2, <1>3, <1>6 DEF all

\* The inductive invariant holds initially.
LEMMA InitIInv == Init => IInv
<1> SUFFICES ASSUME Init PROVE IInv
  OBVIOUS
<1>1. parts \in Seq(keys)
  <2>1. PICK n \in 1 .. MaxParts : parts \in [1 .. n -> keys]
    BY DEF Init
  <2>2. n \in Nat
    BY BytesAssumption
  <2> QED BY <2>1, <2>2, SeqDef
<1> DEFINE all == FlattenSeq(parts)
<1>2. /\ Len(parts) \in Nat /\ Joined(parts, 0) = <<>>
      /\ all \in Seq(Byte)
  BY <1>1, KeysInParts, JoinedKeys
<1>3. Len(all) \in Nat /\ Len(<<>>) = 0
  BY <1>1, JoinedKeys
<1>4. BufferInv
  <2>1. <<>> \o filled(Len(all) - 0, 0) = filled(Len(all), 0)
    BY <1>3, FilledBytes, ConcatEmptySeq
  <2>2. out = filled(Len(all), 0) /\ copied = 0
    BY DEF Init
  <2> HIDE DEF all
  <2>3. out = Joined(parts, copied) \o filled(Len(all) - Len(Joined(parts, copied)), 0)
    BY <1>2, <1>3, <2>1, <2>2
  <2> QED BY <1>1, <1>2, <2>2, <2>3 DEF BufferInv, all
<1>5. BlobInv /\ LoadedWhole
  BY <1>2, <1>3 DEF BlobInv, LoadedWhole, Init
<1> QED BY <1>4, <1>5 DEF IInv

\* Copying the next key preserves it.
LEMMA CopyIInv == IInv /\ Copy => IInv'
<1> SUFFICES ASSUME IInv, Copy PROVE IInv'
  OBVIOUS
<1> DEFINE a   == Joined(parts, copied)
           k   == parts[copied + 1]
           all == FlattenSeq(parts)
<1>1. /\ parts \in Seq(keys) /\ parts' = parts /\ copied' = copied + 1
      /\ copied + 1 \in 1 .. Len(parts) /\ copied \in 0 .. Len(parts) /\ copied # Len(parts)
      /\ Len(parts) \in Nat /\ parts \in Seq(Seq(Byte)) /\ k \in Seq(Byte)
  BY KeysInParts DEF IInv, BufferInv, Copy
<1>2. blob = {} /\ loaded = {} /\ offset = Len(a)
  BY <1>1 DEF IInv, BlobInv
<1>3. /\ a \in Seq(Byte) /\ Len(a) \in Nat /\ Len(all) \in Nat
      /\ Joined(parts, copied + 1) = a \o k /\ Len(a) + Len(k) <= Len(all)
  BY <1>1, JoinedKeys
<1>4. Len(k) \in Nat
  BY <1>1, LenProperties
<1>5. out = a \o filled(Len(all) - Len(a), 0) /\ out' = memcpy(out, offset, k) /\ offset' = offset + Len(k)
      /\ blob' = blob /\ loaded' = loaded
  BY DEF IInv, BufferInv, Copy
<1>6. Joined(parts, copied)' = a \o k /\ FlattenSeq(parts)' = all
  BY <1>1, <1>3
<1>7. parts' \in Seq(keys) /\ copied' \in 0 .. Len(parts')
  BY <1>1
<1> HIDE DEF a, k, all
<1>8. out' = (a \o k) \o filled(Len(all) - Len(a \o k), 0)
  BY <1>1, <1>2, <1>3, <1>4, <1>5, CopyIntoZeros
<1>9. BufferInv'
  BY <1>7, <1>6, <1>8 DEF BufferInv
<1>10. BlobInv'
  <2>1. Len(a \o k) = Len(a) + Len(k)
    BY <1>1, <1>3, ConcatProperties
  <2> QED BY <1>2, <1>5, <1>6, <2>1 DEF BlobInv
<1>11. LoadedWhole'
  BY <1>2, <1>5 DEF LoadedWhole
<1> QED BY <1>9, <1>10, <1>11 DEF IInv

\* Giving bytes back preserves it: they are a prefix of the buffer.
LEMMA GiveBackIInv == IInv /\ GiveBack => IInv'
<1> SUFFICES ASSUME IInv, GiveBack PROVE IInv'
  OBVIOUS
<1>1. /\ parts' = parts /\ out' = out /\ copied' = copied /\ loaded' = loaded /\ offset' = offset
      /\ copied = Len(parts) /\ blob = {} /\ Len(parts) = 2 /\ Len(parts[1]) <= Len(parts[2])
  BY DEF GiveBack
<1>2. BufferInv /\ loaded = {}
  BY <1>1 DEF IInv, BlobInv
<1>3. out = FlattenSeq(parts) /\ out \in Seq(Byte) /\ Len(out) \in Nat
  BY <1>1, <1>2, WholeBuffer
<1>4. BufferInv'
  BY <1>1, <1>2 DEF BufferInv
<1>5. PICK n \in 0 .. Len(out) : blob' = {SubSeq(out, 1, n)}
  BY DEF GiveBack
<1>6. PICK bytes : bytes = SubSeq(out, 1, n)
  OBVIOUS
<1>7. bytes \in Seq(Byte) /\ Len(bytes) = n /\ \A x \in 1 .. n : bytes[x] = out[x]
  <2>1. \A x \in 1 .. n : out[x] \in Byte
    BY <1>3, ElementOfSeq
  <2>2. /\ bytes \in Seq(Byte) /\ Len(bytes) = IF 1 <= n THEN n - 1 + 1 ELSE 0
        /\ \A x \in 1 .. n - 1 + 1 : bytes[x] = out[1 + x - 1]
    BY <1>6, <2>1, SubSeqProperties
  <2> QED BY <2>2
<1>8. Saved(parts', bytes)
  BY <1>1, <1>3, <1>7 DEF Saved
<1>9. BlobInv'
  BY <1>1, <1>5, <1>6, <1>8 DEF BlobInv
<1>10. LoadedWhole'
  BY <1>1, <1>2 DEF LoadedWhole
<1> QED BY <1>4, <1>9, <1>10 DEF IInv

\* Loading a half preserves it: the blob is what was saved, since no load before
\* has succeeded, and stays it unless this one does.
LEMMA LoadIInv == ASSUME NEW i \in 1 .. 2 PROVE IInv /\ Load(i) => IInv'
<1> SUFFICES ASSUME IInv, Load(i) PROVE IInv'
  OBVIOUS
<1>1. PICK bytes \in blob :
         /\ loaded' = loaded \cup
               {[half    |-> i,
                 success |-> load_keyb_s(bytes, filled(Len(parts[i]), 0), LoadOffset(i)).success,
                 key     |-> load_keyb_s(bytes, filled(Len(parts[i]), 0), LoadOffset(i)).ref]}
         /\ blob' = {load_keyb_s(bytes, filled(Len(parts[i]), 0), LoadOffset(i)).bytes}
  BY DEF Load
<1>2. PICK at : at = LoadOffset(i) /\ at = IF i = 1 THEN 0 ELSE Len(parts[i])
  BY DEF LoadOffset
<1>3. PICK r : r = Result(parts, i, bytes, at)
  OBVIOUS
<1>4. /\ loaded' = loaded \cup {[half |-> i, success |-> r.success, key |-> r.ref]}
      /\ blob' = {r.bytes}
  BY <1>1, <1>2, <1>3 DEF Result
<1>5. parts' = parts /\ out' = out /\ copied' = copied /\ offset' = offset
      /\ \A l \in loaded : ~l.success
  BY DEF Load
<1>6. /\ parts \in Seq(keys) /\ copied = Len(parts) /\ Len(parts) = 2
      /\ Len(parts[1]) <= Len(parts[2]) /\ Saved(parts, bytes)
  BY <1>5 DEF IInv, BufferInv, BlobInv
<1>7. /\ r.ref = IF r.success THEN parts[i] ELSE filled(Len(parts[i]), 0)
      /\ ~r.success => r.bytes = bytes
  BY <1>2, <1>3, <1>6, LoadResult
<1>8. BufferInv'
  BY <1>5 DEF IInv, BufferInv
<1>9. PICK l : l = [half |-> i, success |-> r.success, key |-> r.ref]
  OBVIOUS
<1>10. l \in loaded' /\ l.success = r.success /\ l.half = i /\ l.key = r.ref
       /\ loaded' = loaded \cup {l}
  BY <1>4, <1>9
<1>11. BlobInv'
  <2>1. ASSUME \A m \in loaded' : ~m.success
        PROVE  \A b \in blob' : Saved(parts', b)
    BY <1>4, <1>5, <1>6, <1>7, <1>10, <2>1
  <2> QED BY <1>4, <1>5, <1>6, <2>1 DEF BlobInv
<1>12. LoadedWhole'
  <2>1. ASSUME NEW m \in loaded'
        PROVE  m.key = IF m.success THEN parts[m.half] ELSE filled(Len(parts[m.half]), 0)
    <3>1. CASE m \in loaded
      BY <3>1 DEF IInv, LoadedWhole
    <3>2. CASE m = l
      BY <1>7, <1>10, <3>2
    <3> QED BY <1>10, <3>1, <3>2
  <2> QED BY <1>5, <2>1 DEF LoadedWhole
<1> QED BY <1>8, <1>11, <1>12 DEF IInv

\* It implies that what was copied can be taken out again.
LEMMA IInvImpliesConcatenated == IInv => Concatenated
<1> SUFFICES ASSUME IInv PROVE Concatenated
  OBVIOUS
<1>1. PICK s : s = parts /\ s \in Seq(keys)
  BY DEF IInv, BufferInv
<1>2. PICK c \in 0 .. Len(s) : c = copied
  BY <1>1 DEF IInv, BufferInv
<1> DEFINE a == Joined(s, c)
           z == filled(Len(FlattenSeq(s)) - Len(a), 0)
<1>3. out = a \o z
  BY <1>1, <1>2 DEF IInv, BufferInv
<1>4. s \in Seq(Seq(Byte)) /\ Len(s) \in Nat
  BY <1>1, KeysInParts
<1>5. a \in Seq(Byte) /\ Len(a) \in Nat /\ Len(FlattenSeq(s)) \in Nat /\ Len(a) <= Len(FlattenSeq(s))
  <2>1. a \in Seq(Byte) /\ Len(a) \in Nat /\ Len(FlattenSeq(s)) \in Nat /\ Joined(s, Len(s)) = FlattenSeq(s)
    BY <1>1, JoinedKeys
  <2>2. Len(s) \in c .. Len(s)
    BY <1>4
  <2>3. Len(Joined(s, c)) <= Len(Joined(s, Len(s)))
    BY <1>4, <2>2, JoinedPrefix
  <2> QED BY <2>1, <2>3
<1>6. z \in Seq(Byte)
  BY <1>5, FilledBytes
<1>7. ASSUME NEW i \in 1 .. c
      PROVE  kcpy(out, Len(s[i]), Len(Joined(s, i - 1))) = s[i]
  <2>1. i \in 1 .. Len(s) /\ c \in 1 .. Len(s) /\ i - 1 \in 0 .. Len(s)
    BY <1>4
  <2> DEFINE k == s[i]
             at == Len(Joined(s, i - 1))
  <2>2. k \in Seq(Byte) /\ Len(k) \in Nat /\ at \in Nat
    BY <1>1, <2>1, KeysInParts, JoinedKeys
  <2>3. at + Len(k) <= Len(a) /\ \A x \in 1 .. Len(k) : a[at + x] = k[x]
    BY <1>4, <2>1, JoinedPart
  <2> HIDE DEF k, at, a, z
  <2>4. \A x \in 1 .. Len(a) : (a \o z)[x] = a[x]
    <3>1. Len(z) \in Nat
      BY <1>6, LenProperties
    <3>2. \A x \in 1 .. Len(a) + Len(z) : (a \o z)[x] = IF x <= Len(a) THEN a[x] ELSE z[x - Len(a)]
      BY <1>5, <1>6, ConcatProperties
    <3>3. \A x \in 1 .. Len(a) : x \in 1 .. Len(a) + Len(z) /\ x <= Len(a)
      BY <1>5, <3>1
    <3> QED BY <3>2, <3>3
  <2>5. \A x \in 1 .. Len(k) : at + x \in 1 .. Len(a)
    BY <1>5, <2>2, <2>3
  <2>6. \A x \in 1 .. Len(k) : out[at + x] = k[x]
    BY <1>3, <2>3, <2>4, <2>5
  <2>7. k = [x \in 1 .. Len(k) |-> k[x]]
    BY <2>2, LenProperties
  <2>8. kcpy(out, Len(k), at) = k
    BY <2>6, <2>7 DEF kcpy
  <2> QED BY <2>8 DEF k, at
<1>8. out = FlattenSeq(SubSeq(parts, 1, copied))
             \o filled(Len(FlattenSeq(parts)) - Len(FlattenSeq(SubSeq(parts, 1, copied))), 0)
  BY <1>1, <1>2, <1>3 DEF Joined
<1>9. \A i \in 1 .. copied : kcpy(out, Len(parts[i]), Begin(i)) = parts[i]
  BY <1>1, <1>2, <1>7 DEF Begin, Joined
<1> QED BY <1>8, <1>9 DEF Concatenated

\* The inductive invariant always holds.
LEMMA SpecIInv == Spec => []IInv
<1>1. IInv /\ UNCHANGED vars => IInv'
  BY DEF vars, IInv, BufferInv, BlobInv, LoadedWhole
<1>2. IInv /\ [Next]_vars => IInv'
  BY <1>1, CopyIInv, GiveBackIInv, LoadIInv DEF Next
<1> QED BY <1>2, InitIInv, PTL DEF Spec

\* kconcat's buffer always holds exactly the keys copied so far, in their
\* order, each where kcpy finds it, whatever the keys, their sizes and their
\* number.
THEOREM KeysConcatenated == Spec => []Concatenated
BY SpecIInv, IInvImpliesConcatenated, PTL

\* A load of load_keyb_s that reports success gives the half that was saved, and
\* one that reports failure leaves the key zero, at the offsets create_inbound_session
\* uses, wherever the blob is cut, whatever the keys and whatever their sizes, as
\* long as a private key is not shorter than its public key.
THEOREM KeysLoadedWhole == Spec => []LoadedWhole
<1>1. IInv => LoadedWhole
  BY DEF IInv
<1> QED BY <1>1, SpecIInv, PTL
=============================================================================
